------------------------------ MODULE MCSignOn ------------------------------
(* Two tabs, two accounts, a client of the configuration and one that is not. *)
EXTENDS SignOn, TLC

CONSTANTS left, right, home, work, foo, other

TwoTabs == {left, right}
TwoAccounts == {home, work}
OneFirst == {foo}
OneThird == {other}
ThreeAsks ==
    {[client |-> foo, scopes |-> {"openid", "email"}, consent |-> FALSE],
     [client |-> foo, scopes |-> {"openid"}, consent |-> TRUE],
     [client |-> other, scopes |-> {"openid", "profile"}, consent |-> FALSE]}

Symmetry == Permutations(TwoTabs) \cup Permutations(TwoAccounts)
=============================================================================
