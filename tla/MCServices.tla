----------------------------- MODULE MCServices -----------------------------
(* Two requests of one address: a user's over https, a stranger's over http. *)
EXTENDS Services

CONSTANTS user, stranger

TwoLogins == {user, stranger}
OneKnown == {user}
OnePlain == {stranger}
UrlEndings == {{"ssl=true", "sslmode=disable"}}
=============================================================================
