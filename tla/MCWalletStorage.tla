-------------------------- MODULE MCWalletStorage --------------------------
(* An instance of WalletStorage for TLC: two handlers, one of which derives *)
(* keys, and the page that changes the password.                           *)
EXTENDS WalletStorage

MCChange == {"height", "keys"}
MCKeyChange == {"keys"}
MCPageChange == {"password"}

None == [e \in Event |-> 0]
Kills == [None EXCEPT !["login"] = 2, !["save"] = 1, !["crash"] = 2]
Errors == [None EXCEPT !["login"] = 1, !["save"] = 1, !["ask"] = 1, !["disk"] = 2]
Pages == [None EXCEPT !["login"] = 1, !["save"] = 1, !["ask"] = 1, !["crash"] = 1]
ErrorAndKill == [None EXCEPT !["login"] = 1, !["ask"] = 1, !["disk"] = 1, !["crash"] = 1]

MCMixes == {[platform |-> "desktop", left |-> Kills],
            [platform |-> "desktop", left |-> Errors],
            [platform |-> "twoDisks", left |-> ErrorAndKill],
            [platform |-> "android", left |-> Pages]}
OneUser == {[platform |-> "desktop", left |-> [None EXCEPT !["login"] = 1]]}

FullDisk == [None EXCEPT !["login"] = 1, !["ask"] = 1, !["disk"] = 2]
FullAndroid == {[platform |-> "android", left |-> FullDisk]}
=============================================================================
