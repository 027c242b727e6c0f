----------------------------- MODULE MCAccounts -----------------------------
(* An instance of Accounts for TLC: a validator, the ledger, and a shop     *)
(* whose profile lacks what the validation of a business asks for.          *)
EXTENDS Accounts

Named(name, type) == [first_name |-> name, last_name |-> name, user_type |-> type]
Three == [ann |-> Named("Ann", "validator"), led |-> Named("Ledger", "ledger"),
          shop |-> Named("Shop", "business")]
TwoTypes == [ann |-> <<"private", "business">>, led |-> <<"mint">>, shop |-> <<"private">>]
Runs == {<<"led", "ann">>, <<"led", "shop">>}
==============================================================================
