---------------------------- MODULE AccountRules ----------------------------
(***************************************************************************)
(* The records of a user and of a wallet, as their services make them, and *)
(* what the validations of lib_user and lib_wallet accept.                 *)
(*                                                                         *)
(* A record's domain holds the fields that are set: None, "" and absence   *)
(* are one to every check here. A string with a wrong format or length is  *)
(* "malformed", a date is "now", an identifier is what it is computed      *)
(* from, fees are in percent. Fields that are never set are left out.      *)
(***************************************************************************)
EXTENDS Integers, FiniteSets

\* What the caller gives, over the defaults.
Over(given, defaults) ==
    [f \in DOMAIN given \cup DOMAIN defaults |-> IF f \in DOMAIN given THEN given[f] ELSE defaults[f]]

WellFormed(r, fields) == \A f \in fields \cap DOMAIN r : r[f] # "malformed"

------------------------------------------------------------------------------
\* Users

UserTypes == {"ledger", "genesis", "individual", "business", "organization", "validator",
              "delegator", "institutional", "developer", "testnet"}
Languages == {"en", "es", "fr", "de", "zh", "ja", "ko"}
MinStake  == 1000

UserSchema ==
    [required |-> {"user_id", "first_name", "last_name", "email_registration", "email_current",
                   "kyc_key", "user_type", "status", "created_at", "last_modified"},
     bounded  |-> {"first_name", "last_name", "phone", "country", "bio", "organization_name", "notes"},
     choices  |-> [user_type |-> UserTypes,
                   status |-> {"active", "inactive", "suspended", "pending", "verified",
                               "deleted", "archived"},
                   language |-> Languages,
                   currency_preference |-> {"BTC", "USD", "EUR", "GBP", "JPY", "CNY", "BACHI"},
                   validator_status |-> {"active", "inactive", "jailed"}],
     ranges   |-> [stake_amount |-> Nat, delegation_fee |-> 0..10]]

UserViews ==
    [create |-> {"first_name", "last_name", "email_registration", "user_type", "language",
                 "currency_preference", "kyc_verified", "created_at", "last_modified"},
     index  |-> {"user_id", "first_name", "last_name", "email_current", "email_registration",
                 "user_type", "status", "kyc_verified", "total_balance", "wallet_ids",
                 "created_at", "kyc_key"}]

\* get_user_full_defaults, and the current email, which is the registered one.
UserDefaults(email) ==
    [user_type |-> "testnet", status |-> "active", kyc_verified |-> TRUE, language |-> "en",
     currency_preference |-> "BACHI", wallet_ids |-> {}, total_balance |-> 0,
     email_current |-> email]

\* create_user_with_index: what it computes nobody can give.
NewUser(email, given) ==
    Over([user_id |-> email, email_registration |-> email, kyc_key |-> email,
          created_at |-> "now", last_modified |-> "now"],
         Over(given, UserDefaults(email)))

MaxWalletsOf(type) == IF type = "testnet" THEN 10 ELSE 7

RequiredForView(r, view) == UserViews[view] \cap UserSchema.required \subseteq DOMAIN r
UserFormats(r) == WellFormed(r, {"user_id", "email_registration", "email_current", "phone"})
UserTimestamps(r) == WellFormed(r, {"created_at", "last_modified"})

\* A validator's stake is asked for later, its KYC at once.
ValidatorRules(r, view) ==
    /\ r.kyc_verified
    /\ view \notin {"create", "index"} => "stake_amount" \in DOMAIN r /\ r.stake_amount >= MinStake
OtherRules(r) ==
    /\ "stake_amount" \in DOMAIN r => r.stake_amount = 0
    /\ "validator_address" \notin DOMAIN r

UserRules(r, view) ==
    /\ IF r.user_type = "validator" THEN ValidatorRules(r, view) ELSE OtherRules(r)
    /\ r.user_type = "business" => "organization_name" \in DOMAIN r

\* Every field of the schema is a key of the data, if only with None.
UserFields(r) ==
    /\ UserSchema.required \subseteq DOMAIN r
    /\ WellFormed(r, UserSchema.bounded)
    /\ \A f \in DOMAIN UserSchema.choices \cap DOMAIN r : r[f] \in UserSchema.choices[f]
    /\ \A f \in DOMAIN UserSchema.ranges \cap DOMAIN r : r[f] \in UserSchema.ranges[f]
    /\ Cardinality(r.wallet_ids) <= MaxWalletsOf(r.user_type)

\* validate_user_data
UserData(r, view) ==
    /\ RequiredForView(r, view) /\ UserFormats(r) /\ UserTimestamps(r)
    /\ UserRules(r, view) /\ UserFields(r)

------------------------------------------------------------------------------
\* Wallets

WalletTypes == {"default", "private", "business", "charity", "savings", "investment",
                "mint", "burn", "pool"}

WalletSchema ==
    [required |-> {"wallet_id", "user_id", "name", "balance", "nonce", "wallet_type", "status",
                   "network", "currency", "addresses", "created_at", "last_modified"},
     choices  |-> [wallet_type |-> WalletTypes,
                   security_type |-> {"hot", "cold", "hardware", "multisig"},
                   status |-> {"active", "inactive", "suspended", "deleted", "archived"},
                   network |-> {"mainnet", "testnet", "regtest"},
                   currency |-> {"BACHI", "BTC", "ETH"}],
     atLeast0 |-> {"balance", "nonce"},
     formats  |-> {"storage_root", "code_hash", "created_at", "last_modified"}]

\* prepare_wallet_data
NewWallet(user, type, address) ==
    [wallet_id |-> <<user, type>>, user_id |-> user, name |-> "Unnamed Wallet", wallet_type |-> type,
     security_type |-> "hot", status |-> "active", network |-> "testnet", currency |-> "BACHI",
     balance |-> 0, nonce |-> 0, created_at |-> "now", last_modified |-> "now",
     addresses |-> [eoa |-> address]]

WalletRequired(r) == WalletSchema.required \subseteq DOMAIN r
WalletValues(r) ==
    /\ \A f \in DOMAIN WalletSchema.choices \cap DOMAIN r : r[f] \in WalletSchema.choices[f]
    /\ \A f \in WalletSchema.atLeast0 \cap DOMAIN r : r[f] >= 0
    /\ WellFormed(r, WalletSchema.formats)
\* Addresses that are derived have the right format.
WalletAddresses(r) == DOMAIN r.addresses # {}
WalletRules(r) ==
    /\ "account_type" \in DOMAIN r =>
          /\ r.account_type = "contract" => "code_hash" \in DOMAIN r
          /\ r.account_type = "eoa" => {"code_hash", "storage_root"} \cap DOMAIN r = {}
    /\ r.status \in {"deleted", "suspended"} => r.balance = 0

\* validate_wallet_data, for a creation
WalletData(r) == WalletRequired(r) /\ WalletValues(r) /\ WalletAddresses(r) /\ WalletRules(r)
==============================================================================
