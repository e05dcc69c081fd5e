------------------------------ MODULE DkToken ------------------------------
(***************************************************************************)
(* The Anchor program dk-token: configurations, the mints created under    *)
(* them, mint requests that a checker decides, and the token instructions. *)
(*                                                                         *)
(* An instruction is atomic: its account constraints, its require!s and    *)
(* the token program it calls either all succeed or nothing is written.    *)
(* The SPL token program and Metaplex are external: of a token account the *)
(* model keeps one balance per owner and mint, of the metadata its text    *)
(* and who may update it.  Rent, fees, decimals and bumps are left out.    *)
(***************************************************************************)
EXTENDS Integers, FiniteSets, Functions

CONSTANTS
    Wallets,        \* public keys that sign transactions
    NoWallet,       \* Option::None for a checker, and "not initialized"
    Configs,        \* addresses a Config account may get
    NoConfig,       \* the origin of a mint that does not exist
    Mints,          \* addresses a mint may get
    NoMint,         \* Pubkey::default()
    Requests,       \* addresses a MintRequest account may get
    Texts,          \* what name, symbol and uri of the metadata may say
    NoText,         \* the metadata account does not exist
    MaxCheckers,    \* checkers the space of a Config account holds: 10
    U64Max          \* the largest amount: 2^64 - 1

ASSUME NullsAssumption ==
    /\ NoWallet \notin Wallets
    /\ NoConfig \notin Configs
    /\ NoMint \notin Mints
    /\ NoText \notin Texts

ASSUME BoundsAssumption == MaxCheckers \in Nat /\ U64Max \in Nat

\* Addresses are public keys of 32 bytes.
ASSUME AddressesAssumption ==
    IsFiniteSet(Mints) /\ IsFiniteSet(Requests)

U64 == 0..U64Max

VARIABLES
    config,         \* the Config accounts
    mintRequest,    \* the MintRequest accounts
    supply,         \* of each mint
    balance,        \* of each wallet, in each mint
    metadata,       \* the metadata account of each mint
    \* history, read by no action:
    origin,         \* the config a mint was created under
    mintedInto,     \* the mint that the approval of a request minted into
    burned          \* what has been burned of each mint

vars == <<config, mintRequest, supply, balance, metadata, origin, mintedInto, burned>>

ConfigAccount ==
    [admin    : Wallets \cup {NoWallet},
     mint     : Mints \cup {NoMint},
     checkers : SUBSET Wallets]

RequestStatus == {"Pending", "Approved", "Rejected"}

MintRequestAccount ==
    [status  : RequestStatus \cup {"None"},
     config  : Configs \cup {NoConfig},
     maker   : Wallets \cup {NoWallet},
     checker : Wallets \cup {NoWallet},
     amount  : U64]

MetadataAccount ==
    [text            : Texts \cup {NoText},
     updateAuthority : Wallets \cup {NoWallet}]

TypeOK ==
    /\ config \in [Configs -> ConfigAccount]
    /\ mintRequest \in [Requests -> MintRequestAccount]
    /\ supply \in [Mints -> U64]
    /\ balance \in [Wallets -> [Mints -> U64]]
    /\ metadata \in [Mints -> MetadataAccount]
    /\ origin \in [Mints -> Configs \cup {NoConfig}]
    /\ mintedInto \in [Requests -> Mints \cup {NoMint}]
    /\ burned \in [Mints -> Nat]

Init ==
    /\ config = [k \in Configs |-> [admin |-> NoWallet, mint |-> NoMint, checkers |-> {}]]
    /\ mintRequest = [r \in Requests |->
                         [status |-> "None", config |-> NoConfig, maker |-> NoWallet,
                          checker |-> NoWallet, amount |-> 0]]
    /\ supply = [m \in Mints |-> 0]
    /\ balance = [w \in Wallets |-> [m \in Mints |-> 0]]
    /\ metadata = [m \in Mints |-> [text |-> NoText, updateAuthority |-> NoWallet]]
    /\ origin = [m \in Mints |-> NoConfig]
    /\ mintedInto = [r \in Requests |-> NoMint]
    /\ burned = [m \in Mints |-> 0]

Initialized(k) == config[k].admin # NoWallet

MintExists(m) == origin[m] # NoConfig

-----------------------------------------------------------------------------
(* Slips the program could have: each replaces the operator of the same name *)
(* without its suffix, and a property below must then be violated.           *)

\* `init_if_needed` where the account of the mint must be new.
NewMint_IfNeeded(m) == TRUE

\* A decided request may be decided again.
Decidable_Again(r, k, checker) ==
    /\ mintRequest[r].status \in {"Pending", "Approved"}
    /\ Initialized(k)
    /\ checker \in config[k].checkers

\* The mint passed along is not compared with the mint of the config.
MintOf_Unchecked(k, m) == MintExists(m)

\* The decision does not say who took it.
Decided_Anonymous(row, decision, checker) == [row EXCEPT !.status = decision]

\* The supply is not checked for overflow.
FitsSupply_Unchecked(m, amount) == TRUE

\* The signer is not compared with the admin of the config.
IsAdmin_Anyone(k, admin) == Initialized(k)

-----------------------------------------------------------------------------
(* Parts of the instructions. *)

\* #[account(init)] of the mint: the account must not exist.
NewMint(m) == ~MintExists(m)

\* What approve_request and reject_request both require.
Decidable(r, k, checker) ==
    /\ mintRequest[r].status = "Pending"
    /\ Initialized(k)
    /\ checker \in config[k].checkers

Decided(row, decision, checker) == [row EXCEPT !.status = decision, !.checker = checker]

\* config.mint == ctx.accounts.mint.key()
MintOf(k, m) == MintExists(m) /\ config[k].mint = m

\* mint_to of the token program fails when the supply would overflow, and
\* each instruction of it when a balance or the supply would.
FitsSupply(m, amount) == supply[m] + amount <= U64Max

\* The signer is the admin of the config.
IsAdmin(k, admin) == Initialized(k) /\ config[k].admin = admin

\* The token program adds to and takes from a balance.
Credit(b, w, m, amount) == [b EXCEPT ![w][m] = @ + amount]

Debit(b, w, m, amount) == [b EXCEPT ![w][m] = @ - amount]

-----------------------------------------------------------------------------
(* The instructions. *)

\* initialize: whoever signs becomes the admin of a new Config.
Initialize(k, admin, checkers) ==
    /\ ~Initialized(k)
    /\ Cardinality(checkers) <= MaxCheckers
    /\ config' = [config EXCEPT ![k] =
                     [admin |-> admin, mint |-> NoMint, checkers |-> checkers]]
    /\ UNCHANGED <<mintRequest, supply, balance, metadata, origin, mintedInto, burned>>

\* create_mint: a new mint replaces whatever mint the config had.
CreateMint(k, m, admin) ==
    /\ IsAdmin(k, admin)
    /\ NewMint(m)
    /\ config' = [config EXCEPT ![k].mint = m]
    /\ supply' = [supply EXCEPT ![m] = 0]
    /\ origin' = [origin EXCEPT ![m] = k]
    /\ UNCHANGED <<mintRequest, balance, metadata, mintedInto, burned>>

\* create_metadata: the mint of the config, whose metadata must not exist.
CreateMetadata(k, m, admin, text) ==
    /\ IsAdmin(k, admin)
    /\ MintOf(k, m)
    /\ metadata[m].text = NoText
    /\ metadata' = [metadata EXCEPT ![m] =
                       [text |-> text, updateAuthority |-> admin]]
    /\ UNCHANGED <<config, mintRequest, supply, balance, origin, mintedInto, burned>>

\* update_metadata does not ask for the mint of the config; Metaplex asks for
\* the authority the metadata was created with.
UpdateMetadata(k, m, admin, text) ==
    /\ IsAdmin(k, admin)
    /\ metadata[m].text # NoText
    /\ metadata[m].updateAuthority = admin
    /\ metadata' = [metadata EXCEPT ![m].text = text]
    /\ UNCHANGED <<config, mintRequest, supply, balance, origin, mintedInto, burned>>

\* create_mint_request: any signer, any amount, also before there is a mint.
CreateMintRequest(r, k, maker, amount) ==
    /\ mintRequest[r].status = "None"
    /\ Initialized(k)
    /\ mintRequest' = [mintRequest EXCEPT ![r] =
                          [status |-> "Pending", config |-> k, maker |-> maker,
                           checker |-> NoWallet, amount |-> amount]]
    /\ UNCHANGED <<config, supply, balance, metadata, origin, mintedInto, burned>>

\* approve_request: mints into the token account passed along, of any owner.
ApproveRequest(r, k, m, checker, to) ==
    LET amount == mintRequest[r].amount
    IN  /\ Decidable(r, k, checker)
        /\ checker # mintRequest[r].maker
        /\ MintOf(k, m)
        /\ FitsSupply(m, amount)
        /\ balance[to][m] + amount <= U64Max
        /\ supply' = [supply EXCEPT ![m] = @ + amount]
        /\ balance' = Credit(balance, to, m, amount)
        /\ mintRequest' = [mintRequest EXCEPT ![r] = Decided(@, "Approved", checker)]
        /\ mintedInto' = [mintedInto EXCEPT ![r] = m]
        /\ UNCHANGED <<config, metadata, origin, burned>>

\* reject_request: a checker, who may also be the maker.
RejectRequest(r, k, checker) ==
    /\ Decidable(r, k, checker)
    /\ mintRequest' = [mintRequest EXCEPT ![r] = Decided(@, "Rejected", checker)]
    /\ UNCHANGED <<config, supply, balance, metadata, origin, mintedInto, burned>>

\* transfer_tokens: the token program checks owner, mint and balance.
TransferTokens(m, from, to, amount) ==
    /\ MintExists(m)
    /\ amount <= balance[from][m]
    /\ from # to => balance[to][m] + amount <= U64Max
    /\ balance' = Credit(Debit(balance, from, m, amount), to, m, amount)
    /\ UNCHANGED <<config, mintRequest, supply, metadata, origin, mintedInto, burned>>

\* burn_tokens
BurnTokens(m, user, amount) ==
    /\ MintExists(m)
    /\ amount <= balance[user][m]
    /\ amount <= supply[m]
    /\ balance' = Debit(balance, user, m, amount)
    /\ supply' = [supply EXCEPT ![m] = @ - amount]
    /\ burned' = [burned EXCEPT ![m] = @ + amount]
    /\ UNCHANGED <<config, mintRequest, metadata, origin, mintedInto>>

AdminStep ==
    \E k \in Configs, admin \in Wallets :
        \/ \E checkers \in SUBSET Wallets : Initialize(k, admin, checkers)
        \/ \E m \in Mints :
              \/ CreateMint(k, m, admin)
              \/ \E text \in Texts :
                    CreateMetadata(k, m, admin, text) \/ UpdateMetadata(k, m, admin, text)

RequestStep ==
    \E r \in Requests, k \in Configs, w \in Wallets :
        \/ \E amount \in U64 : CreateMintRequest(r, k, w, amount)
        \/ \E m \in Mints, to \in Wallets : ApproveRequest(r, k, m, w, to)
        \/ RejectRequest(r, k, w)

TokenStep ==
    \E m \in Mints, w \in Wallets, amount \in U64 :
        \/ \E to \in Wallets : TransferTokens(m, w, to, amount)
        \/ BurnTokens(m, w, amount)

Next == AdminStep \/ RequestStep \/ TokenStep

Spec == Init /\ [][Next]_vars

-----------------------------------------------------------------------------
(* Safety. *)

(***************************************************************************)
(* A mint belongs to one config for good: the mint a config names was      *)
(* created under it, also after create_mint has replaced earlier mints, so *)
(* no two configs issue the same token.                                    *)
(***************************************************************************)
MintHasOneConfig ==
    \A k \in Configs : config[k].mint # NoMint => origin[config[k].mint] = k

(***************************************************************************)
(* Four eyes: tokens of a mint exist only because a checker of the config  *)
(* that mint belongs to, who is not the maker, approved the request that   *)
(* asked for them.  approve_request compares the config it is given with   *)
(* the mint, and not with the config the request names.                    *)
(***************************************************************************)
FourEyes ==
    \A r \in Requests :
        LET row == mintRequest[r]
            m   == mintedInto[r]
        IN  /\ row.status = "Approved" <=> m # NoMint
            /\ m # NoMint => /\ origin[m] # NoConfig
                             /\ row.checker \in config[origin[m]].checkers
                             /\ row.checker # row.maker

(***************************************************************************)
(* Every token in circulation was minted by one approval: what is minted   *)
(* into a mint is the amounts of the requests approved for it, each once,  *)
(* and what is left of it is that less the burned.                         *)
(***************************************************************************)
SupplyIsApproved ==
    \A m \in Mints :
        LET approved == {r \in Requests : mintedInto[r] = m}
        IN  supply[m] + burned[m] =
                SumFunctionOnSet([r \in Requests |-> mintRequest[r].amount], approved)

(***************************************************************************)
(* The metadata of a mint stays in the hands of the admin of the config    *)
(* the mint belongs to, although update_metadata never looks at which      *)
(* config that is.                                                         *)
(***************************************************************************)
MetadataStaysWithAdmin ==
    \A m \in Mints :
        metadata[m].text # NoText =>
            /\ origin[m] # NoConfig
            /\ metadata[m].updateAuthority = config[origin[m]].admin

(***************************************************************************)
(* A decision is final: the request, its checker and its amount never      *)
(* change again, and nobody decides without leaving a name.                *)
(***************************************************************************)
DecisionIsFinal ==
    [][\A r \in Requests :
          /\ mintRequest[r].status \in {"Approved", "Rejected"} =>
                 UNCHANGED mintRequest[r]
          /\ mintRequest'[r].status \in {"Approved", "Rejected"} =>
                 mintRequest'[r].checker # NoWallet]_vars
=============================================================================
