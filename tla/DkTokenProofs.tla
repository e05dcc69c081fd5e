--------------------------- MODULE DkTokenProofs ---------------------------
(***************************************************************************)
(* Proofs about DkToken, for any wallets, configs, mints, requests and any *)
(* width of an amount.  The sums over requests follow one instruction at a *)
(* time with the facts of module Sums.                                     *)
(***************************************************************************)
EXTENDS DkToken, Sums

(***************************************************************************)
(* A mint is only ever created under a config that is initialized.  As     *)
(* initialize runs once per config, the admin and the checkers of the      *)
(* config of a mint never change.                                          *)
(***************************************************************************)
OriginsInitialized == \A m \in Mints : MintExists(m) => Initialized(origin[m])

IInv ==
    /\ TypeOK
    /\ OriginsInitialized
    /\ MintHasOneConfig
    /\ FourEyes
    /\ MetadataStaysWithAdmin

USE NullsAssumption

LEMMA InitInv == Init => IInv
<1> SUFFICES ASSUME Init PROVE IInv
  OBVIOUS
<1>1. TypeOK
  BY BoundsAssumption
  DEF Init, TypeOK, ConfigAccount, MintRequestAccount, MetadataAccount, U64
<1>2. OriginsInitialized /\ MintHasOneConfig
  BY DEF Init, OriginsInitialized, MintHasOneConfig, MintExists
<1>3. FourEyes /\ MetadataStaysWithAdmin
  BY DEF Init, FourEyes, MetadataStaysWithAdmin
<1> QED
  BY <1>1, <1>2, <1>3 DEF IInv

\* A decided request keeps its shape.
LEMMA DecidedTyped ==
    ASSUME NEW row \in MintRequestAccount, NEW decision \in RequestStatus,
           NEW checker \in Wallets
    PROVE  Decided(row, decision, checker) \in MintRequestAccount
<1>1. [row EXCEPT !.status = decision] \in MintRequestAccount
  BY DEF MintRequestAccount
<1> QED
  BY <1>1 DEF Decided, MintRequestAccount

(***************************************************************************)
(* Types are preserved by every instruction.                               *)
(***************************************************************************)
LEMMA TypeStep == TypeOK /\ Next => TypeOK'
<1> SUFFICES ASSUME TypeOK, Next PROVE TypeOK'
  OBVIOUS
<1>0. \A x, y \in U64 : /\ x + y <= U64Max => x + y \in U64
                        /\ y <= x => x - y \in U64
  BY BoundsAssumption DEF U64
<1>1. ASSUME NEW k \in Configs, NEW admin \in Wallets,
             NEW checkers \in SUBSET Wallets, Initialize(k, admin, checkers)
      PROVE  TypeOK'
  BY <1>1 DEF Initialize, TypeOK, ConfigAccount
<1>2. ASSUME NEW k \in Configs, NEW admin \in Wallets, NEW m \in Mints,
             CreateMint(k, m, admin)
      PROVE  TypeOK'
  <2>1. config' \in [Configs -> ConfigAccount]
    <3>1. config[k] \in ConfigAccount
      BY DEF TypeOK
    <3>2. [config[k] EXCEPT !.mint = m] \in ConfigAccount
      BY <3>1 DEF ConfigAccount
    <3> QED
      BY <1>2, <3>2 DEF CreateMint, TypeOK
  <2>2. supply' \in [Mints -> U64]
    BY <1>2, BoundsAssumption DEF CreateMint, TypeOK, U64
  <2> QED
    BY <1>2, <2>1, <2>2 DEF CreateMint, TypeOK
<1>3. ASSUME NEW k \in Configs, NEW admin \in Wallets, NEW m \in Mints, NEW text \in Texts,
             CreateMetadata(k, m, admin, text) \/ UpdateMetadata(k, m, admin, text)
      PROVE  TypeOK'
  BY <1>3 DEF CreateMetadata, UpdateMetadata, TypeOK, MetadataAccount
<1>4. ASSUME NEW r \in Requests, NEW k \in Configs, NEW maker \in Wallets,
             NEW amount \in U64, CreateMintRequest(r, k, maker, amount)
      PROVE  TypeOK'
  BY <1>4 DEF CreateMintRequest, TypeOK, MintRequestAccount, RequestStatus
<1>5. ASSUME NEW r \in Requests, NEW k \in Configs, NEW m \in Mints,
             NEW checker \in Wallets, NEW to \in Wallets,
             ApproveRequest(r, k, m, checker, to)
      PROVE  TypeOK'
  <2>1. mintRequest[r].amount \in U64
    BY DEF TypeOK, MintRequestAccount
  <2>2. mintRequest' \in [Requests -> MintRequestAccount]
    BY <1>5, DecidedTyped DEF ApproveRequest, TypeOK, RequestStatus
  <2>3. supply' \in [Mints -> U64]
    BY <1>5, <1>0, <2>1 DEF ApproveRequest, FitsSupply, TypeOK
  <2>4. balance' \in [Wallets -> [Mints -> U64]]
    BY <1>5, <1>0, <2>1 DEF ApproveRequest, Credit, TypeOK
  <2> QED
    BY <1>5, <2>2, <2>3, <2>4 DEF ApproveRequest, TypeOK
<1>6. ASSUME NEW r \in Requests, NEW k \in Configs, NEW checker \in Wallets,
             RejectRequest(r, k, checker)
      PROVE  TypeOK'
  BY <1>6, DecidedTyped DEF RejectRequest, TypeOK, RequestStatus
<1>7. ASSUME NEW m \in Mints, NEW from \in Wallets, NEW to \in Wallets,
             NEW amount \in U64, TransferTokens(m, from, to, amount)
      PROVE  TypeOK'
  <2>1. PICK debited : debited = Debit(balance, from, m, amount)
    OBVIOUS
  <2>2. debited \in [Wallets -> [Mints -> U64]]
    BY <1>7, <1>0, <2>1 DEF TransferTokens, Debit, TypeOK
  <2>3. debited[to][m] + amount \in U64
    <3>1. CASE from = to
      <4>1. debited[to][m] = balance[to][m] - amount
        BY <2>1, <3>1 DEF Debit, TypeOK
      <4>2. balance[to][m] \in Int /\ amount \in Int /\ balance[to][m] \in U64
        BY BoundsAssumption DEF TypeOK, U64
      <4> QED
        BY <4>1, <4>2
    <3>2. CASE from # to
      <4>1. debited[to][m] = balance[to][m]
        BY <2>1, <3>2 DEF Debit, TypeOK
      <4> QED
        BY <1>7, <1>0, <3>2, <4>1 DEF TransferTokens, TypeOK
    <3> QED
      BY <3>1, <3>2
  <2>4. balance' \in [Wallets -> [Mints -> U64]]
    BY <1>7, <2>1, <2>2, <2>3 DEF TransferTokens, Credit
  <2> QED
    BY <1>7, <2>4 DEF TransferTokens, TypeOK
<1>8. ASSUME NEW m \in Mints, NEW user \in Wallets, NEW amount \in U64,
             BurnTokens(m, user, amount)
      PROVE  TypeOK'
  <2>1. balance' \in [Wallets -> [Mints -> U64]]
    BY <1>8, <1>0 DEF BurnTokens, Debit, TypeOK
  <2>2. supply' \in [Mints -> U64]
    BY <1>8, <1>0 DEF BurnTokens, TypeOK
  <2>3. burned' \in [Mints -> Nat]
    BY <1>8, BoundsAssumption DEF BurnTokens, TypeOK, U64
  <2> QED
    BY <1>8, <2>1, <2>2, <2>3 DEF BurnTokens, TypeOK
<1> QED
  BY <1>1, <1>2, <1>3, <1>4, <1>5, <1>6, <1>7, <1>8
  DEF Next, AdminStep, RequestStep, TokenStep

(***************************************************************************)
(* What no instruction takes back: a mint keeps its config, a config that  *)
(* is initialized keeps its admin and its checkers.                        *)
(***************************************************************************)
LEMMA ConfigsKeep ==
    ASSUME TypeOK, OriginsInitialized, Next
    PROVE  \A m \in Mints : MintExists(m) =>
               /\ origin'[m] = origin[m]
               /\ config'[origin[m]].admin = config[origin[m]].admin
               /\ config'[origin[m]].checkers = config[origin[m]].checkers
<1> SUFFICES ASSUME NEW m \in Mints, MintExists(m)
             PROVE  /\ origin'[m] = origin[m]
                    /\ config'[origin[m]].admin = config[origin[m]].admin
                    /\ config'[origin[m]].checkers = config[origin[m]].checkers
  OBVIOUS
<1>0. origin[m] \in Configs /\ Initialized(origin[m])
  BY DEF OriginsInitialized, MintExists, TypeOK
<1>1. ASSUME NEW k \in Configs, NEW admin \in Wallets,
             NEW checkers \in SUBSET Wallets, Initialize(k, admin, checkers)
      PROVE  origin' = origin /\ config'[origin[m]] = config[origin[m]]
  BY <1>0, <1>1 DEF Initialize, TypeOK
<1>2. ASSUME NEW k \in Configs, NEW admin \in Wallets, NEW n \in Mints,
             CreateMint(k, n, admin)
      PROVE  /\ origin'[m] = origin[m]
             /\ config'[origin[m]].admin = config[origin[m]].admin
             /\ config'[origin[m]].checkers = config[origin[m]].checkers
  <2>1. n # m
    BY <1>2 DEF CreateMint, NewMint
  <2>2. config'[origin[m]] = IF origin[m] = k THEN [config[k] EXCEPT !.mint = n]
                                              ELSE config[origin[m]]
    BY <1>0, <1>2 DEF CreateMint, TypeOK
  <2>3. config[k] \in ConfigAccount
    BY DEF TypeOK
  <2> QED
    BY <1>2, <2>1, <2>2, <2>3 DEF CreateMint, TypeOK, ConfigAccount
<1>3. ASSUME UNCHANGED <<config, origin>>
      PROVE  origin' = origin /\ config' = config
  BY <1>3
<1> QED
  BY <1>1, <1>2, <1>3
  DEF Next, AdminStep, RequestStep, TokenStep, CreateMetadata, UpdateMetadata,
      CreateMintRequest, ApproveRequest, RejectRequest, TransferTokens, BurnTokens

LEMMA OriginStep ==
    ASSUME TypeOK, TypeOK', OriginsInitialized, MintHasOneConfig, Next
    PROVE  OriginsInitialized' /\ MintHasOneConfig'
<1>1. ASSUME NEW k \in Configs, NEW admin \in Wallets,
             NEW checkers \in SUBSET Wallets, Initialize(k, admin, checkers)
      PROVE  OriginsInitialized' /\ MintHasOneConfig'
  <2>1. \A j \in Configs : config'[j].mint = NoMint \/ config'[j].mint = config[j].mint
    BY <1>1 DEF Initialize, TypeOK
  <2>2. \A j \in Configs : Initialized(j) => Initialized(j)'
    BY <1>1 DEF Initialize, TypeOK, Initialized
  <2>3. \A m \in Mints : MintExists(m) => origin[m] \in Configs
    BY DEF MintExists, TypeOK
  <2>4. origin' = origin
    BY <1>1 DEF Initialize
  <2> QED
    BY <2>1, <2>2, <2>3, <2>4
    DEF OriginsInitialized, MintHasOneConfig, MintExists, Initialized
<1>2. ASSUME NEW k \in Configs, NEW admin \in Wallets, NEW m \in Mints,
             CreateMint(k, m, admin)
      PROVE  OriginsInitialized' /\ MintHasOneConfig'
  <2>1. /\ config'[k].mint = m /\ config'[k].admin = config[k].admin
        /\ \A j \in Configs : j # k => config'[j] = config[j]
    BY <1>2 DEF CreateMint, TypeOK, ConfigAccount
  <2>2. origin'[m] = k /\ \A n \in Mints : n # m => origin'[n] = origin[n]
    BY <1>2 DEF CreateMint, TypeOK
  <2>3. OriginsInitialized'
    <3> SUFFICES ASSUME NEW n \in Mints, MintExists(n)' PROVE Initialized(origin[n])'
      BY DEF OriginsInitialized
    <3>1. CASE n = m
      BY <1>2, <2>1, <2>2, <3>1 DEF CreateMint, IsAdmin, Initialized
    <3>2. CASE n # m
      <4>1. origin[n] \in Configs /\ Initialized(origin[n])
        BY <2>2, <3>2 DEF OriginsInitialized, MintExists, TypeOK
      <4> QED
        BY <2>1, <2>2, <3>2, <4>1 DEF Initialized
    <3> QED
      BY <3>1, <3>2
  <2>4. MintHasOneConfig'
    <3> SUFFICES ASSUME NEW j \in Configs, config'[j].mint # NoMint
                 PROVE  origin'[config'[j].mint] = j
      BY DEF MintHasOneConfig
    <3>1. CASE j = k
      BY <2>1, <2>2, <3>1
    <3>2. CASE j # k
      <4>1. config'[j].mint = config[j].mint /\ config[j].mint \in Mints
        BY <2>1, <3>2 DEF TypeOK, ConfigAccount
      <4>2. origin[config[j].mint] = j
        BY <4>1 DEF MintHasOneConfig
      <4>3. config[j].mint # m
        BY <1>2, <4>2 DEF CreateMint, NewMint, MintExists
      <4> QED
        BY <2>2, <4>1, <4>2, <4>3
    <3> QED
      BY <3>1, <3>2
  <2> QED
    BY <2>3, <2>4
<1>3. ASSUME UNCHANGED <<config, origin>>
      PROVE  OriginsInitialized' /\ MintHasOneConfig'
  BY <1>3 DEF OriginsInitialized, MintHasOneConfig, MintExists, Initialized
<1> QED
  BY <1>1, <1>2, <1>3
  DEF Next, AdminStep, RequestStep, TokenStep, CreateMetadata, UpdateMetadata,
      CreateMintRequest, ApproveRequest, RejectRequest, TransferTokens, BurnTokens

(***************************************************************************)
(* A request approved stays approved under the config of its mint; an      *)
(* approval adds one that satisfies FourEyes because the config it runs    *)
(* under names the mint and hence is the config of that mint.              *)
(***************************************************************************)
LEMMA FourEyesStep ==
    ASSUME IInv, Next
    PROVE  FourEyes'
<1> USE DEF IInv
<1>1. \A m \in Mints : MintExists(m) =>
          /\ origin'[m] = origin[m]
          /\ config'[origin[m]].checkers = config[origin[m]].checkers
  BY ConfigsKeep
<1> SUFFICES ASSUME NEW r \in Requests
             PROVE  /\ mintRequest'[r].status = "Approved" <=> mintedInto'[r] # NoMint
                    /\ mintedInto'[r] # NoMint =>
                          /\ origin'[mintedInto'[r]] # NoConfig
                          /\ mintRequest'[r].checker \in config'[origin'[mintedInto'[r]]].checkers
                          /\ mintRequest'[r].checker # mintRequest'[r].maker
  BY DEF FourEyes
<1>2. mintedInto[r] # NoMint => mintedInto[r] \in Mints
  BY DEF TypeOK
<1>3. ASSUME mintRequest'[r] = mintRequest[r], mintedInto'[r] = mintedInto[r]
      PROVE  /\ mintRequest'[r].status = "Approved" <=> mintedInto'[r] # NoMint
             /\ mintedInto'[r] # NoMint =>
                   /\ origin'[mintedInto'[r]] # NoConfig
                   /\ mintRequest'[r].checker \in config'[origin'[mintedInto'[r]]].checkers
                   /\ mintRequest'[r].checker # mintRequest'[r].maker
  BY <1>1, <1>2, <1>3 DEF FourEyes, MintExists
<1>4. ASSUME NEW q \in Requests, NEW k \in Configs, NEW maker \in Wallets,
             NEW amount \in U64, CreateMintRequest(q, k, maker, amount), q = r
      PROVE  mintRequest'[r].status # "Approved" /\ mintedInto'[r] = NoMint
  BY <1>4 DEF CreateMintRequest, FourEyes, TypeOK
<1>5. ASSUME NEW q \in Requests, NEW k \in Configs, NEW m \in Mints,
             NEW checker \in Wallets, NEW to \in Wallets,
             ApproveRequest(q, k, m, checker, to), q = r
      PROVE  /\ mintRequest'[r].status = "Approved" /\ mintedInto'[r] = m
             /\ origin'[m] # NoConfig
             /\ mintRequest'[r].checker \in config'[origin'[m]].checkers
             /\ mintRequest'[r].checker # mintRequest'[r].maker
  <2>1. mintRequest[r] \in MintRequestAccount
    BY DEF TypeOK
  <2>2. mintRequest'[r] = [mintRequest[r] EXCEPT !.status = "Approved", !.checker = checker]
    BY <1>5 DEF ApproveRequest, Decided, TypeOK
  <2>3. /\ mintRequest'[r].status = "Approved" /\ mintRequest'[r].checker = checker
        /\ mintRequest'[r].maker = mintRequest[r].maker
    BY <2>1, <2>2 DEF MintRequestAccount
  <2>4. mintedInto'[r] = m /\ origin' = origin /\ config' = config
    BY <1>5 DEF ApproveRequest, TypeOK
  <2>5. origin[m] = k /\ k # NoConfig
    BY <1>5 DEF ApproveRequest, MintOf, MintHasOneConfig
  <2> QED
    BY <1>5, <2>3, <2>4, <2>5 DEF ApproveRequest, Decidable
<1>6. ASSUME NEW q \in Requests, NEW k \in Configs, NEW checker \in Wallets,
             RejectRequest(q, k, checker), q = r
      PROVE  mintRequest'[r].status # "Approved" /\ mintedInto'[r] = NoMint
  BY <1>6 DEF RejectRequest, Decidable, Decided, FourEyes, TypeOK, MintRequestAccount
<1>7. CASE AdminStep
  BY <1>3, <1>7 DEF AdminStep, Initialize, CreateMint, CreateMetadata, UpdateMetadata
<1>8. CASE TokenStep
  BY <1>3, <1>8 DEF TokenStep, TransferTokens, BurnTokens
<1>9. CASE RequestStep
  <2>1. ASSUME NEW q \in Requests, NEW k \in Configs, NEW w \in Wallets,
               \/ \E amount \in U64 : CreateMintRequest(q, k, w, amount)
               \/ \E m \in Mints, to \in Wallets : ApproveRequest(q, k, m, w, to)
               \/ RejectRequest(q, k, w),
               q # r
        PROVE  mintRequest'[r] = mintRequest[r] /\ mintedInto'[r] = mintedInto[r]
    BY <2>1 DEF CreateMintRequest, ApproveRequest, RejectRequest, TypeOK
  <2> QED
    BY <1>3, <1>4, <1>5, <1>6, <1>9, <2>1 DEF RequestStep
<1> QED
  BY <1>7, <1>8, <1>9 DEF Next

LEMMA MetadataStep ==
    ASSUME IInv, Next
    PROVE  MetadataStaysWithAdmin'
<1> USE DEF IInv
<1>1. \A m \in Mints : MintExists(m) =>
          /\ origin'[m] = origin[m]
          /\ config'[origin[m]].admin = config[origin[m]].admin
  BY ConfigsKeep
<1>2. ASSUME NEW k \in Configs, NEW admin \in Wallets, NEW m \in Mints, NEW text \in Texts,
             CreateMetadata(k, m, admin, text)
      PROVE  MetadataStaysWithAdmin'
  <2>1. /\ metadata'[m].updateAuthority = admin
        /\ \A n \in Mints : n # m => metadata'[n] = metadata[n]
        /\ config' = config /\ origin' = origin
    BY <1>2 DEF CreateMetadata, TypeOK
  <2>2. origin[m] = k /\ k # NoConfig /\ config[k].admin = admin
    BY <1>2 DEF CreateMetadata, MintOf, IsAdmin, MintHasOneConfig
  <2> QED
    BY <2>1, <2>2 DEF MetadataStaysWithAdmin
<1>3. ASSUME NEW k \in Configs, NEW admin \in Wallets, NEW m \in Mints, NEW text \in Texts,
             UpdateMetadata(k, m, admin, text)
      PROVE  MetadataStaysWithAdmin'
  <2>1. /\ \A n \in Mints : metadata'[n].updateAuthority = metadata[n].updateAuthority
        /\ \A n \in Mints : n # m => metadata'[n] = metadata[n]
        /\ config' = config /\ origin' = origin
    BY <1>3 DEF UpdateMetadata, TypeOK, MetadataAccount
  <2> QED
    BY <1>3, <2>1 DEF MetadataStaysWithAdmin, UpdateMetadata
<1>4. ASSUME UNCHANGED metadata
      PROVE  MetadataStaysWithAdmin'
  BY <1>1, <1>4 DEF MetadataStaysWithAdmin, MintExists
<1> QED
  BY <1>2, <1>3, <1>4
  DEF Next, AdminStep, RequestStep, TokenStep, Initialize, CreateMint,
      CreateMintRequest, ApproveRequest, RejectRequest, TransferTokens, BurnTokens

LEMMA NextInv == IInv /\ [Next]_vars => IInv'
<1>1. ASSUME IInv, Next PROVE IInv'
  <2>1. TypeOK'
    BY <1>1, TypeStep DEF IInv
  <2>2. OriginsInitialized' /\ MintHasOneConfig'
    BY <1>1, <2>1, OriginStep DEF IInv
  <2>3. FourEyes' /\ MetadataStaysWithAdmin'
    BY <1>1, FourEyesStep, MetadataStep
  <2> QED
    BY <2>1, <2>2, <2>3 DEF IInv
<1>2. ASSUME IInv, UNCHANGED vars PROVE IInv'
  BY <1>2
  DEF IInv, vars, TypeOK, OriginsInitialized, MintHasOneConfig, FourEyes,
      MetadataStaysWithAdmin, MintExists, Initialized
<1> QED
  BY <1>1, <1>2

(***************************************************************************)
(* Whatever instructions are submitted, supplies and balances stay within  *)
(* an unsigned amount.                                                     *)
(***************************************************************************)
THEOREM TypeCorrect == Spec => []TypeOK
<1>1. IInv => TypeOK
  BY DEF IInv
<1> QED
  BY InitInv, NextInv, <1>1, PTL DEF Spec

(***************************************************************************)
(* approve_request of lib.rs: tokens of a mint exist only with the consent *)
(* of a checker of the config of that mint, who is not the maker.          *)
(***************************************************************************)
THEOREM FourEyesHold == Spec => []FourEyes
<1>1. IInv => FourEyes
  BY DEF IInv
<1> QED
  BY InitInv, NextInv, <1>1, PTL DEF Spec

(***************************************************************************)
(* create_mint of lib.rs: no two configs issue the same token.             *)
(***************************************************************************)
THEOREM OneConfigOfAMint == Spec => []MintHasOneConfig
<1>1. IInv => MintHasOneConfig
  BY DEF IInv
<1> QED
  BY InitInv, NextInv, <1>1, PTL DEF Spec

(***************************************************************************)
(* create_metadata and update_metadata of lib.rs: the metadata of a mint   *)
(* stays with the admin of its config.                                     *)
(***************************************************************************)
THEOREM MetadataStays == Spec => []MetadataStaysWithAdmin
<1>1. IInv => MetadataStaysWithAdmin
  BY DEF IInv
<1> QED
  BY InitInv, NextInv, <1>1, PTL DEF Spec

(***************************************************************************)
(* approve_request and reject_request of lib.rs: a decision is final and   *)
(* carries the name of the checker who took it.                            *)
(***************************************************************************)
THEOREM DecisionsAreFinal == Spec => DecisionIsFinal
<1> DEFINE Final ==
        \A r \in Requests :
            /\ mintRequest[r].status \in {"Approved", "Rejected"} => UNCHANGED mintRequest[r]
            /\ mintRequest'[r].status \in {"Approved", "Rejected"} =>
                   mintRequest'[r].checker # NoWallet
           Named ==
        \A r \in Requests : mintRequest[r].status \in {"Approved", "Rejected"} =>
                                mintRequest[r].checker # NoWallet
<1>1. Init => Named
  BY DEF Init
<1>2. IInv /\ Named /\ [Next]_vars => Final /\ Named'
  <2> SUFFICES ASSUME IInv, Named, [Next]_vars PROVE Final /\ Named'
    OBVIOUS
  <2>1. TypeOK
    BY DEF IInv
  <2>2. ASSUME UNCHANGED mintRequest PROVE Final /\ Named'
    BY <2>2
  <2>3. ASSUME NEW r \in Requests, NEW k \in Configs, NEW w \in Wallets, NEW amount \in U64,
               CreateMintRequest(r, k, w, amount)
        PROVE  Final /\ Named'
    BY <2>1, <2>3 DEF CreateMintRequest, TypeOK
  <2>4. ASSUME NEW r \in Requests, NEW w \in Wallets, NEW decision \in RequestStatus,
               mintRequest[r].status = "Pending",
               mintRequest' = [mintRequest EXCEPT ![r] = Decided(@, decision, w)]
        PROVE  Final /\ Named'
    BY <2>1, <2>4 DEF Decided, TypeOK, MintRequestAccount
  <2>5. CASE RequestStep
    BY <2>3, <2>4, <2>5 DEF RequestStep, ApproveRequest, RejectRequest, Decidable, RequestStatus
  <2> QED
    BY <2>2, <2>5
    DEF Next, AdminStep, TokenStep, Initialize, CreateMint, CreateMetadata,
        UpdateMetadata, TransferTokens, BurnTokens, vars
<1>3. Final => [Final]_vars
  OBVIOUS
<1> QED
  BY InitInv, NextInv, <1>1, <1>2, PTL DEF Spec, DecisionIsFinal

-----------------------------------------------------------------------------
(* Sums: what was approved for a mint. *)

ApprovedFor(m) == {r \in Requests : mintedInto[r] = m}

Asked == [r \in Requests |-> mintRequest[r].amount]

\* A mint that is not created yet has no supply, so that create_mint, which
\* starts it at zero, changes nothing.
UncreatedIsEmpty == \A m \in Mints : ~MintExists(m) => supply[m] = 0

TokenInv ==
    /\ IInv
    /\ UncreatedIsEmpty
    /\ SupplyIsApproved

\* The requests approved for a mint are finitely many, of integer amounts.
LEMMA ApprovedTyped ==
    ASSUME TypeOK
    PROVE  /\ \A m \in Mints : IsFiniteSet(ApprovedFor(m))
           /\ \A r \in Requests : Asked[r] = mintRequest[r].amount /\ Asked[r] \in Int
           /\ \A m \in Mints : SumFunctionOnSet(Asked, ApprovedFor(m)) \in Int
<1>1. \A r \in Requests : Asked[r] = mintRequest[r].amount /\ Asked[r] \in Int
  BY BoundsAssumption DEF TypeOK, MintRequestAccount, U64, Asked
<1>2. \A m \in Mints : IsFiniteSet(ApprovedFor(m)) /\ ApprovedFor(m) \subseteq Requests
  BY AddressesAssumption, FS_Subset DEF ApprovedFor
<1>3. ASSUME NEW m \in Mints PROVE SumFunctionOnSet(Asked, ApprovedFor(m)) \in Int
  <2>1. Int \in {Nat, Int} /\ \A r \in ApprovedFor(m) : Asked[r] \in Int
    BY <1>1, <1>2
  <2>2. PICK f, S : f = Asked /\ S = ApprovedFor(m)
    OBVIOUS
  <2> QED
    BY <1>2, <2>1, <2>2, SumType
<1> QED
  BY <1>1, <1>2, <1>3

LEMMA SupplyIsApprovedFor ==
    SupplyIsApproved <=>
        \A m \in Mints : supply[m] + burned[m] = SumFunctionOnSet(Asked, ApprovedFor(m))
  BY DEF SupplyIsApproved, ApprovedFor, Asked

LEMMA SupplyIsApprovedForNext ==
    SupplyIsApproved' <=>
        \A m \in Mints :
            supply'[m] + burned'[m] = SumFunctionOnSet(Asked, ApprovedFor(m))'
  BY DEF SupplyIsApproved, ApprovedFor, Asked

\* While nothing is approved and what was approved keeps its amount, the sums stay.
LEMMA ApprovedUnchanged ==
    ASSUME TypeOK, mintedInto' = mintedInto,
           \A r \in Requests : mintedInto[r] # NoMint =>
                                   mintRequest'[r].amount = mintRequest[r].amount
    PROVE  \A m \in Mints : SumFunctionOnSet(Asked, ApprovedFor(m))'
                                = SumFunctionOnSet(Asked, ApprovedFor(m))
<1> SUFFICES ASSUME NEW m \in Mints
             PROVE  SumFunctionOnSet(Asked', ApprovedFor(m)')
                        = SumFunctionOnSet(Asked, ApprovedFor(m))
  OBVIOUS
<1>1. PICK f, g, S : f = Asked /\ g = Asked' /\ S = ApprovedFor(m)
  OBVIOUS
<1>2. ApprovedFor(m)' = S
  BY <1>1 DEF ApprovedFor
<1>3. IsFiniteSet(S)
  BY <1>1, ApprovedTyped
<1>4. \A r \in S : f[r] = g[r]
  BY <1>1 DEF ApprovedFor, Asked
<1>5. SumFunctionOnSet(f, S) = SumFunctionOnSet(g, S)
  BY <1>3, <1>4, SumAgree
<1> QED
  BY <1>1, <1>2, <1>5

\* A request that is not approved was minted into no mint.
LEMMA UnapprovedIsUnminted ==
    ASSUME FourEyes, NEW r \in Requests, mintRequest[r].status # "Approved"
    PROVE  mintedInto[r] = NoMint
  BY DEF FourEyes

LEMMA TokenInit == Init => TokenInv
<1> SUFFICES ASSUME Init PROVE TokenInv
  OBVIOUS
<1>1. IInv
  BY InitInv
<1>2. UncreatedIsEmpty
  BY DEF Init, UncreatedIsEmpty
<1>3. SupplyIsApproved
  <2> SUFFICES ASSUME NEW m \in Mints
               PROVE  supply[m] + burned[m] = SumFunctionOnSet(Asked, ApprovedFor(m))
    BY SupplyIsApprovedFor
  <2>1. ApprovedFor(m) = {}
    BY DEF Init, ApprovedFor
  <2>2. SumFunctionOnSet(Asked, ApprovedFor(m)) = 0
    <3>1. PICK f : f = Asked
      OBVIOUS
    <3>2. SumFunctionOnSet(f, {}) = 0
      BY SumEmpty
    <3> QED
      BY <2>1, <3>1, <3>2
  <2> QED
    BY <2>2 DEF Init
<1> QED
  BY <1>1, <1>2, <1>3 DEF TokenInv

\* create_mint, the other instructions of the admin, and the requests that are
\* made or rejected leave every sum as it is.
LEMMA QuietStep ==
    ASSUME TokenInv, UNCHANGED <<supply, burned, mintedInto>>,
           \A r \in Requests : mintedInto[r] # NoMint =>
                                   mintRequest'[r].amount = mintRequest[r].amount
    PROVE  SupplyIsApproved'
<1>1. \A m \in Mints : SumFunctionOnSet(Asked, ApprovedFor(m))'
                           = SumFunctionOnSet(Asked, ApprovedFor(m))
  BY ApprovedUnchanged DEF TokenInv, IInv
<1>2. \A m \in Mints : supply[m] + burned[m] = SumFunctionOnSet(Asked, ApprovedFor(m))
  BY SupplyIsApprovedFor DEF TokenInv
<1>3. \A m \in Mints :
          supply'[m] + burned'[m] = SumFunctionOnSet(Asked, ApprovedFor(m))'
  BY <1>1, <1>2
<1> QED
  BY <1>3, SupplyIsApprovedForNext

\* approve_request adds its request to those approved for the mint, and its
\* amount to the supply.
LEMMA ApproveStep ==
    ASSUME TokenInv, NEW r \in Requests, NEW k \in Configs, NEW m \in Mints,
           NEW checker \in Wallets, NEW to \in Wallets,
           ApproveRequest(r, k, m, checker, to)
    PROVE  SupplyIsApproved'
<1>1. PICK amount : amount = mintRequest[r].amount
  OBVIOUS
<1>2. TypeOK /\ TypeOK' /\ FourEyes
  BY TypeStep DEF TokenInv, IInv, Next, RequestStep
<1>3. /\ amount \in U64 /\ amount \in Int
      /\ \A n \in Mints : supply[n] \in Int /\ burned[n] \in Int
  <2>1. mintRequest[r] \in MintRequestAccount
    BY <1>2 DEF TypeOK
  <2>2. U64 \subseteq Int /\ Nat \subseteq Int
    BY BoundsAssumption DEF U64
  <2>3. amount \in U64
    BY <1>1, <2>1 DEF MintRequestAccount
  <2>4. \A n \in Mints : supply[n] \in U64 /\ burned[n] \in Nat
    BY <1>2 DEF TypeOK
  <2> QED
    BY <2>2, <2>3, <2>4
<1>4. /\ supply' = [supply EXCEPT ![m] = @ + amount] /\ burned' = burned
      /\ mintedInto' = [mintedInto EXCEPT ![r] = m]
      /\ mintRequest' = [mintRequest EXCEPT ![r] = Decided(@, "Approved", checker)]
      /\ mintRequest[r].status = "Pending"
  BY <1>1 DEF ApproveRequest, Decidable
<1>5. /\ supply'[m] = supply[m] + amount
      /\ \A n \in Mints \ {m} : supply'[n] = supply[n]
  BY <1>2, <1>4 DEF TypeOK
<1>6. SupplyIsApproved'
  <2>1. mintedInto[r] = NoMint
    BY <1>2, <1>4, UnapprovedIsUnminted
  <2>2. /\ r \notin ApprovedFor(m) /\ ApprovedFor(m)' = ApprovedFor(m) \cup {r}
        /\ \A n \in Mints \ {m} : ApprovedFor(n)' = ApprovedFor(n)
    BY <1>2, <1>4, <2>1 DEF ApprovedFor, TypeOK
  <2>3. Asked' = Asked
    <3>1. \A q \in Requests : mintRequest'[q].amount = mintRequest[q].amount
      <4>1. mintRequest[r] \in MintRequestAccount
        BY <1>2 DEF TypeOK
      <4>2. Decided(mintRequest[r], "Approved", checker).amount = mintRequest[r].amount
        BY <4>1 DEF Decided, MintRequestAccount
      <4> QED
        BY <1>2, <1>4, <4>2 DEF TypeOK
    <3> QED
      BY <3>1 DEF Asked
  <2>4. SumFunctionOnSet(Asked, ApprovedFor(m))'
            = SumFunctionOnSet(Asked, ApprovedFor(m)) + amount
    <3>1. PICK f, S : f = Asked /\ S = ApprovedFor(m)
      OBVIOUS
    <3>2. /\ IsFiniteSet(S) /\ r \notin S /\ S \subseteq Requests
          /\ \A q \in Requests : f[q] \in Int
          /\ f[r] = amount
      BY <1>1, <1>2, <2>2, <3>1, ApprovedTyped DEF ApprovedFor
    <3>3. SumFunctionOnSet(f, S \cup {r}) = SumFunctionOnSet(f, S) + f[r]
      BY <3>2, SumAdd
    <3> QED
      BY <2>2, <2>3, <3>1, <3>2, <3>3
  <2>5. \A n \in Mints \ {m} : SumFunctionOnSet(Asked, ApprovedFor(n))'
                                   = SumFunctionOnSet(Asked, ApprovedFor(n))
    BY <2>2, <2>3
  <2>6. \A n \in Mints : /\ supply[n] + burned[n] = SumFunctionOnSet(Asked, ApprovedFor(n))
                         /\ SumFunctionOnSet(Asked, ApprovedFor(n)) \in Int
    BY <1>2, SupplyIsApprovedFor, ApprovedTyped DEF TokenInv
  <2>7. ASSUME NEW n \in Mints
        PROVE  supply'[n] + burned'[n] = SumFunctionOnSet(Asked, ApprovedFor(n))'
    <3>1. CASE n = m
      <4>1. PICK x : x = SumFunctionOnSet(Asked, ApprovedFor(m))
        OBVIOUS
      <4>2. supply[m] + burned[m] = x /\ supply'[m] + burned'[m] = supply[m] + amount + burned[m]
        BY <1>4, <1>5, <2>6, <4>1
      <4>3. SumFunctionOnSet(Asked, ApprovedFor(m))' = x + amount
        BY <2>4, <4>1
      <4> QED
        BY <1>3, <3>1, <4>2, <4>3
    <3>2. CASE n # m
      BY <1>4, <1>5, <2>5, <2>6, <3>2
    <3> QED
      BY <3>1, <3>2
  <2> QED
    BY <2>7, SupplyIsApprovedForNext
<1> QED
  BY <1>6

\* burn_tokens takes from the supply what it adds to the burned.
LEMMA BurnStep ==
    ASSUME TokenInv, NEW m \in Mints, NEW user \in Wallets, NEW amount \in U64,
           BurnTokens(m, user, amount)
    PROVE  SupplyIsApproved'
<1>1. TypeOK
  BY DEF TokenInv, IInv
<1>2. /\ supply' = [supply EXCEPT ![m] = @ - amount]
      /\ burned' = [burned EXCEPT ![m] = @ + amount]
      /\ mintRequest' = mintRequest /\ mintedInto' = mintedInto
  BY DEF BurnTokens
<1>3. /\ amount \in Int
      /\ \A n \in Mints : supply[n] \in Int /\ burned[n] \in Int
  BY <1>1, BoundsAssumption DEF TypeOK, U64
<1>4. \A n \in Mints : supply'[n] + burned'[n] = supply[n] + burned[n]
  <2>1. /\ supply'[m] = supply[m] - amount
        /\ burned'[m] = burned[m] + amount
        /\ \A n \in Mints \ {m} : supply'[n] = supply[n] /\ burned'[n] = burned[n]
    BY <1>1, <1>2 DEF TypeOK
  <2> QED
    BY <1>3, <2>1
<1>5. Asked' = Asked /\ \A n \in Mints : ApprovedFor(n)' = ApprovedFor(n)
  BY <1>2 DEF Asked, ApprovedFor
<1>6. \A n \in Mints : supply[n] + burned[n] = SumFunctionOnSet(Asked, ApprovedFor(n))
  BY SupplyIsApprovedFor DEF TokenInv
<1> QED
  BY <1>4, <1>5, <1>6, SupplyIsApprovedForNext

LEMMA TokenNext == TokenInv /\ [Next]_vars => TokenInv'
<1> SUFFICES ASSUME TokenInv, [Next]_vars PROVE TokenInv'
  OBVIOUS
<1>1. IInv /\ IInv' /\ TypeOK
  BY NextInv DEF TokenInv, IInv
<1>2. CASE UNCHANGED vars
  BY <1>1, <1>2
  DEF TokenInv, vars, UncreatedIsEmpty, MintExists, SupplyIsApproved
<1>3. CASE Next
  <2>1. UncreatedIsEmpty'
    <3>1. \A m \in Mints : MintExists(m) => MintExists(m)'
      BY <1>1, <1>3, ConfigsKeep DEF IInv, MintExists
    <3>2. \A m \in Mints : ~MintExists(m)' => supply'[m] = supply[m]
      BY <1>1, <1>3
      DEF Next, AdminStep, RequestStep, TokenStep, Initialize, CreateMint, CreateMetadata,
          UpdateMetadata, CreateMintRequest, ApproveRequest, RejectRequest, TransferTokens,
          BurnTokens, MintOf, MintExists, IsAdmin, NewMint, TypeOK
    <3> QED
      BY <3>1, <3>2 DEF TokenInv, UncreatedIsEmpty
  <2>2. CASE AdminStep
    <3>1. supply' = supply
      BY <1>1, <2>2
      DEF AdminStep, Initialize, CreateMint, CreateMetadata, UpdateMetadata, NewMint,
          TokenInv, UncreatedIsEmpty, TypeOK
    <3> QED
      BY <1>1, <2>1, <2>2, <3>1, QuietStep
      DEF TokenInv, AdminStep, Initialize, CreateMint, CreateMetadata, UpdateMetadata
  <2>3. ASSUME NEW r \in Requests, NEW k \in Configs, NEW w \in Wallets, NEW amount \in U64,
               CreateMintRequest(r, k, w, amount)
        PROVE  TokenInv'
    <3>1. mintedInto[r] = NoMint
      BY <1>1, <2>3, UnapprovedIsUnminted DEF IInv, CreateMintRequest
    <3>2. \A q \in Requests : q # r => mintRequest'[q] = mintRequest[q]
      BY <1>1, <2>3 DEF CreateMintRequest, TypeOK
    <3> QED
      BY <1>1, <2>1, <2>3, <3>1, <3>2, QuietStep DEF TokenInv, CreateMintRequest
  <2>4. ASSUME NEW r \in Requests, NEW k \in Configs, NEW w \in Wallets,
               RejectRequest(r, k, w)
        PROVE  TokenInv'
    <3>1. mintedInto[r] = NoMint
      BY <1>1, <2>4, UnapprovedIsUnminted DEF IInv, RejectRequest, Decidable
    <3>2. \A q \in Requests : q # r => mintRequest'[q] = mintRequest[q]
      BY <1>1, <2>4 DEF RejectRequest, TypeOK
    <3> QED
      BY <1>1, <2>1, <2>4, <3>1, <3>2, QuietStep DEF TokenInv, RejectRequest
  <2>5. CASE RequestStep
    BY <1>1, <2>1, <2>3, <2>4, <2>5, ApproveStep DEF RequestStep, TokenInv
  <2>6. CASE TokenStep
    <3>1. ASSUME NEW m \in Mints, NEW w \in Wallets, NEW to \in Wallets, NEW amount \in U64,
                 TransferTokens(m, w, to, amount)
          PROVE  SupplyIsApproved'
      BY <3>1, QuietStep DEF TransferTokens
    <3> QED
      BY <1>1, <2>1, <2>6, <3>1, BurnStep DEF TokenStep, TokenInv
  <2> QED
    BY <1>3, <2>2, <2>5, <2>6 DEF Next
<1> QED
  BY <1>2, <1>3

(***************************************************************************)
(* approve_request, burn_tokens and create_mint of lib.rs: the supply of a *)
(* mint is what was approved for it, each request once, less the burned.   *)
(***************************************************************************)
THEOREM SupplyStaysApproved == Spec => []SupplyIsApproved
<1>1. TokenInv => SupplyIsApproved
  BY DEF TokenInv
<1> QED
  BY TokenInit, TokenNext, <1>1, PTL DEF Spec

\* Every request was made by a wallet that signed for it.
MakersSigned ==
    \A r \in Requests : mintRequest[r].status # "None" => mintRequest[r].maker \in Wallets

LEMMA MakersInit == Init => MakersSigned
  BY DEF Init, MakersSigned

LEMMA MakersStep == TypeOK /\ MakersSigned /\ [Next]_vars => MakersSigned'
<1> SUFFICES ASSUME TypeOK, MakersSigned, [Next]_vars PROVE MakersSigned'
  OBVIOUS
<1>1. ASSUME UNCHANGED mintRequest PROVE MakersSigned'
  BY <1>1 DEF MakersSigned
<1>2. ASSUME NEW r \in Requests, NEW k \in Configs, NEW w \in Wallets, NEW amount \in U64,
             CreateMintRequest(r, k, w, amount)
      PROVE  MakersSigned'
  BY <1>2 DEF CreateMintRequest, MakersSigned, TypeOK
<1>3. ASSUME NEW r \in Requests, NEW w \in Wallets, NEW decision \in RequestStatus,
             mintRequest[r].status = "Pending",
             mintRequest' = [mintRequest EXCEPT ![r] = Decided(@, decision, w)]
      PROVE  MakersSigned'
  <2>1. mintRequest[r] \in MintRequestAccount
    BY DEF TypeOK
  <2>2. Decided(mintRequest[r], decision, w).maker = mintRequest[r].maker
    BY <2>1 DEF Decided, MintRequestAccount
  <2> QED
    BY <1>3, <2>2 DEF MakersSigned, TypeOK
<1>4. CASE RequestStep
  BY <1>2, <1>3, <1>4 DEF RequestStep, ApproveRequest, RejectRequest, Decidable, RequestStatus
<1> QED
  BY <1>1, <1>4
  DEF Next, AdminStep, TokenStep, Initialize, CreateMint, CreateMetadata,
      UpdateMetadata, TransferTokens, BurnTokens, vars

LEMMA TypeStays == TypeOK /\ [Next]_vars => TypeOK'
<1>1. TypeOK /\ UNCHANGED vars => TypeOK'
  BY DEF TypeOK, vars
<1> QED
  BY <1>1, TypeStep
=============================================================================
