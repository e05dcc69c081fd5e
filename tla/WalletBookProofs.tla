-------------------------- MODULE WalletBookProofs --------------------------
(***************************************************************************)
(* Proofs about WalletBook, for any users, wallets and number of           *)
(* overlapping handlers.                                                   *)
(***************************************************************************)
EXTENDS WalletBook, TLAPS

(***************************************************************************)
(* What a handler in flight carries.  The owner it has read may be stale,  *)
(* and a wallet may have become primary behind its back, but only another  *)
(* handler's commit can have done either, and that excuses the owner.      *)
(***************************************************************************)
KnowsOwner(k) ==
    k.op = "updateWallet" =>
        /\ k.wallet \in Wallets
        /\ Created(k.wallet)
        /\ k.moveTo # NoUser => k.user = k.moveTo
        /\ k.moveTo = NoUser => wallet[k.wallet].userId \in {k.user} \cup excused

HasCleared(k) ==
    /\ k.begun => k.op \in WalletOps
    /\ ~k.begun => k.cleared = {}
    /\ k.begun => \/ k.user \in excused
                  \/ PrimaryWallets(k.user) \ {k.wallet} \subseteq k.cleared

Carries(k) ==
    /\ k.op \in WalletOps => k.user \in Users
    /\ k.op = "createWallet" => k.wallet = NoWallet
    /\ KnowsOwner(k)
    /\ HasCleared(k)

IInv ==
    /\ TypeOK
    /\ \A c \in Calls : Carries(call[c])
    /\ PrimaryIsUnique

USE NullsAssumption

-----------------------------------------------------------------------------

\* Initially there are no wallets and no calls.
LEMMA InitInv == Init => IInv
  <1> SUFFICES ASSUME Init PROVE IInv
    OBVIOUS
  <1> USE DEF Init, Idle, NotCreated
  <1>1. TypeOK
    BY DEF TypeOK, CallState, PrimaryField, WalletRow
  <1>2. \A c \in Calls : Carries(call[c])
    BY DEF Carries, KnowsOwner, HasCleared, WalletOps
  <1>3. PrimaryIsUnique
    BY DEF PrimaryIsUnique, PrimaryWallets
  <1>. QED
    BY <1>1, <1>2, <1>3 DEF IInv

\* A step that only changes what one call carries.
LEMMA CallStep ==
  ASSUME IInv, NEW c \in Calls, NEW k \in CallState, Carries(k), Proceed(c, k)
  PROVE  IInv'
  <1> USE DEF IInv, Proceed
  <1>1. TypeOK'
    BY DEF TypeOK
  <1>2. PrimaryIsUnique'
    BY DEF PrimaryIsUnique, PrimaryWallets
  <1>3. ASSUME NEW d \in Calls PROVE Carries(call[d])'
    <2>1. call'[d] = IF d = c THEN k ELSE call[d]
      BY DEF TypeOK
    <2>. QED
      BY <2>1 DEF Carries, KnowsOwner, HasCleared, PrimaryWallets, Created
  <1>. QED
    BY <1>1, <1>2, <1>3

\* The reads of a handler, the first statement of its transaction, and its failure.
LEMMA ReadsInv ==
  ASSUME IInv, NEW c \in Calls,
         CreateWalletRead(c) \/ UpdateWalletRead(c) \/ ClearPrimary(c) \/ Abort(c)
  PROVE  IInv'
  <1> USE DEF Carries, KnowsOwner, HasCleared, WalletOps
  <1>0. Idle \in CallState /\ Carries(Idle) /\ call[c] \in CallState /\ Carries(call[c])
    BY DEF Idle, CallState, PrimaryField, IInv, TypeOK
  <1>1. CASE CreateWalletRead(c)
    <2>1. PICK u \in Users, p \in {"set", "unset"} :
             Proceed(c, [Idle EXCEPT !.op = "createWallet", !.user = u,
                                     !.moveTo = u, !.primary = p])
      BY <1>1 DEF CreateWalletRead
    <2>. QED
      BY <2>1, CallStep DEF Idle, CallState, PrimaryField
  <1>2. CASE UpdateWalletRead(c)
    <2>1. PICK w \in Wallets, to \in Users \cup {NoUser}, p \in PrimaryField :
             /\ Created(w)
             /\ Proceed(c, [Idle EXCEPT !.op = "updateWallet", !.wallet = w,
                              !.moveTo = to, !.primary = p,
                              !.user = IF to = NoUser THEN wallet[w].userId ELSE to])
      BY <1>2 DEF UpdateWalletRead
    <2> DEFINE k == [Idle EXCEPT !.op = "updateWallet", !.wallet = w,
                              !.moveTo = to, !.primary = p,
                              !.user = IF to = NoUser THEN wallet[w].userId ELSE to]
    <2>2. wallet[w].userId \in Users
      BY <2>1 DEF Created, IInv, TypeOK, WalletRow
    <2>3. k \in CallState
      BY <2>2 DEF Idle, CallState
    <2>4. Carries(k)
      BY <2>1, <2>2 DEF Idle
    <2>. QED
      BY <2>1, <2>3, <2>4, CallStep
  <1>3. CASE ClearPrimary(c)
    <2> DEFINE k == [call[c] EXCEPT !.begun = TRUE, !.cleared = OthersPrimary(call[c])]
    <2>1. Proceed(c, k) /\ call[c].op \in WalletOps
      BY <1>3 DEF ClearPrimary
    <2>2. k \in CallState
      BY <1>0 DEF CallState, OthersPrimary, PrimaryWallets
    <2>3. Carries(k)
      BY <1>0, <2>1 DEF OthersPrimary, CallState
    <2>. QED
      BY <2>1, <2>2, <2>3, CallStep
  <1>4. CASE Abort(c)
    BY <1>0, <1>4, CallStep DEF Abort
  <1>. QED
    BY <1>1, <1>2, <1>3, <1>4

(***************************************************************************)
(* The commit of a handler: whatever row it writes, if its owner is not    *)
(* excused then no other handler is under way, and a primary row leaves no *)
(* other primary wallet of the owner that was not cleared.                 *)
(***************************************************************************)
LEMMA CommitStep ==
  ASSUME IInv, NEW c \in Calls, NEW w \in Wallets, NEW row \in WalletRow,
         wallet' = Written(call[c], w, row),
         excused' \in {excused, excused \cup {row.userId}},
         Release(c),
         row.userId \in excused' \/ \A d \in Calls \ {c} : call[d].op \notin WalletOps,
         \/ row.userId \in excused'
         \/ ~row.isPrimary
         \/ PrimaryWallets(row.userId) \ {w} \subseteq call[c].cleared
  PROVE  IInv'
  <1> DEFINE k == call[c]
  <1> USE DEF IInv
  <1>1. /\ k \in CallState
        /\ row.userId \in Users /\ row.isPrimary \in BOOLEAN
        /\ excused \subseteq excused' /\ excused' \subseteq Users
    BY DEF TypeOK, WalletRow
  <1>2. \A x \in Wallets : wallet'[x] = IF x = w THEN row
                                  ELSE IF x \in k.cleared THEN [wallet[x] EXCEPT !.isPrimary = FALSE]
                                  ELSE wallet[x]
    BY DEF Written
  <1>3. \A d \in Calls : call'[d] = IF d = c THEN Idle
                                    ELSE [call[d] EXCEPT !.cleared = @ \ k.cleared]
    BY DEF Release
  <1>4. TypeOK'
    <2>1. wallet' \in [Wallets -> WalletRow \cup {NotCreated}]
      <3>1. ASSUME NEW x \in Wallets
            PROVE  [wallet[x] EXCEPT !.isPrimary = FALSE] \in WalletRow \cup {NotCreated}
        <4>1. CASE wallet[x] \in WalletRow
          BY <4>1 DEF WalletRow
        <4>2. CASE wallet[x] = NotCreated
          <5>1. [wallet[x] EXCEPT !.isPrimary = FALSE] = NotCreated
            <6>1. NotCreated \in [userId : {NoUser}, isPrimary : {FALSE}]
              BY DEF NotCreated
            <6>2. [NotCreated EXCEPT !.isPrimary = FALSE] \in [userId : {NoUser}, isPrimary : {FALSE}]
              BY <6>1
            <6>. QED
              BY <4>2, <6>1, <6>2
          <5>. QED
            BY <5>1
        <4>. QED
          BY <4>1, <4>2 DEF TypeOK
      <3>. QED
        BY <3>1 DEF TypeOK, Written
    <2>2. call' \in [Calls -> CallState]
      <3>1. Idle \in CallState
        BY DEF Idle, CallState, PrimaryField
      <3>2. \A d \in Calls : [call[d] EXCEPT !.cleared = @ \ k.cleared] \in CallState
        BY DEF TypeOK, CallState
      <3>. QED
        BY <3>1, <3>2 DEF Release
    <2>. QED
      BY <1>1, <2>1, <2>2 DEF TypeOK
  \* A wallet that is primary after the commit is the one written or was so before,
  \* and is not among those cleared.
  <1>5. ASSUME NEW u \in Users, NEW x \in PrimaryWallets(u)', x # w
        PROVE  x \in PrimaryWallets(u) /\ x \notin k.cleared
    <2>1. x \in Wallets /\ wallet'[x].userId = u /\ wallet'[x].isPrimary
      BY <1>5 DEF PrimaryWallets
    <2>2. CASE wallet[x] \in WalletRow
      BY <1>2, <1>5, <2>1, <2>2 DEF PrimaryWallets, WalletRow
    <2>3. CASE wallet[x] = NotCreated
      BY <1>2, <1>5, <2>1, <2>3 DEF NotCreated
    <2>. QED
      BY <2>1, <2>2, <2>3 DEF TypeOK
  <1>6. PrimaryIsUnique'
    <2> SUFFICES ASSUME NEW u \in Users, u \notin excused',
                        NEW x \in PrimaryWallets(u)', NEW y \in PrimaryWallets(u)'
                 PROVE  x = y
      BY DEF PrimaryIsUnique
    <2>1. ASSUME NEW z \in PrimaryWallets(u)', z # w, w \in PrimaryWallets(u)' PROVE FALSE
      <3>1. row.userId = u /\ row.isPrimary
        BY <1>2, <2>1 DEF PrimaryWallets
      <3>. QED
        BY <1>5, <2>1, <3>1
    <2>2. CASE x = w \/ y = w
      BY <2>1, <2>2
    <2>3. CASE x # w /\ y # w
      BY <1>1, <1>5, <2>3 DEF PrimaryIsUnique
    <2>. QED
      BY <2>2, <2>3
  <1>7. ASSUME NEW d \in Calls PROVE Carries(call[d])'
    <2>1. CASE d = c
      <3>1. call'[d] = Idle
        BY <1>3, <2>1
      <3>2. call'[d].op = "idle" /\ ~call'[d].begun /\ call'[d].cleared = {}
        BY <3>1 DEF Idle
      <3>. QED
        BY <3>2 DEF Carries, KnowsOwner, HasCleared, WalletOps
    <2>2. CASE d # c
      <3>1. PICK j \in CallState : j = call[d] /\ Carries(j)
        BY DEF TypeOK
      <3>2. call'[d] = [j EXCEPT !.cleared = @ \ k.cleared]
        BY <1>3, <2>2, <3>1
      <3>3. /\ call'[d].op = j.op /\ call'[d].user = j.user /\ call'[d].wallet = j.wallet
            /\ call'[d].moveTo = j.moveTo /\ call'[d].begun = j.begun
            /\ call'[d].cleared = j.cleared \ k.cleared
        BY <3>1, <3>2 DEF CallState
      <3>4. j.op \in WalletOps => row.userId \in excused'
        BY <2>2, <3>1
      <3>5. KnowsOwner(call[d])'
        <4> SUFFICES ASSUME j.op = "updateWallet" PROVE KnowsOwner(call[d])'
          BY <3>3 DEF KnowsOwner
        <4>1. /\ j.wallet \in Wallets /\ Created(j.wallet)
              /\ j.moveTo # NoUser => j.user = j.moveTo
              /\ j.moveTo = NoUser => wallet[j.wallet].userId \in {j.user} \cup excused
          BY <3>1 DEF Carries, KnowsOwner
        <4>2. wallet[j.wallet] \in WalletRow
          BY <4>1 DEF Created, TypeOK
        <4>3. wallet'[j.wallet] \in WalletRow
              /\ (j.wallet # w => wallet'[j.wallet].userId = wallet[j.wallet].userId)
              /\ (j.wallet = w => wallet'[j.wallet].userId = row.userId)
          BY <1>2, <4>1, <4>2 DEF WalletRow
        <4>4. Created(j.wallet)'
          BY <4>3 DEF Created, WalletRow, NotCreated
        <4>5. row.userId \in excused'
          BY <3>4 DEF WalletOps
        <4>6. j.moveTo = NoUser => wallet'[j.wallet].userId \in {j.user} \cup excused'
          BY <1>1, <4>1, <4>3, <4>5
        <4>. QED
          BY <3>3, <4>1, <4>4, <4>6 DEF KnowsOwner, Created
      <3>6. HasCleared(call[d])'
        <4>1. ASSUME j.begun, j.user \notin excused'
              PROVE  PrimaryWallets(j.user)' \ {j.wallet} \subseteq j.cleared \ k.cleared
          <5>1. /\ j.user \in Users /\ row.userId # j.user
                /\ PrimaryWallets(j.user) \ {j.wallet} \subseteq j.cleared
            BY <1>1, <3>1, <3>4, <4>1 DEF Carries, HasCleared
          <5>2. w \notin PrimaryWallets(j.user)'
            BY <1>2, <5>1 DEF PrimaryWallets
          <5>. QED
            BY <1>5, <5>1, <5>2
        <4>. QED
          BY <3>1, <3>3, <4>1 DEF HasCleared, Carries, PrimaryWallets
      <3>. QED
        BY <3>1, <3>3, <3>5, <3>6 DEF Carries
    <2>. QED
      BY <2>1, <2>2
  <1>. QED
    BY <1>4, <1>6, <1>7

\* createWallet: the row is new, and all primary wallets of its owner are cleared.
LEMMA CreateInv ==
  ASSUME IInv, NEW c \in Calls, CreateWalletCommit(c)
  PROVE  IInv'
  <1> DEFINE k == call[c]
  <1>1. /\ k.op = "createWallet" /\ (k.primary = "set" => k.begun)
        /\ k \in CallState /\ Carries(k)
    BY DEF CreateWalletCommit, ReadyToWrite, IInv, TypeOK
  <1>2. k.user \in Users /\ k.wallet = NoWallet
    BY <1>1 DEF Carries, WalletOps
  <1>3. PICK w \in Wallets :
           wallet' = Written(k, w, [userId |-> k.user, isPrimary |-> k.primary = "set"])
    BY DEF CreateWalletCommit
  <1> DEFINE row == [userId |-> k.user, isPrimary |-> k.primary = "set"]
  <1>4. excused' = Excuse(c, k.user, FALSE) /\ Release(c)
    BY DEF CreateWalletCommit
  <1>5. row \in WalletRow /\ row.userId = k.user /\ row.isPrimary = (k.primary = "set")
    BY <1>2 DEF WalletRow
  <1>6. \/ row.userId \in excused'
        \/ excused' = excused /\ \A d \in Calls \ {c} : call[d].op \notin WalletOps
    BY <1>4, <1>5 DEF Excuse
  <1>7. excused' \in {excused, excused \cup {row.userId}}
    BY <1>4, <1>5 DEF Excuse
  <1>8. \/ row.userId \in excused'
        \/ ~row.isPrimary
        \/ PrimaryWallets(row.userId) \ {w} \subseteq k.cleared
    BY <1>1, <1>2, <1>5, <1>6 DEF Carries, HasCleared, PrimaryWallets
  <1>. QED
    BY <1>3, <1>4, <1>5, <1>6, <1>7, <1>8, CommitStep

\* updateWallet: the flag is set after the others were cleared, unset, or kept, and
\* then the wallet has not come to a new owner as a primary one unless that is excused.
LEMMA UpdateInv ==
  ASSUME IInv, NEW c \in Calls, UpdateWalletCommit(c)
  PROVE  IInv'
  <1> DEFINE k == call[c]
             w == k.wallet
             row == [userId |-> OwnerAfter(k), isPrimary |-> PrimaryAfter(k)]
  <1>1. /\ k.op = "updateWallet" /\ (k.primary = "set" => k.begun)
        /\ k \in CallState /\ Carries(k)
    BY DEF UpdateWalletCommit, ReadyToWrite, IInv, TypeOK
  <1>2. /\ w \in Wallets /\ Created(w) /\ k.user \in Users
        /\ k.moveTo # NoUser => k.user = k.moveTo
        /\ k.moveTo = NoUser => wallet[w].userId \in {k.user} \cup excused
    BY <1>1 DEF Carries, KnowsOwner, WalletOps
  <1>3. wallet[w] \in WalletRow
    BY <1>2 DEF Created, IInv, TypeOK
  <1>4. row \in WalletRow /\ row.userId = OwnerAfter(k) /\ row.isPrimary = PrimaryAfter(k)
    BY <1>1, <1>2, <1>3 DEF WalletRow, OwnerAfter, PrimaryAfter, CallState
  <1>5. /\ wallet' = Written(k, w, row) /\ Release(c)
        /\ excused' = Excuse(c, row.userId, row.userId # wallet[w].userId /\ k.primary = "keep"
                                                  /\ wallet[w].isPrimary)
    BY <1>4 DEF UpdateWalletCommit
  <1>6. \/ row.userId \in excused'
        \/ /\ excused' = excused
           /\ \A d \in Calls \ {c} : call[d].op \notin WalletOps
           /\ ~(row.userId # wallet[w].userId /\ k.primary = "keep" /\ wallet[w].isPrimary)
    BY <1>5 DEF Excuse
  <1>7. excused' \in {excused, excused \cup {row.userId}}
    BY <1>5 DEF Excuse
  <1>8. ASSUME row.userId \notin excused', row.isPrimary
        PROVE  PrimaryWallets(row.userId) \ {w} \subseteq k.cleared
    <2>1. CASE k.primary = "set"
      <3>1. row.userId = k.user
        BY <1>2, <1>4, <1>6, <1>8 DEF OwnerAfter
      <3>. QED
        BY <1>1, <1>6, <1>8, <2>1, <3>1 DEF Carries, HasCleared
    <2>2. CASE k.primary = "keep"
      <3>1. wallet[w].isPrimary /\ wallet[w].userId = row.userId
        BY <1>4, <1>6, <1>8, <2>2 DEF PrimaryAfter
      <3>2. w \in PrimaryWallets(row.userId)
        BY <1>2, <3>1 DEF PrimaryWallets
      <3>3. row.userId \in Users \ excused
        BY <1>3, <1>6, <1>8, <3>1 DEF WalletRow
      <3>. QED
        BY <3>2, <3>3 DEF IInv, PrimaryIsUnique
    <2>. QED
      BY <1>4, <1>8, <2>1, <2>2 DEF PrimaryAfter
  <1>. QED
    BY <1>2, <1>4, <1>5, <1>6, <1>7, <1>8, CommitStep

\* Every step preserves the invariant.
LEMMA NextInv == IInv /\ [Next]_vars => IInv'
  <1> SUFFICES ASSUME IInv, [Next]_vars PROVE IInv'
    OBVIOUS
  <1>1. CASE UNCHANGED vars
    BY <1>1 DEF vars, IInv, TypeOK, Carries, KnowsOwner, HasCleared, PrimaryIsUnique,
                PrimaryWallets, Created
  <1>2. CASE Next
    <2>1. PICK c \in Calls : \/ CreateWalletRead(c)
                             \/ UpdateWalletRead(c)
                             \/ ClearPrimary(c)
                             \/ CreateWalletCommit(c)
                             \/ UpdateWalletCommit(c)
                             \/ Abort(c)
      BY <1>2 DEF Next
    <2>. QED
      BY <2>1, ReadsInv, CreateInv, UpdateInv
  <1>. QED
    BY <1>1, <1>2

-----------------------------------------------------------------------------

\* The tables and what every handler carries have their types.
THEOREM TypeCorrect == Spec => []TypeOK
  <1>1. IInv => TypeOK
    BY DEF IInv
  <1>. QED
    BY <1>1, InitInv, NextInv, PTL DEF Spec

\* A user has at most one primary wallet, unless wallet handlers overlapped or a
\* primary wallet was handed over by an update that leaves isPrimary out.
THEOREM PrimaryStaysUnique == Spec => []PrimaryIsUnique
  <1>1. IInv => PrimaryIsUnique
    BY DEF IInv
  <1>. QED
    BY <1>1, InitInv, NextInv, PTL DEF Spec
=============================================================================
