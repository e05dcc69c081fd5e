----------------------------- MODULE WalletBook -----------------------------
(***************************************************************************)
(* The wallets of backend/ and their primary flag: createWallet and        *)
(* updateWallet of wallet.service.js.                                      *)
(*                                                                         *)
(* A handler looks its rows up and writes in a transaction of its own;     *)
(* handlers overlap.  PostgreSQL runs the transactions at READ COMMITTED:  *)
(* each statement sees what is committed when it starts, and a row that a  *)
(* transaction has written is locked until it ends.  A transaction that    *)
(* makes a wallet primary first clears the flag of the owner's other       *)
(* wallets and then writes the wallet, in two statements.  Labels and      *)
(* addresses decide nothing here: an address that is taken makes the       *)
(* handler fail.  Users are never deleted, so that they are a constant;    *)
(* who may call the handlers is module Accounts, and what the activation   *)
(* of a wallet means to requests is module TokenRequest.                   *)
(***************************************************************************)
EXTENDS Naturals

CONSTANTS
    Users,          \* the rows of users
    Wallets,        \* ids a row of wallets may get
    Calls,          \* request handlers that may run at the same time
    NoUser, NoWallet

ASSUME NullsAssumption == NoUser \notin Users /\ NoWallet \notin Wallets

VARIABLES
    wallet,     \* rows of wallets
    call,       \* what each handler in flight carries
    excused     \* history: owners whose wallets the exceptions of PrimaryIsUnique concern

vars == <<wallet, call, excused>>

WalletRow == [userId : Users, isPrimary : BOOLEAN]

NotCreated == [userId |-> NoUser, isPrimary |-> FALSE]

\* isPrimary of a body that creates or updates a wallet; "keep" is its absence.
PrimaryField == {"set", "unset", "keep"}

WalletOps == {"createWallet", "updateWallet"}

\* user is the owner whose flags the handler clears, moveTo the userId of the
\* body, cleared the rows of the first statement.
CallState ==
    [op      : WalletOps \cup {"idle"},
     user    : Users \cup {NoUser},
     wallet  : Wallets \cup {NoWallet},
     moveTo  : Users \cup {NoUser},
     primary : PrimaryField,
     begun   : BOOLEAN,
     cleared : SUBSET Wallets]

Idle == [op |-> "idle", user |-> NoUser, wallet |-> NoWallet, moveTo |-> NoUser,
         primary |-> "keep", begun |-> FALSE, cleared |-> {}]

TypeOK ==
    /\ wallet \in [Wallets -> WalletRow \cup {NotCreated}]
    /\ call \in [Calls -> CallState]
    /\ excused \subseteq Users

Created(w) == wallet[w] # NotCreated

PrimaryWallets(u) == {w \in Wallets : wallet[w].userId = u /\ wallet[w].isPrimary}

Init ==
    /\ wallet = [w \in Wallets |-> NotCreated]
    /\ call = [c \in Calls |-> Idle]
    /\ excused = {}

-----------------------------------------------------------------------------
(* Slips the handlers could have: each replaces the operator of the same     *)
(* name before the underscore.                                               *)

OwnerAfter_Null(k) == k.moveTo

OthersPrimary_OldOwner(k) ==
    IF k.op = "updateWallet" THEN PrimaryWallets(wallet[k.wallet].userId) \ {k.wallet}
    ELSE PrimaryWallets(k.user)

-----------------------------------------------------------------------------

\* A handler that has read its rows goes on with what it keeps of them.
Proceed(c, k) ==
    /\ call' = [call EXCEPT ![c] = k]
    /\ UNCHANGED <<wallet, excused>>

\* An error, a failed or deadlocked transaction or a server that stops.
Abort(c) ==
    /\ call[c] # Idle
    /\ Proceed(c, Idle)

\* ensureUserExists, outside the transaction: users are never deleted.
CreateWalletRead(c) ==
    /\ call[c] = Idle
    /\ \E u \in Users, p \in {"set", "unset"} :
        /\ Proceed(c, [Idle EXCEPT !.op = "createWallet", !.user = u,
                                      !.moveTo = u, !.primary = p])

\* user becomes nextUserId: the userId of the body, or else the owner read here.
UpdateWalletRead(c) ==
    /\ call[c] = Idle
    /\ \E w \in Wallets, to \in Users \cup {NoUser}, p \in PrimaryField :
        /\ Created(w)
        /\ Proceed(c, [Idle EXCEPT !.op = "updateWallet", !.wallet = w,
                                      !.moveTo = to, !.primary = p,
                                      !.user = IF to = NoUser THEN wallet[w].userId ELSE to])

\* The rows the first statement of the transaction finds: it names the owner,
\* and an update excepts the wallet itself.
OthersPrimary(k) == PrimaryWallets(k.user) \ {k.wallet}

ClearPrimary(c) ==
    LET k == call[c] IN
    /\ k.op \in WalletOps
    /\ k.primary = "set"
    /\ ~k.begun
    /\ Proceed(c, [k EXCEPT !.begun = TRUE, !.cleared = OthersPrimary(k)])

\* The wallet is written: by a transaction that has cleared what it has to.
ReadyToWrite(c, op) ==
    /\ call[c].op = op
    /\ call[c].primary = "set" => call[c].begun

\* The update of a row waits for a transaction that has cleared it.
LockedByOther(c, w) == \E d \in Calls \ {c} : w \in call[d].cleared

OwnerAfter(k) == IF k.moveTo = NoUser THEN wallet[k.wallet].userId ELSE k.moveTo

PrimaryAfter(k) ==
    IF k.primary = "keep" THEN wallet[k.wallet].isPrimary ELSE k.primary = "set"

\* The rows after the transaction of k wrote row to wallet w.
Written(k, w, row) ==
    [x \in Wallets |-> IF x = w THEN row
                       ELSE IF x \in k.cleared THEN [wallet[x] EXCEPT !.isPrimary = FALSE]
                       ELSE wallet[x]]

\* History: the owner's wallets were written while another wallet handler was
\* under way, or a primary wallet came to them without the body saying so.
Excuse(c, u, movedPrimary) ==
    IF movedPrimary \/ \E d \in Calls \ {c} : call[d].op \in WalletOps
    THEN excused \cup {u}
    ELSE excused

\* The end of a transaction: one that waited for the same rows looks at them
\* again, finds them no longer primary and leaves them out.
Release(c) ==
    call' = [d \in Calls |-> IF d = c THEN Idle
                             ELSE [call[d] EXCEPT !.cleared = @ \ call[c].cleared]]

CreateWalletCommit(c) ==
    LET k == call[c] IN
    /\ ReadyToWrite(c, "createWallet")
    /\ \E w \in Wallets :
        /\ ~Created(w)
        /\ wallet' = Written(k, w, [userId |-> k.user, isPrimary |-> k.primary = "set"])
    /\ excused' = Excuse(c, k.user, FALSE)
    /\ Release(c)

UpdateWalletCommit(c) ==
    LET k == call[c]
        w == k.wallet
    IN
    /\ ReadyToWrite(c, "updateWallet")
    /\ ~LockedByOther(c, w)
    /\ wallet' = Written(k, w, [userId |-> OwnerAfter(k), isPrimary |-> PrimaryAfter(k)])
    /\ excused' = Excuse(c, OwnerAfter(k),
                         OwnerAfter(k) # wallet[w].userId /\ k.primary = "keep"
                                                          /\ wallet[w].isPrimary)
    /\ Release(c)

-----------------------------------------------------------------------------

Next ==
    \E c \in Calls :
        \/ CreateWalletRead(c)
        \/ UpdateWalletRead(c)
        \/ ClearPrimary(c)
        \/ CreateWalletCommit(c)
        \/ UpdateWalletCommit(c)
        \/ Abort(c)

Spec == Init /\ [][Next]_vars

-----------------------------------------------------------------------------
(* Properties.                                                               *)

\* A user has one primary wallet at most, unless wallet handlers overlapped or a
\* primary wallet was handed to the user by an update that leaves isPrimary out:
\* createWallet and updateWallet clear the others first.
PrimaryIsUnique ==
    \A u \in Users \ excused : \A v, w \in PrimaryWallets(u) : v = w
=============================================================================
