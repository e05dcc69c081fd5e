# Verification of the DK token project

TLA+ models of the parts of this repository where steps of several actors meet: the
maker-checker service (`backend/`) and its portal (`DK_Token_Frontend/`), the Solana program
(`dk-token/`), the settlements of `dk-backend/`, and the browser application `dk-frontend/`
that ties program and settlements together. TLC checks the models on small instances; TLAPS
proves the most important properties for every value of the constants.

## 1. The system

| Component | State it keeps | Operations | Talks to |
|---|---|---|---|
| `dk-token/programs/dk-token` (Anchor program) | `Config`, `MintRequest` accounts; mints, token accounts and metadata through the SPL token program and Metaplex | initialize, create_mint, create/update_metadata, create_mint_request, approve/reject_request, transfer_tokens, burn_tokens | token program, Metaplex (CPI) |
| `backend/` token requests | `token_requests`, `request_approvals`, `audit_logs` (PostgreSQL through Prisma) | create, update, submit, approve, reject, mark-ready, record-execution | wallets, users, audit log |
| `backend/` users, roles, login | `users`, `roles`, `user_roles`; tokens (JWT) | login, create, update, activate, assign roles | every route through `authMiddleware`, `roleMiddleware` |
| `backend/` wallets | `wallets` (active, primary) | create, update, activate | token requests |
| `backend/` audit log, dashboard, listings | none of their own | reads | the tables above |
| `dk-backend/` banks and settlements | `Bank`, `Settlement` | createBank, updateBankReserve, createSettlement, createUnregisteredFiatSettlement, refreshSettlementStatus | payment gateway (`bankApi.service.js`), core banking (`cbsApi.service.js`) |
| `dk-backend/` gateway clients | cached access token and sign key | fetch, cache, sign | the gateways |
| `dk-backend/` mint requests, users, token config | `MintRequest`, `User`, `TokenConfig` | create, approve, reject, upsert | called by the browser |
| `dk-frontend/` | React state | mint, approve, transfer, burn, settle | the program, `dk-backend` |
| `DK_Token_Frontend/` | local storage (mock adapter), session store | the same workflow as `backend/`, in the browser | `backend/` or its own mock adapter |

Hard behaviours:

* **Check, then act.** Every handler of `tokenRequest.service.js` and
  `approval.service.js` except create reads the row and checks it outside of the
  transaction that writes, and the write names the row by id alone. Handlers
  of different users overlap (Node serves requests between awaits, and there may
  be several servers), so a write may land on a row that has moved on.
* **Money before books.** A FIAT settlement asks the payment gateway to move the
  money and only then saves it and decrements the reserve; a timer, a failing
  transaction or a stopped server may come in between.
* **Accounts chosen by the caller.** An instruction of the program gets request,
  config, mint and token accounts separately; which combinations it accepts
  decides who can issue what.
* **Two systems of record.** The browser acts on chain and then reports to
  `dk-backend`, or burns tokens and then asks for a payout; either call may fail,
  go unanswered, or be cut off by a closed page.
* **Copies that age.** A session keeps the roles of the sign-in, a page keeps the
  rows and the reserve it loaded, a token outlives the deactivation of its user.
* **Two statements, one rule.** A wallet is made primary by clearing the others and
  then setting one, in a transaction that locks only what it clears.

What makes each part correct: a request is never decided by its maker, never
executed without an approval, never taken up again once it is settled; tokens exist
only by the approval of a checker of their config and each request mints once; no
transfer is booked twice, the reserve accounts for every settlement, and a payout that
was made is remembered; what the records and pages say of a mint request is what
happened on chain; money is paid only for tokens burned; a role is granted by an
administrator, once, and on record; a deactivated user stops acting; a user has one
primary wallet.

## 2. The modules

| Module | Models | Extends / uses |
|---|---|---|
| `RequestData` | roles, statuses, transitions, content of a request (`utils/enums.js`, `validators/`) | |
| `RequestWorkflow` | abstract: one atomic step per operation of the workflow | `RequestData` |
| `TokenRequest` | the services of `backend/`, each handler split where it awaits | `RequestData`; implements `RequestWorkflow` |
| `TokenRequestProofs` | proofs | `TokenRequest` |
| `DkToken` | the program, one action per instruction | |
| `DkTokenProofs` | proofs | `DkToken`, `Sums` |
| `Settlement` | banks, payouts, settlements of `dk-backend/` | |
| `SettlementProofs` | proofs | `Settlement`, `Sums` |
| `Accounts` | users, roles, sessions and the seed script of `backend/` | |
| `AccountsProofs` | proofs | `Accounts` |
| `WalletBook` | the wallets of `backend/` and their primary flag, statement by statement | |
| `WalletBookProofs` | proofs | `WalletBook` |
| `Sums` | lemmas on sums over finite sets, for the proofs that need them | |
| `DktFlow` | the pages of `dk-frontend/` and the records of `dk-backend/` | composes `DkToken` (as `Chain`) and `Settlement` (as `Settle`) |
| `DktFlowProofs` | proofs | `DktFlow`, `Sums`; the proof modules of `DkToken` and `Settlement` (as `ChainP`, `SettleP`) |
| `Portal` | `DK_Token_Frontend/` with its mock adapter: tabs, sessions, pages, the database in localStorage | `RequestData`; implements `RequestWorkflow` |
| `PortalProofs` | proofs | `Portal` |
| `MCTokenRequest`, `MCDkToken`, `MCAccounts`, `MCDktFlow`, `MCPortal` | small instances for TLC | |

Each system module has a section of *slips*: operators that replace one of its
definitions by a plausible mistake. `PROJECT.json` pairs every property with the
slip that breaks it, so that no property is satisfied for want of trying.

### 2.1 TokenRequest

`tokenRequest`, `requestApproval`, `trail` and `walletActive` are tables: rows of
`token_requests` (timestamps and texts reduced to whether they are set), of
`request_approvals`, the STATUS_CHANGE rows of `audit_logs` in order, and `isActive` of the
wallets. `call` holds, for each handler in flight, what its local variables carry from its
checks to its commit. `XRead` is everything a handler does up to `prisma.$transaction` (role
of the route, ownership, status, transition), `XCommit` its transaction. The update of the
row takes the row lock that the database holds to the commit, so the transaction, with its
approval and audit rows, is one step; create and update look their wallets up first, in a
step of their own (`CreateValidate`, `UpdateValidate`), because those reads lock nothing.
`Abort` is a rolled-back transaction or a stopped server. `assertTransition` never refuses
what the explicit status checks let pass, so it is part of the same guard. An update keeps
the field-by-field difference it computes for its audit row (`changedFields`) but writes
every field of its merged content (`UpdatedContent`), so that the later of two edits decides
alone. A row of `request_approvals` carries, for its creation time, how many status changes
its request had had.

Left out: the listing and the payloads handed out after mark-ready, which change
nothing; `txSignature`, `explorerUrl` and comments; the changes of roles, which
are a constant (a request sees one snapshot of them; how they change is `Accounts`).

### 2.2 DkToken

Solana runs the instructions of a program that touch the same accounts one after
the other and undoes one that fails, so each instruction is one action. Account
addresses are model values; `#[account(init)]` is the guard that the account is
new, the `require!`s are guards, and the arguments and accounts a caller chooses
are `\E`. `origin`, `mintedInto` and `burned` are history: no action reads them.
The token program is external: it refuses what would overflow 64 bits or is not
covered by a balance. One token account per owner and mint is kept (several would
add nothing: minting and transferring go to any account), and nothing is claimed about
its balances, which are wholly its own doing. `U64Max` and
`MaxCheckers` (10 in the code, from the space of the account) are constants.

### 2.3 Settlement

`bank` and `settlement` are the tables, `transfer` is what the gateway has moved,
`call` what each handler carries. A payout waits in turn for the CBS account
inquiry (unregistered receivers only), the beneficiary inquiry, the transfer, its
answer, and the transaction. Amounts are integers in fractions of a cent, so that
`toFixed(2)` can round. The gateway is external: it takes a transfer or not, and its
answer (`BankAnswer`) is an HTTP status that is 2xx or not and a body that gives any
status or none; it may be lost, late, and may not name the transfer. What the client
makes of an answer is its own code and modelled as such: a 2xx answer without a status,
an unparseable body included, counts as SUCCESS (`ApiStatus`), a refusal keeps the status
of its body, and a refused inquiry ends the payout with that status
(`BeneficiaryInquiry`); the handler saves on SUCCESS and on no other word (`Report`), so
that a transfer answered COMPLETED is paid and forgotten. Assumed of the gateway is one
thing: it does not accept a transfer (2xx, with a status that says so, `Accepts`) which
it has not taken. A settlement may thus be saved, and the reserve decremented, although no
transfer was taken (`bankApi.service.js:124`, and lines 376-385 for a refused inquiry whose
body says SUCCESS), which `dk-backend/README.md:575` ("which bank inquiry and bank transfer
belong to each FIAT settlement") does not provide for; such a row names no transaction, as
`SettlementsMatchTransfers` says. `paidBy` of a row is the transfer its call had taken, if
any; the program knows only the id the answer named. `entered` and `overlapped` are
history: what was entered last as the reserve and which FIAT settlements were saved since,
and the banks whose payouts overlapped. Not modelled here: bank wallets and receiver
validation (a bank stands for the one wallet it names), the mint requests
(`DktFlow`) and the cached tokens of the gateway clients.

### 2.4 Accounts

`user` and `userRole` are the tables, `grant` the ASSIGN_ROLE rows of `audit_logs` with
their actors, `session` the users who hold a token that verifies; a token is never
revoked, only `Expire`d. A call is authenticated (`Authenticate`: token, row, active,
role) in one read, looks its row up in another (`XRead`) and writes in a transaction
(`XCommit`); creation has no read of its own. The actor may be deactivated in
between. `AssignRolesRead` tests for duplicates, the unique key of `user_roles` tests
again at the commit (`Unassigned`), where it undoes the whole transaction. The seed
script upserts the account and the role in two statements and writes no audit rows;
what it wrote is the history `seeded`. No operation takes a role away.

### 2.5 WalletBook

PostgreSQL runs the transactions at READ COMMITTED, so the two statements that make a
wallet primary are two steps: `ClearPrimary` finds the rows to clear, which stay
locked (`LockedByOther`) and uncommitted until `XCommit` writes them with the wallet.
A transaction that waits for a row looks at it again when the lock is gone
(`Release`). Users are a constant, since they are never deleted.

With `isPrimary` absent from the body an update that moves a primary wallet clears
nothing, so its new owner may have two; so may two handlers that overlap.
`PrimaryIsUnique` excepts exactly these owners (history `excused`).
`backend/README.md:61` ("primary-wallet enforcement") holds to that extent.

### 2.6 DktFlow

Each page of `App.jsx` is a record: the wallet, config, mint, bank and reserve it
knows, the mint requests it lists, and where its operation stands (`at`), one value
for each await after which state is written. A chain transaction and the page that
continues from it are one step, `Answered` or not: `.rpc()` resolves or throws, and
it may throw although the transaction went through. The next step calls the backend
and may do its work and lose the answer. `Open` closes the page whatever it is doing.
A page runs one operation at a time (`loading` disables the buttons). Next to it run
the refresh of the configuration (its row is written after an await), the refresh of the
bank, the button of the backend's health, which loads the configuration again
(`LoadTokenConfig`), and `createMint`, which excludes only itself (`isCreatingMint`) and
keeps what it will write in `minting` and `minted`. When a page is opened, its reads of
the configuration, the account, the requests and the bank are one step, and all succeed;
a step of `LoadTokenConfig` is the arrival of its answer. Every step on chain is a step of
`DkToken`, every step of a settlement one of `Settlement`. `lost` is history: requests
whose call to the backend failed, went unanswered or was cut off. Amounts are in
millionths of a token, and 1 token is 1 BTN, so that the gateway rounds to cents and the
program does not: `PaidOutIsBurned` holds up to half a cent per transfer.

What the model shows besides the properties, and the code does:

* The dialog that confirms a payout stays open when the payout fails, and each
  confirmation burns again (`App.jsx:1313`); with another wallet connected in the
  meantime it burns that wallet's tokens and then finds no bank.
* `initialize` sends no `mintAddr`, so that a second config is recorded with the mint
  of the first until a page refreshes it (`PutConfig`).
* Any failure of the user lookup counts as "unregistered" (`checkBankRecipient`,
  `App.jsx:1192`), although `PROJECT_ARCHITECTURE.md:332` has it that such a wallet "does
  not exist in backend users table": while the backend cannot answer, a registered
  receiver is offered a payout.
* The buttons of the Maker tab (`App.jsx:2888`) pass the click event where
  `approveRequest` expects an address; they approve nothing and are left out. The
  queue of the checkers passes the address.

### 2.7 Portal

Each tab has an auth store (`tab`), of which the last write of any tab is in
localStorage (`stored`), a page with the statuses it loaded, and one call under way. A
click fixes actor and arguments; after MOCK_DELAY the adapter reads the database,
checks, writes and answers in one synchronous step. The adapter checks statuses and
makers, but roles only the routes and buttons, on the copy of the session. Assumed:
while one tab is in such a step no other tab writes localStorage. My requests and the
queue of requests to execute offer buttons of the details page and count as it.

## 3. The runs

| Run | Instance | Shows |
|---|---|---|
| `token_request_race` | 1 request, 2 handlers, 3 users (one maker-checker, one checker-maker, one executor), 2 wallets, a patch of the destination alone and one that makes the mint a transfer, a mix of which would be ill-formed | maker-checker separation, approval before execution, agreement of row, approvals and audit log, well-formed content, and that a settled request takes no new call, in every overlap |
| `token_request_serial` | 2 requests, 2 handlers, at most one at a time per request | the handlers implement `RequestWorkflow`; the audit rows form a chain; one decision per request |
| `token_request_edit` | as race | **violated**: only drafts are edited |
| `token_request_transition` | as race | **violated**: a status changes along the valid transitions only |
| `dk_token` | 2 configs, 2 mints, 2 requests, 2 wallets, `U64Max` 2, at most 2 checkers | see 2.2; a config may be confused with another, a mint replaced, amounts reach the limit |
| `settlement` | 1 bank, 2 handlers, 2 settlements, 2 transfers, amounts 0.4 and 1 cent, reserve of 1 cent | no transfer is booked twice or wrongly, no decrement is lost, only overlap overdraws, every request past the CBS inquiry returns |
| `settlement_overdraft` | the same | **violated**: the reserve is never negative |
| `settlement_forgotten` | the same | **violated**: every payout is remembered |
| `accounts` | the default administrator and a second user, 2 emails, 2 roles, 2 handlers | audit log and roles agree, roles come from administrators, a user who stays deactivated is out for good |
| `wallet_book` | 2 users, 3 wallets, 2 handlers | one primary wallet at most outside of overlap and unsaid moves |
| `dkt_flow` | a checker's and a bank's wallet which any page may use, an amount of 2, a reserve and `U64Max` of 4, a cent of 3; behaviours of two kinds: 2 pages, 1 request, 1 settlement, no payout; or 1 page after the setup, 2 requests, 2 settlements, 2 transfers | records and pages never run ahead of the chain, decisions reach the record unless a call was lost; payouts, retried ones among them, are covered by burns up to the rounding (2 is paid as 3) |
| `portal` | 2 tabs, an administrator and a maker who may become a checker, a third user, 1 request, 3 wallets of which administrator and maker have a primary one each; behaviours of two kinds: on requests and users, or on wallets | the mock adapter behind its pages implements `RequestWorkflow`; actors hold their roles; the audit log tells the row; one primary wallet each, also when a primary one is moved to a user who has one |

Why the bounds are enough to be interesting: a race needs two handlers, and the
proofs of section 4 cover any number; two requests are enough for one handler to
be delayed while another finishes a different request; two configs, mints and
requests are what it takes to mix them up; 0.4 cent is rounded to nothing and two
amounts together exceed the reserve; a retried payout needs tokens, a transfer and a
settlement for a second time. In the runs of `TokenRequest`, `DkToken`, `Settlement`,
`Accounts` and `WalletBook` no action carries an artificial bound: the
state spaces are finite because ids run out (rows are never deleted), because a
status is never DRAFT again once submitted, so that every handler can go stale
only finitely often, and because tokens are bounded by the requests that may be
approved. `CHECK_DEADLOCK` stays on: a wallet can always be switched, a transfer
of nothing and an edit of the reserve are always possible once there is a mint or
a bank. Symmetry is used for handlers, pages, tabs, ids and the addresses of the
program, and never with a liveness property (`Workflow!Spec`, which
`ImplementsWorkflow` of `Portal` states under the symmetry of tabs, has no fairness).

Three kinds of bounds are named.

* `DktFlow.SetUp`: config, mint and metadata are on record and every page has seen them
  before the rest begins; setup by two pages at once is explored in full before that.
* `Portal.Managed`, `MaxAdminRows` and `MaxEdits` limit the operations whose rows no
  property counts: one change of users or wallets made by an administrator, enough to hand
  out a role or to move a wallet (two, when both tabs have clicked before either commits),
  and one edit, enough to change what a page shows. `createInitialDb` also makes four
  sample requests; they are rows like any other and the model starts without them.
* `MCDktFlow` and `MCPortal` add a variable that never changes (`acting`, `subject`): it
  says of which kind a behaviour is, and `Within` keeps to it. In `MCPortal` this loses
  nothing: no operation on requests or users of the mock adapter looks at a wallet, and
  none on wallets at a request. In `MCDktFlow` it separates what is about mint requests
  from what is about money (`AboutRecords`, `AboutPayouts`). A page has one handler of the
  backend at a time, so that there a payout is retried when the handler of the first has
  ended; payouts that overlap are in the runs of `Settlement`, and for the burns in
  `PayoutsAreBurned` of section 4, which is about every behaviour of `DktFlow`, for any
  number of pages.

**Fairness.** Two modules state any. `Accounts`, for `Revoked`: a handler that has begun
ends (`WF` of `Finish`), with success or an error, since bcrypt and the database
answer; nobody has to log in or call anything, and tokens need not expire.
`Settlement`, for `CallsReturn`: `TimeOut` (Node's timers fire; the
abort timer of `sendFiatPayout`, `BANK_API_TIMEOUT_MS`, covers inquiry, token
requests and transfer), the transaction (the database answers, with success or an
error), and a status refresh, whose timeout counts as FAILED. The CBS inquiry passes no signal
(`settlement.controller.js:200`) and `cbsApi.service.js` sets no timer: nothing of this
repository ends that wait, so that a call is promised to return only once it is past it.
Nothing is assumed of the gateway, of the core banking system or of the clients.

### What the violated properties mean

* `OnlyDraftsAreEdited`: `updateTokenRequest` reads (`tokenRequest.service.js:191`),
  checks, and updates by id (`:231`). An edit that overlaps the submission, and even
  the approval, changes a request that is no longer a draft, against
  `backend/README.md:72`.
* `TransitionsAreValid`: the same gap in approve, reject, submit, mark-ready and
  record lets the later of two calls overwrite the earlier, against
  `backend/README.md:88`. What survives the race is the subject of
  `token_request_race`: separation, an approval on record, agreement of the tables.
* `ReserveIsNonNegative`: the reserve is compared before the payout and decremented
  after it (`settlement.controller.js:73`, `:196`), against the rule
  "fiatReserve must be a non-negative number" of `bank.controller.js`.
  `ReserveCoversPayouts` shows that only overlap, or an edit of the
  reserve meanwhile, does this.
* `PayoutsAreRemembered`: a timeout or a failing transaction after the transfer
  leaves a payout without a settlement, against `PROJECT_CODEBASE_README.md:266`.

## 4. The proofs

Assumed everywhere: that null values are not ids, that bodies of requests have
the shape the validators ask for, that amounts are positive numbers (in `DktFlow` also that
they fit a transaction), and that of the wallets a mock database starts with a user has at
most one primary one. Where something is summed up, what it is summed over is finite:
mints and requests of the program, pages and transfers of `DktFlow`. These are
the named `ASSUME`s of the modules, which the runs evaluate. The sets of users, requests,
calls, configs, banks and so on are otherwise arbitrary.

* **`TokenRequestProofs`**, for handlers that overlap freely: `TypeCorrect`,
  `SeparationHolds`, `NothingUnapproved`, `DecisionsOnRecord`, `TrailAgrees`,
  `ContentKeepsShape` and the action property `LateCallsAreSpent`. The
  invariants are not inductive alone: a commit may run long after its checks. The
  strengthening `CallsCarry` says what stays true of a call however late it commits:
  its row exists, a decision is not the maker's, a mark-ready or a record found an
  approval on record. These hold because makers never change, approvals are
  never withdrawn and rows never deleted; the status that was read is absent
  from it, because it may be stale. `RowsFilled` and `DecisionsHaveRows` tie
  rows that exist to makers and decisions. The commits share one lemma
  (`CommitStep`) on what a write must look like to preserve everything.
  For handlers of which one at a time works on a request (`SerialSpec`): `TrailsAreChains`,
  `OneDecision` and the refinement `SerialCallsRefine`. Here the status that was read is
  what the commit finds (`CallsAreFresh`, from `Exclusive`), and a request that is open has
  no decision yet (`OpenIsUndecided`); both are part of `SerialInv`.
* **`DkTokenProofs`**: `TypeCorrect`, `FourEyesHold`, `OneConfigOfAMint`,
  `MetadataStays`, `DecisionsAreFinal`, `SupplyStaysApproved`. The
  induction adds that a config never changes admin or checkers once initialized and that
  the mint of a config was created under it. The sum needs `TokenInv`, which adds that
  a mint that does not exist has no supply (`UncreatedIsEmpty`), and the fact that a
  request that is not approved has minted nothing, so that an approval adds one new term.
* **`Sums`**: a sum over a finite set changes by as much as the one value that changes, an
  element that joins the set adds its value, and two functions that agree have one sum. The
  fold that computes a sum is recursive; the lemmas take it apart by looking at a smallest
  set on which a claim would fail, so that no induction over data is needed.
* **`SettlementProofs`**: `TypeCorrect`, `BooksMatchTransfers`,
  `OverdraftNeedsOverlap`, `ReserveStaysAccounted` and the action property `MoneyStays`.
  The induction adds that a call whose transfer was taken
  is alone in knowing of it (`CallsHoldTransfers`), that the transaction id a call was
  given is that of its own transfer (`CallsNameTransfers`), that calls point to rows that
  exist (`CallsPoint`, `RowsAreFilled`), and that payouts of a bank that has not
  been marked as overlapped come one at a time (`OneAtATime`). For the reserve,
  `ReserveInv` adds that the settlements saved since the last entry are saved rows
  (`SinceIsSaved`), so that the one a commit adds is not among the terms yet.
* **`AccountsProofs`**: `TypeCorrect`, `AuditIsTrue`, `AdminsGrant`. What a handler
  carries stays true because rows are never deleted and roles never taken away
  (`Grows`); that its actor is still active is absent, since it may be false. An id
  without a row has no roles (`RolesHaveUsers`), so that `createUser` grants none twice.
* **`WalletBookProofs`**: `TypeCorrect`, `PrimaryStaysUnique`. A transaction that has
  cleared the primary wallets of an owner still holds all of them, or the owner has been
  excused (`HasCleared`); the owner that was read is still the owner, or the new one has
  been excused (`KnowsOwner`). All commits share one lemma (`CommitStep`).
* **`PortalProofs`**: `TypeCorrect`, `ActorsHoldTheirRoles`, `TrailIsTrue`,
  `PrimaryStaysUnique` and the refinement `PortalImplementsWorkflow`. Of a call under way
  the induction says that its arguments have the shape the form lets through (`Fits`) and
  that whoever clicked has the role still (`Entitled`); of a session, that it claims no
  role its row lacks (`Honest`). All three last because roles are only added, and a user
  that is yet to be created has none (`UnbornWithoutRoles`). Nothing is said of what a
  page shows: it may be old, and the adapter looks again. `LogIsBefore` bounds the audit
  log by the status of the row, so that an operation never appends an action that is
  there already. The operations on requests share `SaveStep`, those of the tabs `TabStep`.
* **`DktFlowProofs`**: `TypesStay`, `RecordsNeverInvent`, `DecisionsAreRecorded`,
  `PayoutsAreBurned`, and that the application implements its two parts
  (`FlowImplementsParts`, without the fairness of `Settlement`) and inherits what is proved
  of them (`PartsStaySound`). The
  instanced proof modules `ChainP` and `SettleP` supply the lemmas on steps of the program
  and of the settlements; `SameChain` and `SameSettle` identify them with the instances of
  `DktFlow`. `NextTurns` splits every step into what it does to the shared state (`Shared`)
  and what becomes of the one page that takes its turn (`Turn`). The induction for the types
  (`Typed`) adds how the fields of a page fit each other and the banks (`PageOK`). For the
  records, `RecordInv` says request by request that row and page never run ahead of the
  chain, that a page which is about to save or record a request carries what the chain has,
  that only one page is about to save it, and that a decision is saved, about to be saved
  or lost. For the payouts, `Covered` says that all that was paid, less the rounding,
  and what is owed is covered by what was burned; owed is what pages that have burned are
  about to ask for, and what handlers were asked for and the gateway has not taken yet. A
  request moves an amount from the one to the other, and closing a page or giving up only
  lowers the sum, so that a retry has to burn anew.

Only model-checked: `CallsReturn` and `Revoked`, which are liveness under fairness, and the
four properties that are violated. Every invariant, action property and refinement that a
passing run checks is a theorem.

## 5. Not modelled, and the plan

Not modelled for good: rendering, formatting, HTTP plumbing, bootstrap, the CBS proxy, the
mock bank and the scripts (no state that outlives a call, or stand-ins for the
environment); the dashboards and listings (reads, which nothing says agree with each
other); the token and sign-key caches of the gateway clients (what the gateway does with
an old token is not in the repository; a refused call is a failure, and any call may
fail). Of `dk-frontend` the refresh button of a FIAT settlement (`Settlement` has the
refresh of the backend), the panel of CBS accounts and the refreshes of plain lists; of
`dk-backend` the routes no page calls as steps of `DktFlow` (`updateBankReserve` is in
`Settlement`); of the portal the client of the real backend, whose handlers are
`TokenRequest`, `Accounts` and `WalletBook`, and the tab of somebody who signs in by
address while signed in.

Next, in this order:

1. `Accounts` composed with `TokenRequest`: roles that change while a handler runs, as an
   invariant of both and a proof from theirs.
2. The receiver of a payout as state of `DktFlow`, so that what `checkBankRecipient` gets
   wrong can be stated.
