# A verification of the shop

The repository is the back end of a marketplace (NestJS, TypeORM on MySQL, Redis,
Elasticsearch, Firebase). Users earn points with proofs of what they achieved, buyers
pay for orders with them, the points wait in the seller's pending balance, and go to
the seller or back to the buyer. Users become sellers, offer products, follow and block
each other, send each other messages, and comment on what they received with images and
videos. This directory holds TLA+ models of these parts and of the migrations of the
database, the TLC configurations that check them, and proofs that TLAPS checks. Paths
below are relative to the repository's own `src/`.

## 1. Inventory

| Component | State | Operations | Talks to |
|---|---|---|---|
| Wallet ledger (`modules/wallets/wallet-ledger.service.ts`) | `wallets` (two buckets, version), `wallet_operations` (idempotency key, hash, status), `wallet_entries` | `applyOperation`, `releaseSellerPoints`, `reverseOperation` | called inside the transaction of orders and rewards |
| Orders (`modules/orders/orders.service.ts`) | `orders`, `order_items`, `refunds`, `order_timelines`, `shippings` | `createOrder`, `editPurchase`, `cancelOrder`, `setAcceptBuyer`, `sellerMarkAsShipped`, `buyerConfirmReceived`, `refundOrder`, `respondRefund`, `acceptExpiredRefunds`, `releaseDueSellerPoints` | ledger, stock, seller profiles |
| Inventory (`modules/inventory`) | `inventory_movements`, unique idempotency key | written by orders and products | - |
| Products (`modules/products/products.service.ts`) | `products`, `product_variants.stock`, likes, reports | `createProduct`, `update`, `remove`, `likeProduct`, `reportProduct` | inventory, search index |
| Product comments (`product-comments.service.ts`) | `comments`, `comment_media` | `createComment` (idempotent, claims uploaded media) | uploads |
| Uploads (`modules/upload`) | `media_assets`: temporary, attached, deleting, deleted | `uploadCommentMedia`, `cleanupExpiredTemporaryMedia` | object storage |
| Rewards (`modules/rewards`) | `reward_proofs`, `reward_appeals` | `addRewardProof`, `createRewardAppeal` | an external judge, the ledger |
| Sellers (`modules/sellers`) | `seller_applications`, `seller_profiles` | `submitApplication`, `approveApplication`, `rejectApplication`, `updateProfileStatus` | addresses |
| Addresses (`modules/addresses`) and order addresses | `addresses`, one default per user | `createAddress`, `setDefaultAddress`, `deleteAddress` and their wrappers in the order service | - |
| Cart (in `orders.service.ts`) | `cart_items`, one row per user and variant | `addCart`, `editCart`, `deleteCart`, `getCart` | - |
| Conversations (`modules/conversations`) | `conversations`, `messages`, read cursors, unread counts | `ensureConversation`, `sendMessage`, `setReadMessage` | gateway, notifications, blocks |
| Notifications (`modules/notifications`, `push_settings`, `dev_tokens`, `common/firebase`) | `notifications`, `push_settings`, `dev_tokens` | `createNotification` with its push, `setReadNotification`, `getPushSetting`, `updatePushSetting`, `upsertDevToken` | gateway, FCM; called by products, comments, orders, rewards |
| Follow, block (`modules/follow`, `modules/blocks`) | `user_follows`, `user_blocks` | `setUserFollow`, `setUserBlock` | each other's tables |
| Rates (`modules/rates`) | `rates` | `setRate` after `validateSetRateInput` | orders |
| Authentication (`common/auth`, `common/redis`) | users, three keys per phone in redis | `signup`, `login`, `createCodeResetPassword`, `checkCodeResetPassword`, `resetPassword`, `changePassword`, `changeInfoAfterSignup` | redis, the wallet of a new user |
| Users (`modules/users`) | the profile columns of `users` | `setUserInfo` | authentication writes the same row |
| Product search (`products-search.service.ts`) | an index of product documents | index, update, remove, the synchronisation script, search | told by products without waiting |
| Migrations (`migrations`) | the schema and the rows it carries over | 28 times `up()`, `down()` | TypeORM's executor |
| Wallet queries, searches, news, ship queries | - | reads | - |
| HTTP shell, configuration | none at run time | - | - |

Requests run concurrently on one or more Node processes; everything they share is
in MySQL. Handlers that move points or stock use one transaction each, take row
locks with `FOR UPDATE` and check again under the lock what they checked before.
Deadlines are compared with the process's clock. Two functions,
`acceptExpiredRefunds` and `releaseDueSellerPoints`, are written for a worker.

What is hard: calls repeated after a lost answer (idempotency keys); transactions
that interleave (row locks, read views, TypeORM's habit of writing only columns
that changed since *it* read them); deadlocks and crashes inside a transaction;
four handlers that may dispose of one order's payment under four different keys;
deadlines that race with answers; batch jobs that must be called at all; services that
use no transaction, or several, for one request (follows, blocks, reset codes, profiles,
preferences, removals of products), so that others come in between any two statements
and a lost request leaves half of its work; documents sent to an index in whatever
order; and migrations that MySQL commits statement by statement.

What would make the components correct, in one line each:

* ledger - a key moves points once; balances are the sums of their entries;
* orders - a payment is disposed of exactly once, as the two status columns tell;
* stock - what was there, less what orders that were not cancelled took;
* products - movements explain every change of stock; the price range of a product is that of its variants;
* comments, uploads - a file belongs to one comment or is deleted, never both;
* rewards - one proof, one credit, and every proof gets a verdict;
* sellers, addresses - a seller has one approved application; exactly one default address;
* conversations - a message is stored and counted once, cursors only advance;
* follow, block - no follow survives between users of whom one blocks the other;
* authentication - a reset code works once, for its owner, until it expires;
* notifications - nobody is told on a device that is somebody else's, or what he does not want;
* migrations - every way through them ends in the designed schema, with the old values.

## 2. Modules

| Module | Models | How |
|---|---|---|
| `Sums` | - | the sum of a function over a finite set |
| `Database` | MySQL/InnoDB and TypeORM as the code uses them | row locks `locks[r]` as sets of `<<call, mode>>`, cycles of waits, the isolation level, and what `manager.save` writes: the columns in which an entity differs from what *save's own SELECT* reads. Shared by the modules with one statement per step |
| `WalletLedger` | `wallet-ledger.service.ts` as its callers see it | `balance[<<user, bucket>>]` is the `wallets` table, `operation[key]` a `wallet_operations` row with its entries. `ApplyOperation` and `ReverseOperation` are the two public methods; `releaseSellerPoints` is an `ApplyOperation` with `ReleaseEntries`. An error rolls back: no step |
| `WalletLedgerTx` | `applyOperation` statement by statement | one `pc` per concurrent call, row locks as sets of `<<call, mode>>`, a read view and the uncommitted rows per call; `Rollback` on errors, deadlocks and crashes. Maps to `WalletLedger` (`ImplementsLedger`) |
| `Orders` | `orders.service.ts` without cart and addresses | `order`, `refund`, `timeline` are the rows by order; `stock` and `moved` the variants and whether the order's `inventory_movements` rows exist; one action per handler but `editPurchase`, which is in `OrdersEdit`. Extends `WalletLedger` |
| `Escrow` | the promise | purses and deposits: a deposit is held, then disposed of once, in full. `Orders` implements it (`ImplementsEscrow`) |
| `Inventory` | the promise | stock and baskets: an order takes its whole basket from what is there, once, and gives it back at most once; `exact` says whether what is given back can get lost. `Orders` (`OrdersImplementInventory`) and `StockTx` (`ImplementsInventory`) implement it |
| `Inbox` | the promise | letters, cursors, how many letters wait, who was told: every call takes effect at once and at most once, and its answer is true. `Conversations` implements it (`ImplementsInbox`) |
| `OrdersEdit` | `Orders` with `editPurchase` | the entity between its read and its save is a variable |
| `StockTx` | the stock of variants under concurrent checkouts, cancellations, refusals and adjustments | each handler is a program of statements (`Program`); a call has a `pc` in it, row locks and a read view; `movements[v]` are the `inventory_movements` rows of a variant in the order of their commits. Maps to `Inventory`: a basket is taken, or given back, when its call commits |
| `Conversations` | `sendMessage`, `setReadMessage`, `ensureConversation` | statement by statement, with the shared locks that foreign keys take; `conversation[k]` is the row with its participants' cursors and counters, `pushed[u]` what user `u` was told by the gateway, in order. Maps to `Inbox`: a letter is a committed message |
| `Media` | `uploadCommentMedia`, `createComment`, `cleanupExpiredTemporaryMedia` | requests and cleaners step by step; `media` the rows, `stored` the objects of the storage, `comment` the comments with their files; `failures` counts errors of either and lost cleaners, `abandoned` remembers what a lost cleaner had claimed. No statement of it depends on the isolation level. A retry that overlaps its first attempt is answered `notAccess`, like a comment with somebody else's file. An upload gets an id that nobody knows before: no comment lists the file of an upload that is still on its way |
| `Rewards` | `addRewardProof`, `createRewardAppeal` | on top of `WalletLedger`: the row of a proof is saved, the external model is asked, and one transaction decides and pays; the request may be lost at each step. `RewardsImplementLedger` (proved): every step is one of the ledger or a stutter |
| `Shop` | addresses, applications, seller profiles, products, variants, the search index | what runs under the lock of the user's row is one action; `createProduct`, `update`, `remove`, the suspension of a seller and the synchronisation script are calls of several steps, `call[c]` what each is doing, and for a suspension what its read view shows (REPEATABLE READ, which the code leaves in place). Fresh ids are constants that say whose they are |
| `Schema`, `MigrationSteps`, `Migrations` | the 28 migrations | `Schema`: a catalog of names and what a clause needs, makes and drops. `MigrationSteps`: for each migration the sequence of its statements. `Migrations`: TypeORM's executor, processes that die in `up()` or `down()`, rows a constraint refuses, reverts, reverts that fail and are called again or passed over; `half` is what began and has not come to its end |
| `Requests` | the process that runs requests | a handler without a transaction as a sequence of statements: `pc[c]` and `answer[c]`; `before[c]` (history) which requests had ended when `c` began, to tell overlapping requests from others |
| `Relations` | `setUserBlock`, `setUserFollow` | the rows carry the request that inserted them (history) |
| `Accounts` | the account handlers and `setUserInfo` | `user[p]` is the row of the user with phone `p`, with the name and the avatar, which a request gives or leaves out; the three redis keys hold the request that set them, and may expire at any time |
| `Notices` | likes, notifications, preferences, devices, pushes | the push of a notification goes on after its request has been answered: `push[c]` |
| `Members` | `Relations`, `Accounts` and `Notices` in one process | the initial state picks the requests: a run's states are the sum of its workloads, not their product |
| `MC...` | - | instances for TLC |
| `WalletLedgerProofs`, `WalletLedgerTxProofs`, `OrdersProofs` (with `Rewards`), `StockTxProofs`, `ConversationsProofs`, `MediaProofs`, `ShopProofs`, `MembersProofs` | - | theorems |

Correspondences worth knowing:

* **One handler, one action.** Every handler of `Orders` but `editPurchase` runs in one
  transaction, locks the `orders` row first (or the variants, when there is no row
  yet), and decides under the lock. Checks it made before the transaction are
  repeated in it, except that the seller's profile is active: that check is part of
  the same atomic action here although a suspension could slip in between. No
  property depends on it. That one action may stand for the transaction is not taken for
  granted: `Orders` and `StockTx`, which runs the statements of the same handlers one by one, implement the same
  `Inventory`, and `WalletLedgerTx` implements the `WalletLedger` that `Orders` extends.
* **An order is its checkout.** `(buyer_id, checkout_idempotency_key)` is unique, so
  the pair identifies the order; a second `createOrder` returns the row it finds
  and is no step. The same pair with another request hash is refused, no step either.
* **Time** is a natural number; `ReturnWindow` and `ResponseWindow` stand for the 7 and
  3 days. The code compares strictly (`>`, `<`) and so does the model.
* **`total`** is `total_price`: the shipping fee is the constant `'0.000'` in `createOrder`,
  so `getOrderAmount` and `refund.amount` are the same amount. Prices vary freely
  (`Totals`), because sellers change them between checkouts.
* **Batches.** The worker's `LIMIT` takes rows by id, and the caller chooses it; the model allows any choice of at most `BatchLimit` rows.
* **Refund `accepted`** is set and overwritten by `completed` inside one transaction and never commits,
  except that it is not saved either when `acceptExpiredRefunds` skips an order.
* A lookup of a soft-deleted variant finds nothing, so cancelling or refusing an order of a removed
  product fails: `Contains(items) \subseteq listed` in `RestoreOrderStock`.

* **A request, its rows and its codes.** In `Requests` and what extends it, a row and a code are named after
  the request that made them: ids and random codes are distinct, and nothing else of them matters.
* **TypeORM's `save` of an entity that was read before** is two statements, its own SELECT and an UPDATE of the
  columns that differ (`LoadSetting`/`WriteSetting`, `LoadDevice`/`WriteDevice`, `Saved`); inside a
  transaction its SELECT reads the read view (`Database!Saved`, `Shop!SaveStatus`).
* **Column updates** (`UPDATE users SET ...` in `updatePassword`, `updateInfoAfterSignup`) are one statement.

Definitions commented "Mutant of X" are X with a plausible bug. No specification
uses them; substituting one for X in a run makes TLC report the property the
mutant is listed with in `PROJECT.json`, which shows that the property can fail.

## 3. Runs

| Run | Question | Bounds |
|---|---|---|
| `MCWalletLedgerTx` | Do locks keep concurrent calls apart under either isolation level; does every call end? Do calls under READ COMMITTED implement the atomic ledger? | three calls, five workloads: dependent and independent operations, the same key twice, the same key with another request; crashes at any statement |
| `MCWalletLedgerTxStale` | Are balances the sums of entries under MySQL's default, REPEATABLE READ? | the same; **violated**, see 5 |
| `MCOrders` | All safety properties of orders, and `ImplementsEscrow`; is every refund request answered, every delivered order settled? | two orders of one buyer from one seller: they compete for two units of stock, a purse of 5 points and one pending balance; prices 0, 2, 3; batches of up to two orders; both windows one tick, time 0..4; removals and suspensions at any time |
| `MCOrdersEditHolding` | Is an order in `holding` not disposed of, even with `editPurchase`'s stale save? | one edit, two orders, windows of length 0; **violated**, see 5 |
| `MCStockTx` | Is no unit sold twice; do the committed movements explain the stock (under READ COMMITTED)? Do the statements implement `Inventory`, exactly under READ COMMITTED, up to lost returns otherwise? | two variants, three calls, six workloads of checkouts, cancellations and adjustments; both isolation levels |
| `MCConversations` | One conversation per pair, a summary row that tells its messages, true answers, no deadlock of a reader? Is every call one step of `Inbox`? | three users, of whom two may have talked before; three calls, five workloads: first messages that cross, a message sent again, with another text or receiver, two read markers and a message, messages among three users, which can deadlock |
| `MCMedia` | Is a file in one comment or deleted, never both; does the clean-up catch up? | two users, three files that expire after one tick, two cleaners with batches of two, two requests, five workloads; one error of the storage or database, or one lost cleaner, at any step |
| `MCMigrations` | Does every way through the 28 migrations end in the designed schema; can a migration be started again; is no column lost whose values are carried over? | the whole sequence from an empty database; nine kinds of rows, eight of which one of the migrations refuses and one (root categories) its `down()`; any two of: such rows, a process that dies at any statement, a revert of any migration (a revert called again is not counted); 838 may stay half reverted while later migrations run |
| `MCRewards` | Is what is rewarded paid, once; is every proof decided; are balances the sums of entries, do reversals cancel, when rewards and other operations share the ledger? | two users, two proofs, four requests to the ledger under keys of their own, reversals up to the reversal of a reversal |
| `MCShop` | Do references to addresses stay whole, does a seller have one approved application, are price ranges exact, do searches agree? | a seller with two addresses, two applications, one product with two variants at two prices, two requests at a time, lost between any two steps |
| `MCShopStatus` | Does a seller whose suspension was answered OK stop selling? | the same; **violated**, see 5 |
| `MCMembers` | Do blocks end follows, codes work once, accounts keep what was set last, pushes go to whom wants them? | twelve workloads of four requests: three about two users' relations, six about an account, three about notifications; keys expire at any time; one request or push is lost |

Why the bounds are enough: two orders are the fewest that compete for stock, share a
pending balance, and fill a batch of two or overflow one of one; a third adds no
new pair of roles. Prices 2 and 3 against 5 points make both orders affordable only
together at the cheaper sum, and 0 tries the refused price. Windows of one tick
with four ticks reach: request before, at and after the deadline, response before,
at and after its deadline, and a release after a rejection. Three calls are the
fewest that have a deadlock of two with a bystander; the stale save needs three
(read view, a change, a change back). Three users are the fewest among whom sends
deadlock: two lock users for a first message, the third refers to both. One failure
is what each handler of `Media` is written for; with two cleaners and two comments every
pair of the roles that share a file is there. Two requests at a time are the fewest that
meet between two transactions of one product; a third would be a repetition of one of
them. Two mishaps of a migration are a death in its `up()`, or its revert, and what interrupts that. Four requests about one account are a code, its check and two more that share,
replace or spend it; about relations, a block and a follow in each direction and what ends them.

`Batches` and `MaxTime` bound the models: `BuyerConfirmReceived` is not taken so late
that its windows would outlast the clock; without this guard liveness would fail
only because the clock stops. `MaxEdits` bounds the calls of `editPurchase`. In `Media`,
`MaxTime` stops the clock and `MaxFailures` bounds errors; an error that gives a file back happens
while the file can still expire again, for otherwise liveness would fail only
because the clock stops. `MaxMishaps` bounds what goes wrong with the migrations. `PassedOver` names the migrations that may
stay half reverted while later ones run: 838, the one `down()` that looks before it alters and yet may be unable to end. What the ones that alter
without looking leave is repaired by hand, in whatever way.

### Fairness

* `WalletLedgerTx!FairSpec`: weak fairness of each call's next statement and of the choice of
  a deadlock victim. The database runs a statement whose locks are free and detects
  deadlocks at once; a crash ends its call. No fairness among waiters is needed.
* `Orders!FairSpec`: time passes, and a worker calls the two batch jobs again and again, which is
  what their comments say. Nothing is assumed of users: sellers need not answer.
  Nothing in the repository calls them yet; without that assumption neither property holds.
* `Rewards!FairRewardsSpec`: a request that is not lost goes on. It is an HTTP call with an end, if an error;
  `ProofsAreDecided` leaves out the proofs whose request was lost, which stay `processing`.
* `Media!FairSpec`: some statement of the requests, and of the cleaners, is executed whenever one
  can be, and time passes. `setInterval` begins a clean-up again and again, also after a
  restart (`onModuleInit`). `CleanUpCatchesUp` leaves out files whose cleaner was lost between the
  claim and the end: they stay `deleting`, and no clean-up looks for that status.
* `StockTx`, `Conversations`, `Shop`, `Members` and `Migrations` are checked for safety only.

## 4. Proofs

Every theorem is for all values of the constants that satisfy the assumptions named in the modules that declare
them (`LedgerAssumption`, `TxAssumption`, `OrderAssumption`, `RewardsAssumption`, `StockAssumption`, `ConversationAssumption`,
`MediaAssumption`, `ShopAssumption`, `RequestsAssumption`, `AccountsAssumption`, `WorkloadsAssumption`; TLC evaluates each
in a run): any number of users, rows, requests at a time and failures, not those of section 3. What the assumptions say of requests is
what their validation lets through (a checkout asks for at least one unit, nobody writes to himself), and of ids that
they are distinct. `ShopAssumption` takes a finite set of prices, which a decimal column is.

| Module | Theorem | Property or statement |
|---|---|---|
| `WalletLedgerProofs` | `LedgerTyping`, `LedgerReversals`, `LedgerAppends`, `PointsFollowLedger`, `LedgerBalances` | `LedgerTypeOK`, `ReversalsCancel`, `LedgerIsAppendOnly`, `PointsMoveWithOperation`, `BalancesMatchEntries` |
| `WalletLedgerTxProofs` | `TransactionsTyping`, `KeysAreAppliedOnce`, `TransactionsImplementLedger`, `CommittedBalances` | `TypeOK`, `AppliedOnce`, `ImplementsLedger`; `BalancesMatchEntries` under READ COMMITTED |
| `OrdersProofs` | `OrdersTyping`, `OrdersSettleOnce`, `RefundsAndSettlements`, `SettledOrdersAreFinal`, `ReleasesAreOnTime`, `OrdersLeaveTraces`, `WalletsTellTheOrders`, `OrdersImplementEscrow`, `OrdersKeepInventory` | `TypeOK`, `SettledOnce`, `RefundsAndSettlementsAgree`, `SettledIsFinal`, `ReleasedOnTime`, `TracesFollowOrders`, `WalletsFollowOrders`, `ImplementsEscrow`, `OrdersImplementInventory` |
| | `RewardsTyping`, `RewardsArePaid`, `RewardsImplementLedger` | `RewardsTypeOK`, `RewardedIsPaid`; `Rewards` implements `WalletLedger` |
| `StockTxProofs` | `StockTyping`, `NothingIsOversold`, `HistoriesExplainStock`, `TransactionsImplementInventory` | `TypeOK`, `NothingOversold`, `CommittedHistoryExplainsStock`, `ImplementsInventory` |
| `ConversationsProofs` | `ConversationsTyping`, `ConversationsStayExact`, `MessagesAreSentOnce`, `ReadersStayOutOfDeadlocks`, `CursorsOnlyAdvance`, `ConversationsImplementInbox` | `TypeOK`, `ConversationsAreExact`, `SentOnce`, `ReadersNeverDeadlock`, `CursorsAdvance`, `ImplementsInbox` |
| `MediaProofs` | `MediaTyping`, `FilesAreShownOnce`, `CommentAnswersAreTrue`, `NoCommentDeadlocks`, `AttachedStaysAttached` | `TypeOK`, `ShownOnce`, `AnswersAreTrue`, `CommentsNeverDeadlock`, `AttachedIsKept` |
| `ShopProofs` | `ShopTyping`, `KeptAddresses`, `ApprovedSellers`, `ExactPriceRanges`, `SearchesAnswerAlike` | `TypeOK`, `AddressesAreKept`, `SellersAreApproved`, `PriceRangeIsExact`, `SearchesAgree` |
| `MembersProofs` | `MembersTyping`, `BlocksEndFollows`, `CodesAreUsedOnce`, `AccountsStayKept`, `OnlyWantedArePushed` | `TypeOK`, `FollowsEndWithBlocks`, `CodesWorkOnce`, `AccountsAreKept`, `PushesAreWanted` |

### The arguments

**Sums** (`WalletLedgerProofs`). The fold of the community modules is a recursive function; that it exists, and that the order of
summing does not matter, is induction on the set. Induction theorems take an operator, so each lemma looks for a smallest
counterexample instead, which is a set (`LeastSet`, from the well-foundedness of strict inclusion).

**The ledger** (`WalletLedgerProofs`). `Post` guards every change of balances, so typing is inductive by itself;
the reversal property needs that reversal keys are distinct from each other and from the keys callers choose. `LedgerBalances`
needs that only finitely many operations are recorded (`LedgerBalanced`), whatever set `Keys` is.

**Its transactions** (`WalletLedgerTxProofs`): two-phase locking. A call that has passed its check owns its key's row until it ends, so the
key stays free (`KeyOwned`); a call that saves owns its wallets, so what it has computed from them is still
right at its commit (`WalletsOwned`, `SavedExactly`). Each commit is then one `ApplyOperation` of the ledger and every other
step a stutter. Only `SavedExactly` needs READ COMMITTED: finding 1 is what happens without it. `AppliedOnce` holds under either level.

**Orders.** The inductive invariant `IInv` is the conjunction of the type invariant with facts per order. `SettledOnce`
alone is not inductive: that a release does not follow a refund settlement needs the link between `refunds` and
`settlement_status` (`RefundFollowsOrder`); that a refund request does not reopen a released order needs `now > return_deadline`
for released orders (`SettlementFollowsStatus`), the one fact `refundOrder` relies on without looking at it. There is one
lemma per handler: it leaves other orders alone and re-establishes the facts for its own. `OrdersLeaveTraces` adds that
exactly the orders that were not cancelled are `deducted` (`TakenAddsUp`). For `WalletsTellTheOrders` a balance is the sum,
over all orders, of what each order's row says it has put there (`Share`), and each step changes the shares of its orders by
the entries it posts (`SharesStep`, for one order or a batch). In `OrdersImplementEscrow` batch steps map to
`Dispose(S, state)`, compared account by account; a single settlement is the singleton batch.
In `OrdersKeepInventory` only checkouts, cancellations and refusals are steps of the inventory; that `returned` baskets are those of cancelled
orders needs `TracesInv`. `OrdersImplementInventory` is no property of a run, because a step of `MCOrders` that breaks it also breaks
`TracesFollowOrders`.

**Rewards.** `RewardedIsPaid` needs that a proof whose request still runs is in `processing` (`OpenIsProcessing`), so
that its operation has not been recorded, and that no other operation uses its key.

**Stock** (`StockTxProofs`). `StockInv` follows each call through its program: what it has locked, what its read view shows of it and
what it will commit. A locked variant keeps its stock until its holder commits, so the movement that the holder has
computed begins with the stock that is there, and adding it continues the history (`OneMore`). Under REPEATABLE READ a
save may leave the old stock in place; then the movement left more than there is, never less, so `NothingOversold` is
a chain of bounds. That a chain is a chain of neighbours rather than a sum is what makes it inductive: nothing
is said of a whole history at once. For `TransactionsImplementInventory` every commit is one step of `Inventory`: a checkout finds every variant
it has locked as it read it, so it takes the whole basket from what is there; whoever cancels or refuses an order holds its row, and restore
movements exist only for cancelled orders, so a basket is given back once, even if one of the two did not hold: the unique key of
the movement would refuse the second. Units get lost on the way back only under REPEATABLE READ.

**Conversations** (`ConversationsProofs`). Who holds what: whoever creates a conversation holds the rows of both users, so nobody else
creates one for them (`Creates`); whoever has inserted a message holds its conversation and its key, so its id is the
newest there until it commits (`ConversationHeld`, `KeyHeld`, `Numbered`); whoever has counted what is unread holds what was counted
(`Counted`). A participant's row is only locked under its conversation's lock (`LockOrder`): a reader that waits holds nothing that
anybody waits for, so no cycle of waits contains one.
`ConversationsImplementInbox` puts these together: whatever a call has read, without a lock or from a read view, is still so at its commit
when the answer depends on it (`ViewsOK`), so the call could have run at that moment alone. `CursorsAdvance` follows from it, as
`PointsMoveWithOperation` follows from `ImplementsLedger`; both are proved and in no run of their own.

**Comments and files** (`MediaProofs`). `MediaInv` says who may change a row of `media_assets`: the call that writes a comment holds the rows
of its files from `lockMedia` to its commit, so they stay temporary and its own (`Ready`); a row that is `deleting` is in the
hands of one cleaner, or of none when that was lost (`CleanerOK`, `FilesOK`), and the conditional `UPDATE` of a claim only takes temporary rows
that nobody has locked; the row of an upload is not there before it is inserted (`Fresh`). The key's row is held by whoever
commits under it (`KeyIsFree`), so a key has one comment. For deadlocks: the holder of a key commits and waits for nobody; any other wait is for a file whose id
is higher than the ids of all files the waiting call holds (`InOrder`), so ids rise along waits (`WaitsRise`). A minimal circle of waits would
contain a smaller one, of those who wait for more than one of them does. `MediaTyping` needs that no error gives a file
back for longer than an upload has (`Bounded`). Why access was refused (`Refusals`, in
`CommentAnswersAreTrue`): a file that a request names is its uploader's and lives for `Ttl` at least, so only one that has expired gets into a
cleaner's hands (`Standing`); whoever finds a file it cannot use has found somebody else's, one that has expired, or one that a comment
shows; and each of these stays so (`BarredStays`).

**Shop.** Its halves are separate arguments: no product request changes an address or a profile. The types need that the least and the
greatest price are taken of variants that are for sale and have one. `PriceRangeIsExact` needs
only that a product that is not there yet has no variants: the transaction of `UpdateProduct` computes the range from the rows it
locks, and `RemoveVariants` leaves none to compare with. `SearchesAgree`: the index keeps one document per product (`OneDocument`), ranges are exact, and
the least and the greatest price of a product are prices of variants (`LeastNumber`, `GreatestNumber`), so both searches
look at the same two numbers.

**Requests without locks** (`MembersProofs`): arguments about time. What ended before a request has ended (`Clock`). A block that exists while a
follow is on its way came after that follow's check, so the two overlap (`FollowsOnTheirWay`), and once a block has deleted one direction,
follows of that direction come only from requests it overlaps (`BlockedFollows`). A code, and a verification, is set by its own request,
which is then over: once it is overwritten, spent or gone it never comes back (`Overwritten`, `Used`, `Spent`), whoever
has passed a check of it did so before (`Fresh`, `Grants`), and two that both passed must have overlapped. A password or an avatar
that was given by a request which overlapped no other writer stays until the next one begins (`Passwords`, `Avatars`: also what a request that gives no avatar has
read in the meantime is that avatar). A push reads preferences and devices after its request began, so what ended before that
request, and overlapped no other, is what it finds (`Settings`, `Registered`, `Pushes`).

### What is only model-checked

* All liveness (`EveryCallEnds`, `RefundsAreAnswered`, `DeliveredIsSettled`, `CleanUpCatchesUp`, `ProofsAreDecided`): fairness and `ENABLED` are outside the prover.
* `Migrations` (`UpgradeMeetsDesign`, `GuardedMigrationsResume`, `LegacyValuesAreKept`): what a sequence of 28 migrations makes of a catalog is computed by folding over
  them. The instance is the program itself: the statements are constants of the repository, so the run covers all of them, for any two of: rows that are refused, a death, a revert.
* The three properties that the runs find violated.

Every other invariant and action property of a run is proved, and so are the type invariants, which are in no run's list: every property
that is there depends on the types already.

## 5. What the runs found

1. **Lost balance update** (`MCWalletLedgerTxStale`, `wallet-ledger.service.ts:166`). `manager.save` reads the row again
   with a plain SELECT and writes the columns that differ. The read view was taken by the
   SELECT of existing entries, before `FOR UPDATE` on the wallets. If another operation changed
   the balance in between and this one changes it back, the column is not written:
   the operation is `completed`, its entry recorded, the balance unchanged.
2. **Stale save of a whole order** (`MCOrdersEditHolding`, `orders.service.ts:1340`). `editPurchase`
   reads, awaits, and saves the whole entity. A cancellation in between is undone on
   the `orders` row but not in the ledger: the order is in `holding` again, and can be
   refunded or released a second time, under another key, at the expense of what the
   seller's pending balance holds for others.
3. **A suspension that is answered and not written** (`MCShopStatus`, `sellers.service.ts:341`). The same mechanism as 1: the read view
   is taken by the look at the administrator, before the seller's row is locked. If the profile was suspended in that view and another
   administrator has activated it since, `save` finds nothing to write: the answer is `OK` and `suspended`, the profile stays `active`, and
   the seller may go on offering products, which `docs/database_schema.dbml:901` and `:433` exclude.

What the models show besides, and what properties therefore leave out, always in their comments:

* nothing calls `acceptExpiredRefunds` and `releaseDueSellerPoints` (`orders.service.ts:1932`, `:2009`): the liveness of orders holds for a worker that does;
* a cancellation or refusal can lose restored stock like 1, under REPEATABLE READ (`orders.service.ts:182`): `CommittedHistoryExplainsStock` is claimed
  for READ COMMITTED;
* a comment sent again during its first attempt is refused (`notAccess`) instead of answered with the old one (`product-comments.service.ts:342`), although
  `docs/database_schema.dbml:572` promises that one: it looks for the key before it locks the files. `AnswersAreTrue` says when access is refused at
  all: a file is somebody else's, has had the time to expire, or is in a comment - which is the caller's own in this case;
* a proof whose request was lost stays `processing` (`rewards.service.ts:190`), a file whose cleaner was lost stays `deleting` (`upload.service.ts:211`): nothing takes them up;
* a product may ship from an address that was deleted after it was checked; a removal that is lost after its first transaction leaves a product
  without variants, and its retry finishes it (`products.service.ts:584`);
* a migration that dies while `ConvertUserIdentityIdsToBigint` holds dropped foreign keys in memory loses them (`:39`), up or down: references to
  users' ids stay unenforced, and their columns may stay INT (`Lost`);
* the ten migrations in `Unguarded`, and the nine `down()` in `UnguardedDown`, need repair by hand once half done;
* `down()` of 838 cannot end when there is a root category: it gives it the parent 0 (`1784913423838-...:338`), which the key
  it restores refuses. 838 stays recorded, so the next `migration:run` passes it over and completes without the keys (and, where
  they were narrowed, with INT columns) that it was to restore (`Lost`);
* `down()` of 823 looks for its column only (`:20`): if it died before it added the foreign key, the next call returns at once, the migration counts as reverted, and
  `up()`, which drops that key by name, is stuck;
* if a migration is half done and the one before it is reverted instead, that `down()` meets objects it does not expect and can be stuck: `GuardedMigrationsResume`
  speaks of the migration that was half done only;
* `notifications.product_id` is lost (`1784913423832-...:112`): `COALESCE(target_id, object_id, product_id)` takes it only where there is no `object_id`, which
  is `NOT NULL`, and `:178` drops the column. It is therefore not among `Carried`;
* a block that is lost between its row and its deletes leaves the follows, and its retry is answered `ACTION_DONE_PREVIOUSLY`; a follow that
  overlaps the block can remain after both were answered (`blocks.service.ts:108`, `follow.service.ts:129`); a follow that meets the unique index is answered
  with an exception, because the code looks for another database's error code (`23505`);
* a log-in that hashes an old password can overwrite a reset that overlaps it (`auth.service.ts:177`); one reset code can pass two checks, or
  a verification two resets, if these overlap (`:285`, `:335`);
* two preferences saved at the same time can lose one (`push-settings.service.ts:80`); likes and rates can be doubled: their tables lack the unique
  indexes that `docs/database_schema.dbml:612` and `:628` name.

What trying variations of the code in the models showed of parts that are not fragile: in `Media`, a
comment that did not lock its files would still not attach a deleted one (the check of
`affected` refuses it, with the wrong answer), nor would one meet a file that is being deleted
if the claim did not mark it (it has expired); in `WalletLedgerTx` the deadlock on a key's row is real but
always leaves the winner able to finish; in `Conversations` readers are in no deadlock,
because they lock what senders lock, in the same order.

## 6. Not modelled

* *Cart*: a row per user and variant that only its user's requests read and write. `addCart` and `editCart` read and
  save it without a lock, so two additions at the same time can lose one; no other part reads it, and
  `createOrder` is given its items by the request.
* *Rates, reports*: a row is inserted after checks that change nothing, and no other part reads it.
* *Wallet queries, news, lists, ship queries, saved searches*: reads (a missing wallet is inserted by a query, but signing up has inserted one).
* *HTTP shell, configuration*: no state of the system. The ranking of Elasticsearch and the delivery of Firebase are external;
  texts and hashes are reduced to equality, the pictures and videos to their names.
* Within the modules above: `uploadFile` keeps no row; who is connected to the gateway; whether users block each other or are active, and whether an
  author received the product, are open answers of `Conversations` and `Media`; notifications of orders and rewards differ from those of
  likes and comments in text and caller; `reverseOperation` and `releaseSellerPoints` are atomic
  everywhere, only `applyOperation` is split into statements; the initial stock of a new variant.

What could follow: the cart and rates on `Requests`; the orders of `OrdersEdit` once `editPurchase` locks what it saves.
