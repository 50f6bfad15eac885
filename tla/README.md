# TLA+ models of the mall

This directory holds the specifications of those parts of the mall backend in which money, stock, coupons, points,
codes and sessions change hands while several requests and jobs are under way. Its core is the path of an order: stock,
coupon and points at checkout, payment, refund, notification of the merchant, cancellation, after-sale. Around it stand
smaller modules for wallet, brokerage, transfers, coupons, SMS codes, sessions, scheduled jobs, sign-in, promoters,
prices, product stock and cart. TLC checks every module on small instances; TLAPS proves every safety property of the
passing runs for all instances, the refinements of the refund ledger and of the pay order's row among them; the four
liveness properties are model-checked.
Everything is translated from the Go code; where a document or a comment says something else, the difference is recorded
as a finding.

1. [The system](#1-the-system) 2. [How the code is modelled](#2-how-the-code-is-modelled)
3. [The modules](#3-the-modules) 4. [The runs](#4-the-runs) 5. [Findings](#5-findings) 6. [Fairness](#6-fairness)
7. [The proofs](#7-the-proofs) 8. [What is not modelled](#8-what-is-not-modelled) 9. [The plan](#9-the-plan)

## 1. The system

The code is a Go port of the ruoyi-vue-pro mall: stateless HTTP handlers (`internal/api`) over services
(`internal/service`), in one or more server processes that share one PostgreSQL database, used at its default
isolation level READ COMMITTED, and one Redis. Scheduled jobs run in the same processes: `executeJob`
(`internal/service/infra/scheduler.go`) starts a run whether or not the previous one has ended, on every server, each
with a context of five minutes, and `TriggerJob` starts more by hand. No state of the core lives in memory between two
requests. What makes it hard is therefore what other requests, jobs, callbacks and crashes do between two statements.

| component | state | operations that change it | hard behaviour | what must hold |
|---|---|---|---|---|
| Pay order (`service/pay/order.go`) | `pay_order`, `pay_order_extension` | create, submit, channel notification, active query, sync job, expire job, price change | callbacks repeated, late, racing queries, the job and a second submission; two row locks taken in two orders | one payment accepted, recorded once in extension, order and task; final statuses stay; no order waits for ever |
| Refunds (`service/pay/refund.go`) | `pay_refund`, `pay_order.refund_price` | create, notification, sync job | two refunds of one order; the call to the channel lost on either side; query racing the creation | never more refunded than paid; the sum is exact; a FAILURE was not refunded; nothing blocks for ever |
| Merchant notification (`service/pay/notify.go`, `notify_lock.go`) | `pay_notify_task`, `pay_notify_log`, a Redis key per task | create, list, lock, request, record, release | overlapping runs over a stale list; crash between request and record; a lock that expires | SUCCESS was delivered; attempts, log and counter agree; finished tasks rest; every task ends |
| Trade order (`service/mall/trade/order_update.go`, `order_processors.go`) | `trade_order`, items | create, pay, cancel, change price, deliver, receive, pick up, delete | payment against cancellation; a price change with two commits | a paid order keeps its stock; what is given back is given back once; the price is that of the pay order |
| Checkout and paid cancellation (`order_update.go`, `order_processors.go`) | stock, coupon, points, refunds of several orders | `CreateOrder`, cancellation, `CancelPaidOrder`, `UpdatePaidOrderRefunded` | rows locked one after the other; one coupon for two orders; several connections without a common transaction | nothing oversold; every unit accounted for; a coupon serves one order; cancelled only with a refund |
| After-sale (`service/mall/trade/after_sale.go`) | `trade_after_sale`, `after_sale_status` of the items, `refund_price` of the order | apply, cancel, agree, disagree, deliver, receive, refuse, refund, complete | two decisions at once; refund asked between read and write; repeated notifications; two completions at once | an item refunded at most once, only when agreed; counted at most once |
| Price adjustment (`UpdateOrderPrice`) | prices of order, items, pay order | adjust | a second adjustment behind the lock; rounding | the items add up to the order |
| Price calculation (`trade/price_service.go`, `calculators/`) | none: a pipeline | seven calculators | amounts split over lines, rounding, the same SKU on two lines | the parts add up; one saving per line; every grant arrives |
| Wallet and recharges (`service/pay/wallet`) | balance, frozen balance, transactions, recharges, a Redis key | recharge, pay, freeze, refund, adjust, create | check before update; recharge paid and balance added in two transactions; a lock that expires | the balance is explained by the transactions; a recharge credits once; one wallet |
| Transfers (`service/pay/transfer.go`) | `pay_transfer` | send again, notification, sync | an unknown answer sent again under the same number | what the channel paid is recorded, an end announced once for each attempt |
| Brokerage (`trade/brokerage/record.go`, `withdraw.go`, `user.go`) | records, withdrawals, two balances, who promotes whom | unfreeze, withdraw, audit, bind | record and balance written one after the other; two audits; a walk up a chain of rows | the balances are explained; a withdrawal ends one way; no cycle of promoters |
| Product stock (`product/sku.go`, `spu.go`) | stock and sales per SKU and their sum | reserve, give back, replace, delete, rename a property | rows read and written back while orders reserve | the sum is the sum; stock never negative |
| Coupons (`promotion/coupon.go`, `coupon_user.go`) | templates and coupons | take, give, use, return, expire, delete | limits checked before the transaction | every coupon counted, every use has its order |
| Cart (`trade/cart.go`) | rows of one member | add, count, change, delete, reset | read and write in two statements, no unique index | no row is lost or empty while requests do not overlap |
| Scheduler (`infra/infra_job.go`, `scheduler.go`) | `infra_job`, the tasks of the process | create, change, pause, delete, synchronise, restart | row committed before the task follows | what runs is what the rows say, or is owed |
| Sign-in, points, levels (`service/member`) | records, points, experience | sign in | check before the transaction; three connections | a second reward of a day needs a request that overlaps the first, or a failed look; points and experience have a record or a fault |
| SMS codes, sessions (`system/sms_code.go`, `oauth2_token.go`) | Redis keys | send, use; login, refresh, logout | slow messages, guesses and refreshes side by side | a code is the latest and guessed once; a session has one successor and ends |
| Seckill, bargain, group, point activities (`promotion/*`) | activities and records | administrative; group expiry | refused by `CreateOrder` or without a caller | - |
| Administration, tenants, permission, middleware, files, logs, code generation, statistics, WebSocket, IoT, handlers | records, caches, sessions | record keeping, I/O | little | - |

How they interact: creating a trade order prices the basket (`PriceCalculation`), reserves stock, coupon and points and
creates a pay order, all in one transaction. The member submits the pay order to a channel; the channel's result reaches
`NotifyOrder` by callback, query or the sync job; it commits extension, order and a notification task together. The
notification job calls the merchant, which is this server itself: `UpdateOrderPaid` for payments,
`UpdateAfterSaleRefunded` for refunds, the wallet for recharges, the brokerage for transfers. The trade module calls
back into the pay module: `ValidateOrderActuallyPaid` before a cancellation, `UpdatePayOrderPrice` inside a price
change, `CreateRefund` for an agreed after-sale or a paid cancellation.

```
  PriceCalculation, Cart --> Checkout (stock, coupon, points) ---> TradeOrder ... ProductStock, Coupon: the same rows,
                                                                                  with their other writers
  TradeOrder --- create, price ---> PayRow <== implemented by == PayOrder --- task ---> PayNotify
             <-- UpdateOrderPaid --
  AfterSale  --- Reserve ---> RefundLedger <== implemented by == PayRefund --- task ---> PayNotify
             <-- Settle/Release --
  Wallet, Brokerage, Transfer: their own rows; paid, refunded and announced through the same tasks
```

## 2. How the code is modelled

* A request or one run of a job is a *process*. What it holds between two statements is the record `local[p]`: `pc`
  names the next statement, the other fields are the Go variables that later statements use.
* A statement of the database is one step. A read sees what is committed. A write inside a transaction takes the row's
  lock until the transaction ends; what is written and not yet committed is in `local`, and the row changes in the step
  that commits. Row locks are not variables but functions of `local` (`ExtensionFree`, `OrderFree`, `RefundFree`,
  `ItemFree`): a row is locked exactly while some process stands between the write and the commit.
* A guarded update (`UPDATE ... WHERE id = ? AND status = ?`) waits for the lock and compares with what is committed
  then, as PostgreSQL does under READ COMMITTED. An update by id has no such guard, and none is added.
* The whole handler is modelled, its early returns included: a status that does not fit leads to `Idle` with nothing
  changed, as the rollback does.
* `Fail(p)` is a failing statement, a cancelled context or the death of the process: the open transaction is rolled
  back, what was committed before stays. `DeadlockVictim` is the database's choice between two transactions that wait
  for each other. `MaxFaults` bounds all of these together; it exists for TLC, and the proofs hold for any value.
* Channels keep a record of their own (`channel`), so that properties can compare what the channel did with what
  the database says. Callbacks need no message buffer: they may be made by the channel at any time once it has decided,
  repeatedly, in any order or never, which covers loss, duplication, delay and reordering.
* A handler that opens no transaction, or passes its callees a context without it, commits statement by statement
  (`Wallet`, `Brokerage`, `Cart`, `CancelPaidOrder` in `Checkout`): each of its steps is a step of the model, and a fault
  leaves behind what was committed.
* What a script of Redis does is one step; a key with a time to live may go at any time, where the code's own timing
  does not exclude it.
* Data the properties do not tell apart is dropped: names, addresses, logs, the payload of a request, the tenant.

Definitions marked *Mutant* in a comment are not used by the specifications. Each is the form a definition beside
it would have after a plausible slip (a dropped condition, an off-by-one, a missing task), and replacing the one by the
other makes TLC find the property named with it in `PROJECT.json` violated: it shows that the property watches the code.

## 3. The modules

| module | models | checked and proved in |
|---|---|---|
| `PayOrder` | one pay order, its extensions, requests and the expire job | `MCPayOrder`, `PayOrderProofs` |
| `PayRow` | abstract: the row of a pay order, each operation atomic | instantiated by `PayOrder`, `TradeOrder` |
| `RefundLedger` | abstract: reserve, settle and release refunds atomically | instantiated by `PayRefund`, `AfterSale` |
| `PayRefund` | the refunds of one pay order, WeChat and Alipay | `MCPayRefund`, `PayRefundProofs` |
| `PayNotify` | runs of the notification job over their tasks | `MCPayNotify`, `PayNotifyProofs` |
| `TradeOrder` | one trade order and the status and price of its pay order | `MCTradeOrder`, `TradeOrderProofs` |
| `AfterSale` | the after-sales of one order, over `RefundLedger` | `MCAfterSale`, `AfterSaleProofs` |
| `Checkout` | stock, coupon and points of several orders: created, cancelled unpaid, cancelled paid | `MCCheckout`, `CheckoutProofs` |
| `Scheduling` | the rows of `infra_job` and the tasks of the process | `MCServices`, `ServicesProofs` |
| `Wallet`, `WalletCreation` | one wallet; the creation of a wallet under its Redis lock | `MCServices`, `ServicesProofs` |
| `Brokerage`, `Promoters` | one member's brokerage; who is bound to whom | `MCServices`, `ServicesProofs` |
| `Transfer` | one WeChat transfer and its channel | `MCServices`, `MCTransfer`, `ServicesProofs` |
| `Coupon` | the coupons of one template | `MCServices`, `ServicesProofs` |
| `SmsCode`, `Session` | the codes of one mobile; the sessions of one user | `MCServices`, `ServicesProofs` |
| `SignIn` | the daily sign-in of one member | `MCServices`, `ServicesProofs` |
| `PriceCalculation` | the price of a basket | `MCServices`, `CheckoutProofs` |
| `PriceAdjustment` | the adjustment of an unpaid order | `MCServices`, `ServicesProofs` |
| `ProductStock` | the stock of one product and its editors | `MCServices`, `ServicesProofs` |
| `Cart` | the cart of one member | `MCServices`, `TradeOrderProofs` |
| `SumTheorems` | no code: the lemmas on sums over finite sets that the proofs share | extended by `PayRefundProofs`, `AfterSaleProofs`, `CheckoutProofs`, `TradeOrderProofs`, `ServicesProofs` |

`MCServices` extends the small modules. They share no state, so its variable `active` picks one at the start, and the
others rest in their initial states: one run checks them all without multiplying their state spaces.

### PayOrder

`order` is the row (`ext` is `extension_id`), `ext[e]` the status of the e-th extension. `Submit*` are the statements of
`SubmitOrder`: validation reads the price, the extension is inserted outside of any transaction, the channel is called
with the price read before. `SubmitRefused` is the WeChat client, which turns an error of the call into a CLOSED answer
whether or not the channel has taken the order. `ReadExtension` to `UpdateOrderClosed` are `NotifyOrder`; `msg` is the
status notified. `SyncOrder` and `ValidateOrderActuallyPaid` are the active queries, which ignore CLOSED. `Expire*` are
`ExpireOrder`: find, close the order by id, close the extensions found waiting one lock after the other, commit.
`RepriceRead` and `RepriceUpdate` are `UpdatePayOrderPrice`. The sync job that finds extensions by age is `SyncOrder` at
any time. `UpdateOrderRefundPrice` is here with the status it writes; the sum it writes belongs to `PayRefund`.

`PayRow` is what the trade order may rely on: the row waits, is paid once, may be refunded, and ends closed, and a price
change may still reach it. It lets `Close` and `Reprice` come at any time, because `ExpireOrder` and
`UpdatePayOrderPrice` write by id (finding 1): that an order was paid is told by `extension_id` (`paid`), not by the
status. The refinement mapping `Row` takes status, price and whether `extension_id` is set; `ImplementsRow` is `PayRow`
as a property.

### RefundLedger and PayRefund

`RefundLedger` is what a caller may rely on: at most one refund of an order is pending, it fits in what is left of the
price, and it ends refunded or released. `PayRefund` has the code's steps: validation without a lock, the order's lock
and the second validation, the insert, the call to the channel, the notification transaction with its compare-and-set
of `refund_price`, the sync job. `protocol` is the channel: WeChat processes later and calls back; Alipay answers
at once, never calls back, and answers a query for a refund it does not know without an amount, which is taken for a
failure if the answer names the refund and is refused otherwise (`UnknownRefund`). The refinement mapping
(`Ledger`) takes status and price of each row; `ImplementsLedger` is the abstract specification as a property.

### PayNotify

A worker is one run of `payNotifyJob`. `ListTasks` reads the due tasks once; `seen` keeps the counters the list showed.
`TryLock` is the SETNX, `Reread` the comparison of the counters under the lock, `InvokeNotify` the HTTP request,
`Record` the transaction that writes task and log, `Unlock` the compare-and-delete. A crash leaves the key in Redis until
`LockExpires`. `MayStall` says whether a live worker may outlast the TTL of 120 s: it is FALSE in the run and in the
properties that say so, and the proofs of SUCCESS and FAILURE hold for both values. The times of `next_notify_time` are
abstracted to `due`.

### TradeOrder

`order` is the row; `pay` is the row of its pay order, a `PayRow` (`PaySide`): the order creates and reprices it, and
`PayOrderChanges` is what the pay service does to it meanwhile, up to a refund and to the closing of a paid row;
`released` counts how often stock, coupon and points were given back; `gone` says that the order's coupon or a SKU has
been deleted, which makes `GiveBack`, and with it every cancellation, fail for good. Three operations meet: `CancelUnpaidOrder`
(member and job), which asks the pay service and goes on even if the question fails; `UpdateOrderPaid`, whose callers
promise nothing; and `UpdateOrderPrice`, the only one that keeps the row locked over another statement, the pay service's
own commit. `DeliveryOrder` and `PickUpOrder` write by id, whatever the status.

### AfterSale

`as[a]` is a row, `item[i]` the item's `after_sale_status`. Each decision reads a status and later updates on condition
that it is still there (`Decide`, `UpdateAfterSale`). `RefundAfterSale` asks `RefundLedger` (`Pay!Reserve`) under the
after-sale's own id. The channel's side is `RefundSettles`. `UpdateAfterSaleRefunded` runs for every delivery of the
notification, by the process `Notifier`, and at once for a refund of nothing. Its transaction reads the order's
`refund_price`, then the other items, and commits, which is why three steps are needed (`CasComplete`, `ReadItems`,
`CommitComplete`).

### Checkout

The goods, the member's one coupon and the points, with all orders that compete for them. `CalculatePrice` looks at
coupon and points before the transaction; `TakeSku` is `UpdateSkuStock`, which locks one row after the other; the effects
appear in `CommitCreate`. `Cancel*` and `GiveBackSku` are `cancelUnpaidOrder`, one transaction. `CancelPaid*`,
`ReturnSku`, `CommitStock`, `ReturnCoupon`, `ReturnPoint` and `CreateRefund` are `CancelPaidOrder`: it opens a
transaction for the order's row and hands its processors a context without it, so that each of them commits for itself
while that row is locked. `torn` is a history variable: how far each cancellation that was cut off had come. The
properties use it to say exactly what is then given back too often. `UpdatePaidOrderRefunded` validates and changes
nothing. The payment (`Pay`), `Deliver` and `Receive` are those of `TradeOrder`, in one step each.

### Wallet and WalletCreation

`Wallet` has the row, the number of transactions per recharge (`txn`) and the requests: `UpdateWalletRechargerPaid`
(`RechargePaid*`, then `AddBalance` and `CreateWalletTransaction`), `RefundWalletRecharge` (`RefundRechargeRead`,
`FreezePrice`, `AskRefund`, `NoteRefund`), `UpdateWalletRechargeRefunded` (`RefundedRead` to `WriteRefundStatus`), and the
administrator's `UpdateWalletBalance`. Every statement commits by itself. The two reports take their ids from whoever
calls: any pay order that is SUCCESS serves for any recharge, so that the report of a payment may come at any time, and
the end of a refund may be reported by several requests at once and again and again, since no status of the recharge is
looked at. `settled` has the refunds whose end has moved the wallet, `resettled` counts the reports that moved it once
more. How a pay refund ends is decided elsewhere (`PayRefund`) and free here.

`WalletCreation` is `GetOrCreateWallet`: look, SETNX, look again, insert, DEL. The row has no unique index, the key lives
five seconds (`KeyExpires`) and is deleted whosever it is. `overdue` counts the keys that expired under a holder still at
work, `failed` the failures and deaths; they are the price of each extra wallet.

### Brokerage and Promoters

`Brokerage` has one member's account, the records of the earnings and the withdrawals. `AddRecords`/`Credit` are
`addBrokerageForLevel`, `Unfreeze*`/`MoveFrozen` the job, `CreateWithdraw` to `CommitWithdraw` the request, `Audit*` to
`RecordBack` the audit. What is frozen for a withdrawal is never released, as in the code. `Promoters` has the rows
`bind_user_id`; `LookPromoter` and `WalkUp` read the chain one row at a time, `BindUser` writes. `stale` and `raced`
record that a row changed after a walk had read it. `MaxHops` stands for the 32767 rows the code walks at most; the run
has no more members than hops, and so has the theorem (`FewMembers`): a walk without a race never ends there before the
chain does. With more members than that a walk may give up and write without having seen the end, in the code too.

### Transfer

The row (`transfer`), the channel's record (`batch`) and the tasks (`announced`). `ResendRead`, `UnifiedTransfer`,
`SendFails` are the second half of `CreateTransfer` for a closed transfer; its first half inserts nothing (see the
findings), so the row starts in any state an earlier owner can have left. `NotifyTransfer*` serve callbacks and
`SyncTransfer`, which act on an answer that may be old by then.

### Coupon

The rows of one template and its `take_count`. `TakeRead` and `TakeCheck` are the looks of `TakeCoupon`, `TakeCoupon` its
transaction, which checks nothing again. What a taker saw stays in `taker`, so that the property can say whether it was
stale. Use and return belong to the order's transaction, hence one step.

### SmsCode and Session

`SmsCode`: `ReserveSmsCode` and `ActivateSmsCode` are the two Redis scripts, `InsertRecord` and `Send` what lies between
them, `ReadCode` GETDEL and comparison, `MarkUsed` the guarded update. Codes are numbered by their rows. `Session`:
`CreateAccessToken` is the script that sets both keys; `RefreshConsume` the one that takes the refresh token and the
access token; `RefreshIssue` the new grant; `RemoveAccessToken` the logout. A key may expire at any time, the access key
before the refresh key.

### Scheduling

The rows of `infra_job`, `jobMap` as the scheduler's tasks, `owed` as the rows written and not synchronised since. The
mutex of `JobService` is `MutexFree`; it is held from the check to the last synchronisation, within the one process that
`infra_job.go:24` demands. A write whose answer is lost after the commit is the write followed by `SyncJobFails`, which
leaves the old task or none; `ProcessDies` loses all tasks, and
`StartScheduler` rebuilds them from the rows.

### SignIn

Look (`CheckSignedIn`), record (`InsertSignIn`), points, experience, commit. The error of the look is dropped
(`signin_record.go:117`): in `LookFails` the member has never signed in, so that one request alone is rewarded a second
time on the day and the streak starts again. `CreatePointRecord` and `AddExperience` find
no transaction in their context and commit for themselves, so that a failure rolls back the record alone. The experience
is read and written by value.

### PriceCalculation and PriceAdjustment

`PriceCalculation` runs the calculators over the lines of a basket in their order: activity, or discount, reward, coupon;
then points, delivery, points given; validation last. What administrators configured is chosen by the step that reads it.
`DivideOver` is `DividePrice` with Go's truncation; since the quotient is computed in floats, a share that should be whole
may come out one below, and `Shares` has both outcomes. `split` keeps what the last calculator divided, and by what, for
`SplitIsFair`, which compares it with exact fractions. A line starts with its SKU's own points (`GiveIntegral`), which
the calculator of granted points replaces when it runs. `PriceAdjustment` is `UpdateOrderPrice` with its items, which
`TradeOrder` leaves out: several requests, the share of each item by value, the pay order's own commit.

### ProductStock and Cart

`ProductStock`: the other writers of the rows that `Checkout` reserves. An order moves SKUs one by one and then the
product's sum (`MoveSku`, `MoveSpu`); `EditSpu`, `EditSku`, `CommitEdit` are `UpdateSpu`; `StartRename`/`WriteRow` are the
rename of a property, which reads all rows and writes each back outside of a transaction. Uncommitted rows are in
`desk[d].write` and locked. `Cart`: each request reads in one step and writes in another; `ResetCart` has three ways
(`Repoint`; `Merge` then `RemoveMerged`; or the plain count). `alone` remembers what the cart held when a request that has
met nobody began, for the property that such a request is atomic.

## 4. The runs

`CHECK_DEADLOCK FALSE` stands in every cfg because a finished order, refund or task may rest for ever. A property whose
comment begins with "Together" is the conjunction of the named parts above it; the parts are what a reader wants to look
at, and what the theorems are about.

| run | instance | properties | what it shows |
|---|---|---|---|
| `pay_order` | 2 submissions, 2 requests, job, 2 prices, 1 fault, request symmetry | `PaymentRecorded`, `FinalStays`, `ImplementsRow` | one payment accepted, backed by the channel, announced once; final statuses stay; the row is written as `PayRow` says |
| `pay_order_live` | 1 submission, 2 requests, job, 2 prices, 1 fault | `OrderSettles` | a waiting order ends, though callback and job deadlock |
| `pay_order_expire` | as `pay_order`, no fault | `PaidIsNotClosed` violated | finding 1 |
| `pay_refund` | WeChat and Alipay, 2 refunds of 1 or 2 cents, price 2, 2 requests, 1 fault | `RefundAccounted`, `RefundedIsSum`, `WeixinFailureIsClosed`, `ImplementsLedger`, `DecidedIsRecorded` | implements the ledger; the sum is exact; what the channel decides is recorded |
| `pay_refund_unknown` | the same with 3 refunds | `FailedIsNotRefunded` violated | finding 2 |
| `pay_notify` | 2 runs, 2 tasks, 2 attempts, 1 fault | `TaskExplained`, `AttemptsCounted`, `FinalStays`, `TaskSettles` | delivery, exhaustion, one log per attempt, one sender, bounded replays; every task ends |
| `trade_order` | 2 requests, job, price 2, adjustments -1 and +1, 1 fault | `StockSettled`, `PaidIsBacked`, `PriceFixedOncePaid`, `UnpaidSettles` | payment excludes cancellation, prices agree, an unpaid order is cancelled unless its coupon or a SKU is deleted |
| `after_sale` | 2 items, prices asked 0 to 2, 2 after-sales, 2 requests, notifier, 1 fault, symmetry | `ItemsSettled`, `RefundsAgreed`, `CountedIsRefunded`, `FinalStays` | an item is refunded once, by agreement, counted once |
| `after_sale_last` | 2 items, 2 after-sales, 1 request, notifier, no fault | `LastItemCancels` violated | finding 3 |
| `checkout` | 2 orders over 2 SKUs in opposite order, stock 2 each, both may use the coupon and 1 point, 2 cancelling requests, 1 fault, 1 cut-off cancellation per order, symmetry | `GoodsAccounted`, `CouponServesOneOrder`, `PointsAccounted`, `CancelledIsRefunded` | nothing oversold; every unit, the coupon and every point accounted for |
| `transfer_resent` | 2 requests, 1 repeated request, 1 fault | `PaidIsLearnt` violated | finding 4 |
| `services` | the small modules in turn, see below | one per module | see below |

The run `services`:

| property | instance | what it shows |
|---|---|---|
| `WalletAccounted` | 2 recharges worth 2, adjustments -2 and +1 (one of them), 2 requests, 1 fault, 1 repeated report of a refund | the columns agree; a recharge is credited once; what is frozen covers the refunds under way but for repeated reports; transactions explain the balance; an overdraft takes a stale look |
| `WalletsExplained` | 3 visitors, 1 poll, 2 hitches | a second wallet takes a late holder or a failure, and each further one another |
| `BrokerageExplained` | 2 earnings of 2, 2 withdrawals of 3, 2 workers, 1 fault | records explain the account; a withdrawal is paid out or given back, once |
| `TransferExplained` | 3 calls, 2 repeated requests, 1 fault | the row backed by the channel, an end announced at most once for each attempt, SUCCESS never taken back |
| `CouponsExplained` | 1 coupon in stock, 1 per member, 2 members, 2 takers, 1 order | every coupon is counted; beyond a limit only through a stale look |
| `CodeServesOnce` | 2 scenes, 2 senders, 2 guessers, 4 codes, 3 per day, 2 faults | the usable code is the latest, guessed once, its message counted |
| `SessionEndsOnce` | 2 requests, 3 grants | one successor per session; no lone access token; ended stays ended |
| `ScheduleSettled` | 2 handlers, 2 jobs, 2 administrators, 2 faults | tasks follow rows or are owed; no handler twice |
| `SignInExplained` | 2 requests, 3 days, rewards for 2 days, 3 records, 1 fault, 1 failed look | rewards have a record or a fault; a second one overlapped the first or its look failed; streaks are streaks |
| `PricesAgree` | items 1, 2, 1, changes -3, -2, +2, 2 requests, 3 changes, 1 fault | items add up to the order, the pay order follows |
| `ChainsEnd` | 3 members, 2 requests, 3 binds | no cycle of promoters without a race |
| `PriceAddsUp` | 3 baskets (one with a SKU on two lines), 3 offers, 2 levels, 2 overlapping activities, 2 coupons, 2 templates | splits are fair; grants reach the lines; columns explain the price |
| `StockExplained` | 2 SKUs (one at first), 2 orders, 1 editor, 1 rename, 2 movements, stock up to 1 | stock is never negative; sums agree but for a rename that writes back an old row |
| `CartExplained` | 2 SKUs, 2 overlapping requests of 3, counts up to 2, 1 fault | a request that meets nobody is atomic, whichever way it goes |

The processes of the small modules share their names, so that `Alike`, the permutations of one pair, is a symmetry of
each of them.

Why the bounds are enough to be interesting. Every race in this code is between two transactions, and most need a third
party that the models have beside the two requests (the job, the notifier, the channel). Two submissions are what a
double payment needs; two refunds of 1 or 2 cents out of 2 fill the price exactly or exceed it; two attempts distinguish
first, last and one too many; two items of one cent with prices asked up to two reach "too much", "nothing" and "the last
one"; two baskets in opposite order reach the deadlock, and stock 2 lets both orders exist at a time. Three visitors are
needed where one deletes the key of a second and lets in a third. A recharge worth 2 with a deduction of 2 empties the
wallet; a payout of 3 from earnings of 2 overdraws it. Items of 1, 2, 1 with -3 reach a share that truncation makes wrong
for every item but the last. Three members make a cycle longer than a pair; two activities that share one SKU reach the
order in which they take it. One fault at any place is a crash between any two statements, and it may be followed by any
number of repeated calls. Two cases are beyond the runs and left to the theorems: in `checkout` the stock suffices for
both orders, so that the refusal for lack of stock is covered by `GoodsAccountedAlways` only; in `pay_notify` nobody
outlasts the lock (`MayStall` is FALSE, the stalled holder of `notify.go:112`), which only the theorems without that
hypothesis allow. What larger numbers would add, the proofs cover where there are proofs.

## 5. Findings

Each of these four is a run that must end in a counterexample:

1. `pay_order_expire`: `ExpireOrder` (`order.go:348`) closes by id the orders an earlier statement found WAITING. A
   payment that commits in between is overwritten with CLOSED. The other closing path avoids this on purpose
   (`order.go:595`). For the trade order this means, as `TradeOrder` lets it happen through `PayRow`, that a payment
   whose row was closed before `UpdateOrderPaid` looked is refused there, and the order is cancelled unpaid.
2. `pay_refund_unknown`: `SyncRefund` may query Alipay between the commit of a refund and its call; an answer that
   names the refund and has no amount is taken for a FAILURE (`alipay/client.go:349`), and the refund is then made (`docs/decisions.md:115`).
3. `after_sale_last`: two completions that overlap each read the other's item as unfinished; nobody cancels the fully
   refunded order and one price is missing from `refund_price` (`order_update.go:1809`).
4. `transfer_resent`: a closed transfer that is sent again is to become WAITING (`transfer.go:227`), so that later polling
   learns what became of it (`transfer.go:250`). WAITING is 0, which GORM leaves out of an update by a struct
   (`transfer.go:228`): the row stays CLOSED, the job polls open rows only, and what the channel then pays is never
   recorded. A lost answer would end there as well, since the WeChat client reads any error as CLOSED
   (`weixin/client.go:603`).

Because of 1, `PaymentBacked` lets an accepted payment's order be CLOSED, and because of 3 `CountedIsRefunded` says "not
more than", not "exactly". These are the strongest forms that hold.

Met while modelling, and built into the models as the code has them. They take a single call or contradict no document,
so that no run is spent on them:

* Pay: `UpdatePayOrderPrice` writes by id after an unlocked check (`order.go:660`), so that a paid order can have another
  price than the channel took (`docs/decisions.md:121`). A refund whose call is lost before the channel has it stays
  WAITING, on WeChat always, since the query of an unknown refund is an error there, on Alipay when the answer does not
  name the refund (`refund.go:297`), although the comment at `refund.go:135` says polling makes up for it; it blocks all
  later refunds of its order. A pay refund that ended in FAILURE keeps its merchant number, so the after-sale can never
  ask again (`after_sale.go:511`).
* Wallet: any pay order that is SUCCESS marks any recharge as paid, whosever it is and whatever its price
  (`recharge.go:105`), and a refund that has ended moves the wallet again with every report of it (`recharge.go:190`):
  `CreditedOnce` says that this cannot credit a recharge twice, and `FrozenCoversPending` has a price per repeated report.
* Sign-in: a failing read of the last record counts as "never signed in" (`signin_record.go:117`); `SecondIsBlind` and
  `StreakIsBacked` except the request it happens to.
* Transfers: `CreateTransfer` takes "not found" for an error and never inserts (`transfer.go:272`); Alipay's `UnifiedTransfer` is not implemented and the wallet channel has no client. WITHDRAW_FAIL needs a transfer, and is never reached.
* Brokerage: a withdrawal is deducted by id without a look at the balance, although the comment at `withdraw.go:267` says that
  the callee takes one; its frozen price is never released.
* Orders: delivery writes by id whatever the status (`order_processors.go:306`, against `MODULE_DEEP_DIVE.md:771`), and so
  does pick-up (`order_processors.go:724`). `CancelPaidOrder` ignores that its update changed no row; when cut off it
  gives back again on each retry, until the existing refund refuses. A used coupon that is deleted makes its unpaid order
  uncancellable, and so does a deleted SKU: each cancellation is rolled back (`coupon_user.go:396`, `sku.go:387`), and the
  order keeps its stock for ever (`UnpaidSettles` excepts it). Adjustments downwards may be repeated, since "already adjusted" is a
  comparison with > 0; items of 1, 2, 1 and a change of -3 leave the last one with a negative price
  (`order_update.go:398-425`). The completion of an after-sale gives no stock back (`order_processors.go:533`).
* Prices: a coupon's shares are kept by SKU, so that of several lines of one SKU the last share counts for all
  (`coupon_calculator.go:127`); an order of points alone pays no freight; a template with an extra count of 0 divides by
  zero (`delivery.go:610`).
* Stock and cart: the rename of a property writes back stock and sales it read earlier (`sku.go:327`, `property.go:72`);
  `ResetCart` drops the errors of its merge.
* Others: `UpdateUserLevel` to level 0 does nothing; the log of a job that outlives its context of five minutes stays
  RUNNING (`scheduler.go:151`); `UpdateDept` accepts a descendant as parent.

## 6. Fairness

Only what the code's surroundings provide, in the `Fairness` definition of the four modules with liveness properties:

* weak fairness of the next statement of a running request or job: a started handler goes on; a failing one takes `Fail`,
  whose number is bounded;
* strong fairness of a statement that waits for a row lock: PostgreSQL queues the waiters, so that the lock reaches each
  of them though others take it in between; deadlocks are found and resolved (`DeadlockVictim`, weak);
* strong fairness of the scheduled starts `SyncFind` and `CancelRead(Job)`, weak for `ListTasks` and the expire job: cron
  starts them again and again, and a run works through all it finds;
* weak fairness of time: expiry of an order, a task becoming due, the end of a Redis TTL.

There is none for users, channels, callbacks or administrators: no liveness property relies on their acting. `AfterSale`,
`Checkout` and the small modules state none: each of their steps waits for a person or a request, and what they promise is
safety.

## 7. The proofs

Assumptions are only the named `ASSUME`s of the modules (prices positive, process names distinct, bounds natural, sets of
processes finite where something is counted), with two that deserve a word. `PromotionAssumption` of `PriceCalculation`
is what administrators enter: percentages from 0 to 100, amounts that are not negative, finitely many rules, extra counts
of at least 1 (a template with 0 divides by zero, see the findings); the services do not all check it themselves.
`FewMembers`, a hypothesis of `ChainsEndAlways` alone, says that a walk may read a row of every member. Each proof is the same argument: an inductive invariant, one step per
action, and the properties as consequences. The invariants that the runs check are too weak by themselves, because they
say nothing of what a request knows between two of its statements; the additional conjuncts are just that.

| module | inductive invariant and why it is needed | theorems |
|---|---|---|
| `PayOrderProofs` | `TypeOK`, `Locks` (two processes never hold one extension), `JobLocks` (what the job has passed is locked), `Knows` (what a request at each statement knows: a success notified was paid at the channel), `Unpaid` (an order that is still WAITING has no accepted submission), with the properties. Without the locks two transactions could commit one extension. For the refinement `Seen`: who is about to write the row by id has found it there. | `TypeCorrect`, `PaidOnceAlways`, `OneTaskAlways`, `PaymentBackedAlways`, `PaymentRecordedAlways`, `FinalStaysAlways`, `Refinement` (every step is a `PayRow` step or a stutter) |
| `PayRefundProofs` | `Named`, `Locked`, `Held`, `Reserved`, `Told`, `Placing`: what a request at each statement knows of the row, the order's sum and the channel; `Summed`: `refund_price` is the sum of the successful refunds, kept because every step is a ledger step | `Inductive`, `WithinPriceAlways`, `RefundAccountedAlways`, `Refinement` (every step is a ledger step or a stutter), `OneTaskAlways`, `SuccessIsRefundedAlways`, `WeixinFailureIsClosedAlways`, `RefundedIsSumAlways` |
| `PayNotifyProofs` | `BInv`, always; with no stalled holder also `Owned` (a worker past `TryLock` owns the key), `Uncreated`, `Fresh` (the copy read under the lock is current) | `TypeCorrect`, `SuccessIsDeliveredAlways`, `FailureIsExhaustedAlways`, `TaskExplainedAlways`; without stalls `OneSenderAlways`, `LogPerAttemptAlways`, `ReplaysAlways`, `AttemptsCountedAlways`, `FinalStaysAlways` |
| `TradeOrderProofs` | For `TradeOrder`: `Stages` (status, payment and what is given back move together), `Locks`, `Paying` (who is about to write the payment has seen a pay order that accepted one, and who is about to reprice it one that waits), `Prices`; `Positive` (an adjustment under way asks for a positive price) for `PayIsPayRow`. For `Cart`: `CartInv` has `Pointing` (a request points at rows there are) and `Follows` (the cart is what it was when a request that meets nobody began, with the part of its writes that it has done) | `TypeCorrect`, `PaidKeepsStockAlways`, `ReleasedOnceAlways`, `StockSettledAlways`, `PaidIsBackedAlways`, `PriceFixedOncePaidAlways`, `PayIsPayRow` (the pay order is used only as `PayRow` allows), `CartExplainedAlways` |
| `AfterSaleProofs` | `Rows`, `Locals`, `Locks`: each row belongs to an item, each process at a statement still refers to what it read, an item is locked by one process; `Counted`: what the order counts, and what a request is about to write there, is at most the sum of the completed after-sales | `TypeCorrect`, `OneActivePerItemAlways`, `ItemFollowsAfterSaleAlways`, `RefundedIsAgreedAlways`, `CompleteIsRefundedAlways`, `ItemsSettledAlways`, `RefundsAgreedAlways`, `CountedIsRefundedAlways`, `FinalStaysAlways` |
| `CheckoutProofs` | For `Checkout`: `Base` (`TypeOK`; `Rows`: status, payment and cancellation of a row agree; `Working` and `Locks`: who works on an order, and who has locked it; `Numbered`: the cut-off cancellations of an order are numbered, so that each counts once; `CancelledIsRefunded`) with `StockAccounted` and `CouponServesOneOrder`. For any number of orders, goods, requests, faults and cut-off cancellations: the cardinalities of the keepers, the returners and the torn change by one element at a time; `Settled` does the same for the points that orders hold. For `PriceCalculation`: `CalculationInv` says after each calculator which columns are still empty (`NotYet`), that each line's columns explain its price (`Sheet`) and that what was granted is in the lines (`InLines`), with `SplitIsFair` and `OneSaving`; a split over lines is fair by an argument on the last line, which takes the rest. | `TypeCorrect`, `StockAccountedAlways`, `GoodsAccountedAlways`, `CouponServesOneOrderAlways`, `CancelledIsRefundedAlways`, `PointsAccountedAlways`, `PriceAddsUpAlways` |
| `ServicesProofs` | `SessionInv` adds `GrantsIssued` and `AtDevice` (a request that has consumed a grant is the only one to issue its successor); `TransferInv` adds `Answers` (an answer on its way is backed by the channel); `CouponInv` adds `AtTaker` (what a taker saw was below the limits); `SmsInv` adds `FirstOfDay`, `AtSender`, `AtGuesser` (who sends a code is the only one to, who has read it took it from the key); `SignInInv` adds `DatesGrow` (the last record has the latest date), `AtSigner` (what a request looked at was committed before its day, unless the look failed) and `ExperienceBehind` (who has its points and not yet its experience); `CreationInv` bounds who is inside the lock: each holder but one is paid for by an expired key or a death, which no foreign DEL can do, since its caller leaves at the same time. Scheduling: `OneAtATime` (the mutex), `AtWork`, `Checked` (the uniqueness that was checked still holds at the insert), `OwedIsInHand`. `WalletInv`: what each caller between two statements still owes to the columns, the transactions or the recharge, by its shape; `FrozenCoversOwed`: the frozen balance, with a price per repeated report, covers the refunds noted, those being settled, and those frozen for and not yet noted. `BrokerageInv`: for each withdrawal, who has it in hand and what of it is booked (`Settlements`). `PromotersInv`: the rows an unraced walk has read are closed under promotion, do not have the member to be bound, and are one more than its hops. `PriceInv`: one holder of the order, shares made of the items it read, the pay price in hand. `StockInv`: a row written and not committed still starts from the committed one; an order's differs from it by its units, an editor's is the form's stock with the sales there are | `SessionEndsOnceAlways`, `TransferExplainedAlways`, `CouponsExplainedAlways`, `CodeServesOnceAlways`, `WalletsExplainedAlways`, `SignInExplainedAlways`, `ScheduleSettledAlways`, `WalletAccountedAlways`, `BrokerageExplainedAlways`, `ChainsEndAlways`, `PricesAgreeAlways`, `StockExplainedAlways` |
| `SumTheorems` | none: a sum over a finite set does not depend on the order of folding, and changes by the value that changes, joins or leaves. The library's induction takes an operator as parameter, so each lemma is proved by its smallest counterexample (`LeastNumber`, `SmallestSubset`): were there a set for which it fails, one element less would fail as well. | the lemmas the other modules cite |

Only model-checked: the liveness properties `OrderSettles`, `DecidedIsRecorded`, `TaskSettles` and `UnpaidSettles`, since fairness and ENABLED are out of the prover's reach.

## 8. What is not modelled

`PROJECT.json` gives the reason per component. Most of the repository is record keeping: handlers, contracts, generated
queries and services that read or write one row. The map therefore covers a small share of all its lines (about a
twelfth), and modelling more of these would restate assignments; what has several actors, several statements or a
computation with rounding is modelled. In short:

* Promotion: seckill, bargain, group and point orders are refused by `CreateOrder` before anything is taken
  (`order_update.go:640`). `CreateCombinationRecord` has no caller, so that `ExpireCombinationRecord`
  (`combination_record.go:466`), the only caller of `CancelPaidOrder`, finds nothing today; `Checkout` lets it run for any
  paid order, which is what it is written for.
* Without a caller: `ReduceWalletBalance`, `ReturnCoupon`, `AddBrokerageMultiLevel`, `CancelBrokerage`.
  `CreateWalletRecharge` creates no pay order; `Wallet` takes its payment as given. The endpoints that report a payment or
  a refund take their ids from the caller, so that every such call may come at any time, any number of times; each model
  asks of the other side only what the handler itself checks.
* IoT is built but not started (`cmd/server/wire_gen.go:215`). Administration, tenants, permission, middleware, files,
  logs, code generation, statistics and WebSocket sessions have no order of steps worth a model.
* Inside the modelled parts: the `PayOrder` model is of one order (orders share nothing but the expire job's transaction,
  so a job run over several orders is the model with its locks held longer); `Scheduling` has the one process
  `infra_job.go:24` demands and not what several would do; `order.refund_status`, shown and filtered by but decisive for
  nothing; the reset of a withdrawal whose transfer failed (`withdraw.go:66-78`), since no withdrawal reaches that status;
  which rows of a cart are selected; operation logs; the administration of templates, levels and activities.

Three hazards have no property of their own. Delivery by id (`order_processors.go:306`) takes one call and no interleaving; it is enabled
in `TradeOrder` and `Checkout`, and what it cannot disturb is checked with it. The after-sale whose pay refund failed
(`after_sale.go:511`) stays as it is by construction; no document says anything about it. The rename of a property
(`sku.go:327`) does go wrong in the code; `StockExplained` excepts the rows it wrote back and holds for the orders and
editors beside it. In the same way `CartExplained` speaks of requests that meet nobody: two that overlap may both
insert a row of one SKU (`cart.go:38`).

## 9. The plan

Done, in the order of importance: pay order, refunds, notification, trade order, after-sale; checkout and paid
cancellation; wallet, brokerage, transfers, coupons, codes, sessions, scheduler, sign-in; prices, stock, cart. What is
left:

1. The group purchase once something calls it: joining, the last place, expiry against payment.
2. Several server processes for `Scheduling`, should the code come to allow them.
