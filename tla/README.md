# flotech in TLA+

flotech runs sport events: organizers buy a *plan* for each event, take
registrations, race entries and ticket orders, let people in at the gate, run the
competition, and withdraw what they earned from a wallet the platform keeps. The API
is a Laravel application (`src/api`): php-fpm workers answer requests, a queue and a
scheduler run next to them, PostgreSQL keeps the state at READ COMMITTED, and
Midtrans, the payment gateway, notifies it of payments. The web front end (`src/web`)
is a Next.js application whose pages keep the API's answers in a TanStack Query cache
and the session in a store of the tab. This directory holds TLA+ models of the parts
where money and seats change hands, of the session and the cache of the front end,
and of a match on the day it is played; what TLC checks about them, and what TLAPS
proves.

## Inventory

| component | state it keeps | operations | hard behaviour | correct when |
|---|---|---|---|---|
| Wallet ledger (`WalletService`) | `wallets` balances, `wallet_transactions` | credit, release, reverse, hold, return, adjust | reads before the wallet lock, repeated credits, the 01:00 boundary | cached balances are the sums of the ledger; a payment is earned once and voided once |
| Withdrawals (`WithdrawalService`) | `withdrawals` | request, process, complete, reject, cancel | operations act on the copy the route loaded | one open payout; money back exactly for rejected ones; the waiver of the minimum spent once |
| Refunds (`RefundService`) | the paid rows | refund an order, a team, an entry | races with the sweep, the gate, the notifications | the organizer loses the money, the seats come back, nobody came in |
| Ticket orders, box office, gate (`TicketService`, `ScanController`, `TicketSaleController`) | `ticket_orders`, `tickets`, `sold` of a category and of its days | purchase, settle, cancel, verify, expire, refund, scan | check-then-reserve, stale copies, death between two commits, repeated notifications | counters are what live orders hold; the quota binds; in once, paid, on its day |
| Manual verification (`HasManualPayment`) | proof and verdict columns | upload, approve, reject, sweep | sweep against upload, approval in two commits | an order with a proof waits for the verdict; one without does not keep its seats |
| Midtrans notifications (`MidtransWebhookController`) | none of its own | dispatch to tickets, teams, entries, plans | lost, repeated and late notifications | repeating one changes nothing |
| Plan orders (`EventPlanOrderService`) and discount codes | `event_plan_orders` | checkout, pay again, upgrade, activate, verify, spend, release, reassign | the rail changes while a bill is open; chains of upgrades; two commits at settlement | an event has one paid order and runs on its plan; nothing is had twice for one payment |
| Event lifecycle (`EventController`) | `events.status`, `plan_id` | create, publish, start, finish, cancel, delete | release and delete are two statements | see plan orders and withdrawals |
| Payment rails and fees (`PaymentRails`, `PaymentFeeCalculator`) | settings | choose a rail, price a channel | the switch moves under open bills | a bill is on one rail |
| Team registration (`RegistrationService`, `EventDiscountCodeService`) | `teams`, codes of an event | register, pay, approve, verify | a discount quota, capacity of a category | quota and capacity bind |
| Race entries (`RaceEntryService`) | `race_entries`, bibs | enter, pay, expire, check in | quota by count, bib numbers | unique bibs, quota binds |
| Document numbers (`DocumentNumberService`) | the numbers on invoices and receipts | next number | the first number of a month has no row to lock | unique, increasing in a month |
| Match results, lineups, clock (`MatchResultService`, `MatchController`, `MatchClockService`) | `matches`, `match_events`, clocks | save a score, sign off, take back, change the status, start and stop the clock | two doors onto one match, pages of any age, a clock call across a final whistle | the next tie seats the winner of a confirmed result; a clock runs only in play |
| Formats (`Schedule`, `Standing`, `Swiss`, `Knockout`, `GroupDraw`) | `matches`, groups | generate, pair, rank | recursive pairing, byes | everybody meets whom the format says, no rematch |
| Discipline and squads | suspensions, rosters | book, serve, replace | order of matches | a ban is served once |
| Custom domains (`DomainService`) | domain rows, nginx files | request, activate, sync, renew | file and row apart, retries | a served domain is an active row |
| Session of a tab (`auth-store.ts`, `client.ts`, `auth-gate.tsx`, the banner) with `AuthController` | the store, `sessionStorage`, the refresh cookie | sign in and out, refresh, "log in as", come back, boot | single-use refresh tokens, answers in any order, lost answers, a reload in the middle | token, user and stored id agree; nothing is replayed with the wrong rights; nobody waits for ever |
| Query cache and the dashboard's screens | cached answers, requests in the air | mount, refetch, mutate, invalidate, seed, collect | a forgotten invalidation, older answers overtaking newer ones, a guard that reads at once | a user reads his own writes |
| Match cards and the scoreboard (`components/event`, `scoreboard/[matchId]`) | the match as last fetched | click, poll | stale buttons; polling that stops itself | see match results; the board stops with the match |
| Certificates, ID cards; media, statistics, content; tenancy and roles | documents, files, read models | render, upload, list | mostly I/O | not modelled |

A payment of any kind is a row on one of three rails. The *gateway* rail opens a
Snap transaction at Midtrans and waits for its notification; the *manual* rail waits
for a proof of transfer and a verdict, and a scheduled sweep ends it when the deadline
passes without a proof; the *onsite* rail is cash at the box office, paid at once.
Settling a gateway row credits the wallet, where it is pending until the sweep
releases it; refunding one reverses the credit; a payout holds its money out of the
available balance. Plan money goes to the platform and touches no wallet.

## Modules

| module | models | state |
|---|---|---|
| `Money` | sums over rows, greatest and least | - |
| `Earnings` | *abstract*: what the wallet promises about one payment: earned once, held, cleared, void for good | `claim` |
| `Wallet` | `WalletService`, the wallet half of `RefundService`, `wallet:release` | `wallet`, `ledger` (keyed as its unique index), `payment`, `refund` (the copy each clerk read), `now` (01:00 boundaries) |
| `Withdrawals` (extends `Wallet`) | `WithdrawalService`, `Wallet::minimumWaivedBalance` | `withdrawal`, `handler` (request and the status it loaded), `event` |
| `TicketOrders` | `TicketService`, `PublicTicketController`, `TicketSaleController`, `ScanController`, `tickets:expire-manual`, the ticket arms of the notifications, the proof queue and the refunds | `order`, `sold`, `daySold`, `tickets`, `used`, `claim` (as in `Earnings`), `gateway`, `notified`, `job`, `today`, histories `sent`, `admitted` |
| `PlanOrders` | `EventPlanOrderService`, both plan-order controllers, `DiscountCodeService`, the plan arm of the notifications, `plan-orders:expire-manual`, create/publish/delete of an event | `order`, `event`, `gatewayUp`, `switched`, `snap`, `job` |
| `Session` | one tab: the auth store, the axios client with its refresh on 401, `AuthGate`, the impersonation banner, login and logout, against `AuthController` and `UserController::impersonate` | `token`, `user`, `imp`, `pending` (sessionStorage), `cookie`, `flow` (the asynchronous functions that run), `promise` (the shared refresh), `call`, `page`, `epoch`, `haste` (a bound), `mintable`; histories `asked`, `lost` |
| `QueryCache` | one query of the TanStack cache, the pages that mount it and the mutations that touch it | `key`, `page`, `data`, `marked`, `failed`, `fetch`, `doing`; histories `owed`, `outrun` |
| `Dashboard` | the table of screens: which keys each mounts, what each mutation changes on the server and whom its `onSuccess` tells | - |
| `MatchDay` | a knockout tie: score editors, sign-off, status, clock, the slot of the next tie, the scoreboard | `match`, `next`, `page` (per door), `board`, `job` (what each request has still to write); history `cut` |
| `MoneyProofs`, `WalletProofs`, `WithdrawalProofs`, `TicketProofs`, `PlanProofs`, `SessionProofs`, `CacheProofs`, `MatchProofs` | theorems | - |
| `MC...` | values of the constants for TLC | - |

`Withdrawals` composes with `Wallet`: every wallet action interleaves with the
payouts, which write the same balances and ledger. `Wallet` implements `Earnings`
through `ClaimOf`, which reads one payment's claim off the ledger; `TicketOrders`
keeps a wallet of such claims instead of a ledger. `MCDashboard` composes the machine
`QueryCache` with the table `Dashboard`: queries share nothing, so one key, chosen in
the initial state, stands for all, and the run covers every key of the table with
every mutation that touches it. "Changes" in the table is read off the API's handlers,
restricted to what the page itself, or the one it moves on to, shows; "told", "seeds"
and "goes" are the page's code. `MatchDay` models the server's handlers and the
buttons a page offers together, since a click is decided by an old copy and executed
on a new row.

### Steps

A database transaction that takes its locks first is one step. A request that tests
something before its transaction, or outside one, is two: the first step does the
test and keeps what was read (`job`, `handler`, `refund`), the second writes without
testing again, as the code does. The pairs are

* `RefundFind` / `RefundReverse`: `reverse()` reads the credit row unlocked, and
  `reverseCredit()` re-reads it under the wallet's lock only if it was pending;
* `Load` / `Process`, `Complete`, `Reject`, `Cancel` in `Withdrawals`: `ensureOpen()`
  tests the copy from `findOrFail()`;
* `CheckSeats` / `Purchase` / `OpenPayment`; `Notify` / `Pay` or `CancelFailed`;
  `LoadManual` / `EditProof`, `MarkVerified` / `Reload` / `Pay`, `ExpireManual`;
  `LoadRefund` / `Refund`; `Scan` or `AdmitAtTill` / `FindParty` / `CheckIn`, the last
  once for each row;
* `Checkout` / `Raise` / `Start`; `Load` / `PayAgain`, `Upgrade`, `SubmitProof`,
  `Approve`, `Reject`; `Activate` / `Apply`; `ReleaseCredit` / `DeleteEvent`;
  `LoadReassign` / `Reassign`; `Notify` / `WriteStatus`.

`Save` in `PlanOrders` is Eloquent's `update()`: it writes the attributes that differ
from the loaded copy, and the others keep what another request has written meanwhile.
A worker that dies (`Dies`, `RefundRollback`) drops what it has not committed.

In `Session` a flow is one asynchronous function. It advances when the call it awaits
is answered; when a refresh settles, the continuations of everyone who shared it run
before any other event of the tab (`Settling`), as promise callbacks do. A reload
empties the memory, keeps `sessionStorage` and the cookie, and may lose the answer
that carried a rotated cookie. Only the button of a running command is disabled, so the
admin may sign out while "log in as" is under way, and the answers come in any order;
`haste` counts how often he does not wait.

In `MatchDay` a handler loads the match, decides, and then writes in as many commits as
the code: it takes the old winner out of the next tie (`TakeOut`), saves the columns
that differ from its copy (`SaveRow`, as Eloquent does), and sends the new winner on
(`SendOn`, which reads the score afresh). There is no transaction and no lock; a worker
may die before each of them (`Dies`).

The number of `Handlers` says how many requests overlap. With one handler requests
follow one another, but may still die between two commits; with two they overlap in
every way. Several properties hold only in the first case, and the module says
which.

## Runs

| run | expects | what it shows |
|---|---|---|
| `ledger` | pass | Two payments on two rails, two clerks refunding both, a negative correction, the sweep and the days: the balances are the sums of the ledger, a refund debit matches a released credit, nothing is released early, everything clears, and the ledger implements `Earnings`. |
| `payouts` | pass | Three payouts of amounts below and at the minimum, credits, a refund, a correction, event transitions, one request on a payout at a time: one payout is open, the money is back exactly for rejected ones, the waiver is never overdrawn. |
| `ticket_orders` | pass | An order on each rail and a free one, sold by the day with room for fewer than all: counters, tickets, wallet, gate; under fairness an order without a proof ends. |
| `ticket_racing` | pass | Two overlapping requests on a two-day pass, each order notified twice, a party let in row by row: nobody is admitted unpaid, and no counter goes below zero. |
| `plan_orders` | pass | Two bills, two plans, two events, a code of quota one worth more than the cheaper plan, the gateway switched once, a denied payment settled after all: an event runs on the plan of the one paid order that holds it, nothing is had twice for one payment, and the code is redeemed once. |
| `session` | pass | A super admin's tab with a query beside every other flow, one expiry, one reload or one command given while another is under way, lost refreshes and lost or refused mints: the stored id follows the impersonation, the tab never spends its own cookie twice, replays keep the target's rights, an impersonation ends for a reason, and every flow ends. |
| `web_cache` | pass | Each of the keys of the dashboard under every mutation that touches it, two in the air: what was saved is not hidden behind data taken for current, unless an older answer that nothing stops has landed, and a new organizer's guard sees his organization. |
| `match_day` | pass | Admin and match crew on pages as old as they like, requests one at a time that may die between two commits: the next tie seats the winner of a confirmed result unless a request died at its slot, an emptied slot leaves no score, the board stops. |
| `refund_races_release` | violation | The sweep releases a credit between a refund's read and its lock; the refund commits and takes nothing back. |
| `paid_order_cancelled` | violation | A bill opened at Midtrans and reopened as a transfer keeps its Midtrans id; the approved order is cancelled when the old transaction expires. |
| `dead_session` | violation | A session that ends after the page was let through empties the token; the gate shows its spinner and its effect, which would go to `/login`, does not run again. |
| `board_keeps_ticking` | violation | A request that read the match in play saves its clock after the final whistle; the board has stopped polling and ticks for ever. |

Each violation quotes, in `PROJECT.json`, the comment of the code it contradicts. The
`payouts`, `ticket_orders`, `plan_orders` and `match_day` runs allow one request at a
time; what survives overlap there is proved for any number of requests, or checked in
`ticket_racing`.

### Bounds

* `Wallet`: `MaxDay = 2` with `HoldDays = 0` lets a credit be taken on day 0 and 1,
  be released on its boundary, and be refunded before and after. Two clerks reach
  every overlap of two refunds; the lock orders a third behind them. `Net` 2 and 1
  make the two credits distinguishable in a sum; the correction of -3 drives the
  balance below zero, which the code allows.
* `Withdrawals`: one credit of 3, a top-up of 4, amounts of 1, 2 and 3, minimum 3, fee 1:
  payouts below and at the minimum, covered and not covered by the waiver, and one
  that is affordable but for its fee. Two payouts are the least that can be open
  together or draw on the waiver twice; a third makes one of them draw on what an
  earlier rejection gave back.
* `TicketOrders`: quota and orders are chosen so that not all fit. Two dates, a
  buyer of both, a buyer of one, a party of two, and a free order, which settles
  without its rail. `Deliveries` bounds how often Midtrans notifies us of an order:
  once where `HeldIffPaid` is checked; twice, enough to repeat an outcome or to settle
  after a denial, where requests overlap.
* `PlanOrders`: `Raised = 2` bills (an order and its upgrade, or two orders),
  `Attempts = 1` Snap transaction of each, `Switches = 1`. The prices are those of the
  seeded catalogue to scale; `Discount = 3` is above `pro` (2) and below
  `professional` (5).
  `MaxRedemptions = 1` is the boundary of the quota. A chain of two upgrades, or two
  upgrades of one order, takes three bills and three plans: that instance, with the
  gateway left alone, has 2.2 million states, passes too, and is what the proof of
  `NoFreePlans` generalizes. It showed that the property needs `OneUpgrade`.
* `Session`: one query beside boot, banner, sign-out and "log in as" gives every pair
  of flows that can share a refresh; one expiry makes every token handed out before it
  fail. `MaxHaste = 1`: once the person does not wait, and either loads the page again,
  which cuts everything off, or gives a command while another is under way. With no
  bound on the commands that overlap the safety properties hold as well (4.4 million
  states), and they are proved for any bound. Accounts are the admin and his target.
* `QueryCache`: two mutations in the air (`MaxDoing`) are the least that can answer in
  the other order; pages where nothing happens to the key are all alike and stood for
  by `elsewhere`.
* `MatchDay`: two teams, a level score and none; the doors of the admin, who alone signs
  off, and of the crew (every step of an operator's page is one of theirs). Pages are
  refetched at any time or never, so no bound on their age is needed. Two handlers in
  `board_keeps_ticking`.

### Conditions some properties carry

`EveryEventHeld`, `NoFreePlans` and `CodeQuota` in `PlanOrders` are stated for states
in which `OneRail` holds, that is, in which no bill has been reopened on the other
rail. Outside it lies also the bill that was opened at Midtrans, reopened as a transfer
and given its proof: the expiry of the old transaction cancels it with the proof
attached, which the comment at `EventPlanOrder.php:101-107` says cannot exist. Where
`OneRail` fails, `PaidStaysPaid` fails too (`paid_order_cancelled`), and the rest
falls with it. `NoFreePlans` also waits for `Apply`: `activate()` marks an upgrade
paid in one commit and hands the event over in the next, and `DiesAt` keeps a worker
from dying between the two. `EveryEventHeld` excepts an event that `destroy()` has
released and not yet deleted. What happens when a worker dies in those two places is
in the list of hazards, not checked. So `NoFreePlans` says nothing of a death inside
`activate()` (hazard at `EventPlanOrderService.php:378`) nor of an order paid up twice
(`EventPlanOrder.php:133`), the two ways in which the code does give a plan away.

Midtrans may deny a payment and settle the same transaction later. In `TicketOrders` the
late settlement pays an order whose seats and tickets the denial gave back, so
`SoldIsHeld`, `TicketsMatchStatus` and `HeldIffPaid` are checked where each order is
notified once (`Deliveries = 1`); `AdmittedOnlyPaid` is checked with both. In
`PlanOrders` the transaction is then `"retried"`: everything but `CodeQuota` holds with
it, and that one is stated under `NoRetry`, since the denial frees a redemption another
bill may take.

`SeatIsWinner` in `MatchDay` excepts the seat while a request is between its commits and
after one that died there (`cut`), until a sign-off is carried through. The death after
the commit of `confirmResult()` does leave a confirmed result with an empty seat, and
nothing in the code comes back to it.

Two of the conditions came out of the proofs, as states in which an invariant was not
preserved, and TLC then reached them:

* *An order paid up twice.* `checkoutUpgrade()` reopens an unpaid upgrade only if it is
  for the same plan, so an order can have two, to two plans, and both can be paid. Each
  bill took the price of the first plan off: plans worth 7 were held for 6 that were
  paid. `NoFreePlans` therefore has `OneUpgrade` as a hypothesis.
* *A bill that came back.* A bill that was at Midtrans becomes a transfer, is swept, is
  revived by a late `pending` notification of its old transaction, and is then reopened
  at Midtrans: `OneRail` holds again, and the code it uses may have been redeemed by
  another bill meanwhile. It takes two switches of the gateway and two transactions of
  the bill. `CodeQuota` is proved for behaviours in which `OneRail` and `NoRetry` have
  held all along.

### What stays true only while requests do not overlap

Of the properties of the runs with one handler, these do not survive two, because the
code tests a copy and writes without a lock: `OneOpenWithdrawal`, `ReturnedIffRejected`,
`WithdrawnTotal` (two operations on one payout); `QuotaBinds` (two sales that both
counted the last seat); `SoldIsHeld`, `TicketsMatchStatus` (two voids of one order);
`RefundedNotAdmitted` (a scan during a refund); `CodeQuota` (two checkouts with the
last use of a code); `SeatIsWinner` (a clock call puts a match that was signed off
meanwhile back into play) and `BoardStopsTicking`. Two scans of one ticket at once do both admit it, and a
proof uploaded between the sweep's query and its update is on an order that is then
expired, which the comment at `ExpireManualOrders.php:17-19` rules out. Their hazards
say so. What does survive, for any number of overlapping requests, is proved:
the ledger identity with payouts, and that a payout returns what it held.
`HeldIffPaid` survives overlap but not a notification repeated after a refund
(`markPaid()` returns early only for `paid`), another reason why that run notifies once. A
checkout that dies between its transaction and its payment, or an approval that dies
between its two commits, leaves a pending order that no sweep and no queue ends;
`NoGhostOrders` is therefore about manual orders without a proof.

### What the cache is not told

`ToldNobody` in `Dashboard` lists the changes the code neither tells nor seeds, by
mutation and key:

* an approved plan order: the purchases, the idle credits (an approved upgrade takes the
  one below it out of them) and the events of the organization with their plans;
* a reassigned plan: the purchases and the history of orders;
* a bank account saved in the wallet: the organizations;
* an event edited: the plan orders, which carry its name; an event deleted: everything
  (`edit/page.tsx:100-103` only moves on), its returned credit among it; an event
  upgraded: the event itself, whose page shows its plan;
* a team entered by hand or imported: the event, which counts its teams;
* a ticket or a race entry bought: the stock on the public page the buyer comes back to;
* on the schedule page, the scorers after matches are made, removed or given a result;
  the state of the Swiss draw and the planned knockout after any result; the planned
  knockout after the stat sheet and point adjustments; the table after the stat sheet.

`ReadYourWrites` excepts exactly these, and for every other change of a key that its
page mounts or moves on to, the run checks that it is told or seeded in time. What a
third page still holds in its cache is not said, nor are the searches and dialogs that
`Dashboard` leaves out. A write whose answer is lost is told to nobody, and the property
speaks only of writes the page has reported as saved.

One more case is excepted, in the property itself: an answer that is older than the
write and that nothing stops. `invalidateQueries` cancels and restarts the request of a
mounted query, but not one for a key that was only seeded, is mounted nowhere or is
loaded for the first time; and the answer of an older mutation seeds over a newer one.
When such an answer lands it clears the mark, and the cache takes the past for the
present until something fetches again. `outrun` records it, and both `ReadYourWrites`
and `SeenOnArrival` hold up to it. Where the code does cancel, they say that it does.

## Fairness

`Wallet.FairSpec` has weak fairness of `NextDay`, since time passes, and of
`ReleaseDue`, which `routes/console.php:17` schedules hourly; once a row is due
nothing but the sweep or a cancellation makes it not due. `TicketOrders.FairSpec` has
weak fairness of `Finish`: a request in progress finishes unless it dies; of
`DeadlinePasses`, a clock; and strong fairness of the sweep's loading of an order
(`routes/console.php:22`, hourly) and of its update. Strong, because a proof or
another request may occupy the worker again and again while the scheduler keeps
coming back; an hourly command that dies every single time is excluded. Nothing is
assumed of buyers, organizers, admins or Midtrans. `Session.FairSpec` has weak
fairness of what the tab does once a refresh has settled, and strong fairness of an
answer (a success, a refusal or a failure) of each flow's call: the browser answers
or gives up on every request, and continuations hold the answers up for a moment only,
which is why weak fairness would not say it. Nothing is assumed of the person at
the tab: how often he hurries is bounded, what he does is not. `MatchDay.FairSpec` has weak fairness of `Poll`, a `refetchInterval` of ten
seconds on a page that is left open, and of `Finish` of each request, which carries its
next commit out or dies.
The other runs check safety and state no fairness. Deadlock is not checked: every bounded run ends when its orders
and days are used up.

## Theorems

Each component's proofs are in a module of their own, follow from inductive
invariants that TLC checked first on the instances of the runs, and assume only the
module's named assumption on its constants; what else a theorem needs stands in its
statement.

### Wallet

`WalletProofs` proves, for any set of payments, rails, amounts, events, clerks,
payouts and corrections, any hold and any number of days:

* `TypeCorrect`: `Spec => []TypeOK`;
* `LedgerIdentityHolds`: the cached balances are the signed sums over the ledger;
* `EarnedIdentityHolds`: `total_earned` is the sum of the credits that were not cancelled;
  one that a refund took back by a debit still counts, as in the code;
* `RefundMatchesCreditHolds`: a refund debit balances a released credit exactly;
* `NoEarlyReleaseHolds`: no credit is available before its boundary.

They follow from one inductive invariant, `IInv`. Its parts beyond the properties are
`Shape` (a row on an income rail is the credit of its source, on its event, with its
net amount; only such rows are ever pending), without which releasing "every pending
row" could move a debit; `SeenStands` (a credit a refund has read as available stays
available: nothing in the code takes it back except that refund's own debit), without
which the debit of `RefundReverse` could balance a cancelled credit; and `Core`, the
two identities written for any table of rows. The lemmas `BalPut`, `EarnPut`,
`BalMove` and `EarnMove` say what inserting a row, or moving a set of pending rows to
another status, does to the sums, and rest on the sum lemmas of `MoneyProofs`, which
are about the cardinality of finite sets, an amount being a set of single rupiah. The
assumption is `WalletAssumption`, the types of the constants; the proof adds none.

The last part of the module proves `WalletImplementsEarnings`: every step of the wallet
is, read through `ClaimOf`, one step of `Earnings` or none.

### Payouts

`WithdrawalProofs` proves, for any number of payouts and of requests that overlap on
them, `PayoutsTypeCorrect`, `PayoutLedgerIdentityHolds`,
`PayoutRefundMatchesCreditHolds` and `HeldAndReturnedAlikeHolds`. To `IInv` the
invariant adds `Backed` (only a payout that took money gives some back) and
`HandlerStands` (a request holds a payout that exists). These are what stale copies
cannot break, since the ledger's unique key and the wallet's lock stand behind them.

What they can break is proved for requests that follow one another, which is the
hypothesis `OneHandler` of the statements: `OneOpenWithdrawalHolds`,
`ReturnedIffRejectedHolds`, `WithdrawnTotalHolds` and `WaiverNotOverdrawnHolds`, for any
number of payouts, events and credits. `SerialInv` adds `HandlerSees`: the status a
request loaded is still the payout's. It is the conjunct that two overlapping requests
falsify. The waiver needs the sums of two tables, the ledger's released credits and the
live payouts' exemptions, to move together; its conjunct is preserved by a new payout
because the exemption is computed from what the waiver has left in the same step.

### Ticket orders

`TicketProofs` proves, for any orders (finitely many), seats, days and rails, any
number of requests that overlap and die, and any number of notifications:

* `TypeCorrect`: `Spec => []TypeOK`;
* `AdmittedOnlyPaidHolds`: whoever is let in was sent a ticket that was paid.

`GInv` adds that an order that is paid was sent its tickets (`PaidWasSent`), that a
request at the gate holds rows that were (`GateStands`), and that no more requests
answer a notification than were delivered (`AnswersOwed`).

For requests one after another and notifications delivered once (`OneAtATime`) it
proves `SoldIsHeldHolds`, `QuotaBindsHolds`, `TicketsMatchStatusHolds`,
`HeldIffPaidHolds` and `RefundedNotAdmittedHolds`. Their invariant `SInv` has three further parts: `Books` (the
tickets there are those of the live orders, the counters count them, the claim and the
gate follow the status), `OrdersStand` (where an order can be, given its rail and what
Midtrans has said), and `JobsStand` (what a request has found out about its order is
still so). With overlap `JobsStand` is what fails; with repeated notifications
`OrdersStand` does, an order refunded or denied being settled. Requests may die anywhere in
both halves.

### Plan orders

`PlanProofs` proves for any number of orders, events, plans, switches of the gateway and
transactions at Midtrans:

* `PlanTypeCorrect`: types, and that an upgrade is younger than what it upgrades, for
  any number of overlapping requests;
* `HolderGivesPlanHolds`, for requests one after another (`OneHandler`), whatever dies, is
  repeated, or changes rails;
* `EveryEventHeldHolds`, if moreover no request dies between the two commits of
  `activate()` or of `destroy()`;
* `NoFreePlansHolds`, if none dies between the two commits of `activate()`;
* `CodeQuotaHolds`, for behaviours with `[]OneRail` and `[]NoRetry`.

The invariants are stacked. `SInv` says that the one copy there is equals its row
(`Sees`), what each kind of request has found out (`Means`), and how the fields of a row
go together (`RowStands`). A bill that was at Midtrans and then approved as a transfer
(`~NoStray`) may lose its payment; everything about money is therefore guarded by
`NoStray`, which no step re-establishes once it fails (`StrayStays`), and which `OneRail`
implies. `HInv` adds `HandedOver`: the order below a paid upgrade has let go of its
event, unless the upgrade is about to take it. It is not inductive without `Takes`: an
upgrade that is about to be applied has nothing above it, or has been applied before
(a settlement repeated by Midtrans runs `applyUpgrade()` again). `Quota` adds that a
cancelled bill cannot come back (`Dead`): Midtrans has closed it for good or never had it.

`NoFreePlans` is proved from two more parts. `Prices`: a first bill and the discount make
the price of its plan; the bill of an upgrade is at least the difference to the plan it
replaces, and with everything paid below it at most the price of its own. `Value`: the
orders that were paid and not paid up since are worth no more than what was received for
all. Paying an upgrade exchanges one order for another in the left sum and adds its bill
to the right one. Whatever is held is among those orders.

`PaidTowardsPlan` is a recursive function along the chain of upgrades. That such a
function exists, and that it depends on the chain alone (`TowardsExists`,
`TowardsAgree`), is proved by taking the smallest order at which it would fail
(`WFMin`), which needs no induction theorem with an operator parameter.

### Session

`SessionProofs` proves `SessionTypeCorrect`, `CanBeRestoredHolds`, `NotLockedOutHolds`,
`ReplayedAsTargetHolds` and `EndsForAReasonHolds` for any number of queries, expiries,
reloads and commands that overlap. `SInv`
adds to the types: a refresh call in the air belongs to the shared promise (`OneCall`),
without which a second flow could spend the cookie; the flows that run before a
page has booted (`BootsAlone`), without which a query could be resumed while the gate
is still minting; and which flows are on their first try (`Unretried`). `ReplayedAsTarget`
follows from the invariant and the stored id at the moment of the replay.

`EndsForAReason` needs a second invariant, `Reasons`, because the step that drops the
stored id sees only that there is no token: only the gate's own refresh, repeated after a
load, carries a spent cookie (`AirOK`), and the gate keeps the id; a retried flow that
goes on without a token does so because the last refresh had no session or no answer
(`EmptyOK`); and a flow at the mint has a token of the current epoch (`HandOK`,
`MintOK`), so a refused mint was refused for another reason than its age.

### Query cache

`CacheProofs` proves `CacheTypeCorrect` for any table of screens, and
`ReadYourWritesHolds` and `SeenOnArrivalHolds` for any table that tells, seeds or lists
every change and seeds what a guard reads (`Sound`); the table `Dashboard` is such a one, and the run `web_cache` checks the
conclusion on it. The invariant adds that, while a page owes something, a request that
read before the write is in the air only where nothing stopped it, and `outrun` says so.

### Match

`MatchProofs` proves `MatchTypeCorrect` for any number of requests, and
`SeatIsWinnerHolds`, `NoScoreInEmptyTieHolds` and `ClockFollowsStatusHolds` for requests
one after another (`OneHandler`), any of which may die between two commits. The
invariant adds that a finished tie has a winner, which the score editors see to and the
sign-off relies on, and that what a request has still to save keeps that so and either
sends the winner on or confirms nothing (`JobStands`): without overlap nothing is
written between its read and its save, and with it that conjunct is the one that fails.

## Only model-checked

* `EveryCreditClears`, `NoGhostOrders`, `Settles`, `BoardStopsTicking`,
  `DeadSessionReachesLogin`: liveness is beyond the prover.
* That the properties stated for `OneHandler` or `OneAtATime` fail without
  the hypothesis is shown by the runs that expect a violation or noted as a hazard; the
  theorems say nothing of it.

Every invariant and every action property that a passing run checks is stated by a
theorem, as is the refinement of `Earnings`.

## Not modelled, and why

Most of `src/web` is rendering: forms, tables, cards, styles and the types of the
API's answers. They keep no state that anything else reads, so no definition stands
for them, and the share of the front end's lines that definitions map to is
accordingly small; what has state (session, cache, buttons decided on stale data,
polling) is modelled. Left out of it: a wrong password at login, which goes through
the same interceptor; the public pages' optional session, which stores the admin's own
token while a target id is kept; two tabs on one cookie; drag and drop and unsaved
form state; windows that regain focus (refetching on focus is switched off).

Mails, PDFs, exports and listings are output. Roles and tenancy are access control,
outside this development. Backfill commands ran once over old data. Team registration,
race entries, document numbers, discipline, custom domains and the pure algorithms of
the competition formats are not modelled yet. Within the modelled components: the fee
arithmetic (an amount is a number here, already net), the resending of tickets,
receipt numbers, reminders, a discount code's dates and its limit per organization,
settlement without a gateway configured (development only), the maximal number of
tickets in an order; of a match, lineups, rubbers, the stat sheet, walkovers, the
third-place tie, rounds beyond the next tie, and the seconds and periods of its clock.

## Plan

1. Next: registrations with the codes of an event, race entries with quota and bibs,
   document numbers, in that order; each reuses the rails of `TicketOrders`.
   Then the formats (seeding, Swiss pairing, schedules, standings) as functions
   checked against reference definitions over small fields, and discipline over
   confirmed results. Custom domains after that.
2. Composition: `TicketOrders` over the real `Wallet` in place of its claims; two tabs
   of `Session` on one cookie.
3. Proofs: that `TicketOrders` with requests one after another
   implements `Earnings` through its claims and a seat map (below).

Abstract specifications worth stating: `Earnings` (there), a seat map that a ticket
category implements (each seat free, reserved, taken), and an entitlement that a plan
order implements (bought, spent, returned). Modules with theorems use no `RECURSIVE`
operator; sums are folds, and the chain of upgrades is a recursive function.
