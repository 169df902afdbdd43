# cinema-hall-api in TLA+

Specifications, TLC configurations and TLAPS proofs for the parts of
cinema-hall-api whose correctness depends on interleavings, failures and
boundaries: seats, payments, refunds and timetables; accounts, sessions and
codes; teams and permissions; offers; notifications. The code is the reference:
`PROJECT.json` gives the lines every definition stands for.

## The system

An Express server (`server.js`) over PostgreSQL (`db.js`, a pool of ten
connections), Razorpay for payments and refunds, QStash and Firebase for
notifications, Google and GitHub for sign-in. Several instances may run; all
shared state is in the database, except the permission cache, of which every
instance has its own. Two timers (or a
cron route) run `cleanupExpiredHolds` and `updateShowStatuses`, and every request
to `/api/shows` starts `updateShowStatuses` too, without waiting for it.

| Component | State | Operations | Hard part | Correct when |
|---|---|---|---|---|
| Seat holds and direct bookings (`booking.Controller.js`) | `show_booked_seats`, `bookings` | holdSeats, confirmBooking, releaseSeats, cleanupExpiredHolds | row locks taken in request order; rows that do not exist cannot be locked; holds that expire | no seat sold twice; all seats or none; seat map and bookings agree; requests for the same list never deadlock |
| Orders and payments (`payment.Controller.js`) | `payment_orders`, `webhook_events`, `bookings`, seats | createOrder, verifyPayment, handleWebhook (payment events) | the browser and retried, reordered, recorded-then-failed webhooks report one payment; a hold may be gone by then | one booking per order; a paid order has its booking; money taken is not forgotten |
| Cancellation and refunds (`shows.Controller.js`, `refund.Controller.js`) | `shows.status`, `bookings.booking_status`, `refunds` | cancelShow, bulkCancelShows, open/revert/restore, updateShowStatuses, manuallySettleRefund, refund webhooks | a transaction followed by calls to Razorpay outside it; statuses read and then overwritten | a booking is refunded once and only if cancelled; settled means paid back; refunds end |
| Screen timetable (`shows.Controller.js`, `psql.sql`) | `shows` | createShow, createMultipleShows, editShow, deleteShow, deleteMultipleShows, the trigger | a trigger that does not see other transactions; shows across midnight | shows of a screen do not overlap; rows stay writable |
| Offers (`offers.Controller.js`) | `offers`, `offer_redemptions` | createOffer, updateOffer, deleteOffer, validateOfferCode, redemption at payment | checked when ordered, recorded by code when paid | what was given is recorded, for the offer that gave it |
| One-time passwords (`otp.Controller.js`) | `otp_verifications`, `customers.is_verified` | sendOtp, verifyOtp, forgot and reset password | one row per type, overwritten by the next code, counted and marked by its id | bounded attempts; a code does only what it was sent for; an active account was proved |
| Accounts: ways in (`auth.Controller.js`, `customerAuth.Controller.js`, `team.service.js`) | `cinema_admin_user`, `customers`, verification tokens | register, OAuth, link, unlink, setPassword, invitation, verification | whole columns written back from a row read before bcrypt or Google answered | an account keeps a way in, or an invitation |
| Accounts: sessions (the same, `generateTokenAndSetCookie.js`) | password, failed attempts, lock, refresh sessions, reset tokens | login, lockout, change and reset password, logout | counters and passwords read, compared, written; revocation in a later statement | a changed password ends old sessions; lockout at the threshold; a reset is used once |
| Team (`team.service.js`, onboarding) | `organizations`, `organization_members`, tokens | completeOnboarding, createMember, inviteMember, acceptInvite, updateMember, removeMember | look, revive, insert in separate statements | the owner stays a member; who was removed stays out; an owner acts in their own organization |
| Roles and permissions (`roles.Controller.js`, `requirePermission.js`) | `roles`, `role_permissions`, the cache | createRole, cloneRole, updateRole, deleteRole, loadAdminPermissions, clear | a read before a clear stored after it; edits checked against stale permissions | the cache follows the database; nobody grants what they never had |
| Notifications, broadcasts (`services/notification`, `broadcast.Controller.js`) | `notifications`, `notification_dispatch_log`, `admin_broadcasts`, messages at QStash | notify, scheduleShowReminder, cancelShowReminder, handleDispatch, schedule/delete broadcast | at-least-once delivery; cancellation before the message id is stored; nothing in a transaction | sent means sent; skipped and deleted stay silent; queued ends |
| Halls, screens, movies, settings, ads, API keys, dashboard, customer lists, audit log | one table each | CRUD and reports | little | |

How they interact: a payment turns held seats (booking) into BOOKED ones and
inserts a booking, and a redemption if the order had an offer; a cancellation
reads those bookings and creates refunds, which the payment webhook settles, and
takes back the reminders of the show; the timer moves the status that the
cancellation checks. Deleting a show cascades to all of them. None of the
booking and payment paths reads the status of the show. A role or membership
change clears the permission cache; an invitation is a row of the team, a token,
and an account without a password; a used code lets a customer set the password
that ends the sessions.

## Modules

| Module | Models | Kind |
|---|---|---|
| `SeatLedger` | the seat endpoints of one show as atomic operations | abstract specification |
| `SeatLocking` (`MCSeatLocking`) | the same endpoints statement by statement: row locks, unique keys, deadlock victims, the clock | implements `SeatLedger` |
| `Payments` (`MCPayments`) | orders, verify calls and webhooks of one show | extends `SeatLedger` |
| `Cancellations` | the status of one show, its bookings and refunds | |
| `ShowOverlap` (`MCShowOverlap`) | the timetable of one screen | |
| `Offers` (`MCOffers`) | offers, the orders that have one, redemptions | |
| `Otp` | the one-time codes of one customer | |
| `LoginMethods` | the ways into one account, of an admin or a customer | |
| `Sessions` (`MCSessions`) | password, lockout, resets and refresh sessions of one account | |
| `Team` (`MCTeam`) | organizations, memberships, invitations | |
| `Permissions` (`MCPermissions`) | roles and the permission cache of one organization | |
| `Notifications` | reminders, events and one broadcast, with QStash | |
| `SeatLedgerProofs`, `SeatLockingProofs`, `PaymentsProofs`, `LoginMethodsProofs`, `SessionsProofs` | theorems about the module of that name | |
| `ShowProofs` | theorems about `Cancellations` and `ShowOverlap` | |
| `CustomerProofs` | theorems about `Otp`, `Offers` and `Notifications` | |
| `OrganizationProofs` | theorems about `Team` and `Permissions` | |

The last three gather the proofs about one subject. The components in them share
no variable: each keeps a specification and an invariant of its own, and the
modules that stand beside another name theirs with a prefix (`ScreenSpec`,
`RoleTypeOK`, `offerVars`), so that both can be extended.

A definition introduced as a slip or a mistake is not part of a specification:
it is a wrong variant of the one after it, on which the run of the named module
finds one of its properties violated.

### SeatLedger and SeatLocking

`row` is the table `show_booked_seats` restricted to a show, `bookings` the
bookings of that show. A row that does not exist is `"ABSENT"`; nothing in the code
writes AVAILABLE, but the column defaults to it and the tests insert it, so the
initial states have both. In `SeatLedger` a hold carries one bit, `lapsed`; in
`SeatLocking` it carries its expiry and there is a clock.

In `SeatLocking` a connection of the pool runs one request at a time. The
fields of `tx[k]` are the locals of the handler: its seats, those still to visit, those
secured (`got`), whether one was unavailable (`results`), the instant the
handler read the clock. Uncommitted writes are `got` together with the kind of
the request, and `row` changes in the COMMIT step. `HoldSeatsSelect`,
`HoldSeatsInsert`, `HoldSeatsCommit` and `HoldSeatsConflict` are holdSeats;
`ConfirmBookingCheck`, `ConfirmBookingCommit` confirmBooking (its UPDATE and
INSERT touch only rows already locked, so they are one step with COMMIT);
`DeleteVisit`, `DeleteCommit` the DELETE of releaseSeats and of
cleanupExpiredHolds. `Waits`, `Take`, `Unlock`, `Deadlocked` are PostgreSQL at
READ COMMITTED, as the code relies on it. Between SELECT ... FOR UPDATE and the
UPDATE of the same row nothing can come between, so they are one step.

`Ledger` is the refinement mapping: a hold has lapsed when the clock is past
its expiry. The COMMIT steps map to the operations of `SeatLedger`, a tick to
`Lapse`, all the others to stutters.

### Payments

`order` is `payment_orders` (status `"pricing"` is a createOrder between its hold
check and its INSERT), `checkout` the page of each customer, `attempt` the
payments at Razorpay, `verifying[v]` a verify call between its reads and its
transaction, with the customer who is signed in where it was made: verifyPayment
books the seats *that* customer holds, and the booking is theirs
(payment.Controller.js:215, 270-290). A webhook books for the customer of the order.
`recorded` is `webhook_events`, `owed` the events Razorpay
has not seen acknowledged, `running` the events whose handler is still to run.
Transactions are single steps here, so a deadlock between verifyPayment (seats,
then order) and a webhook (order, then seats) appears as a failed handler.
Prices and offers are left out. The payment id of an order.paid event is taken
to be there, as `handleOrderPaid` takes it.

### Cancellations

One show, `Paid` bookings (those with a payment) and `Unpaid` ones (those of
confirmBooking, which leaves payment_status 'pending'). An admin's request is a
program counter: `CancelShowRead` ... `CancelShowCommit` is the transaction of
cancelShow, `RefundCall`, `RefundStoreId`, `RefundMarkFailed` one round of the loop
after it. bulkCancelShows is the same code for each id. `gateway` is
Razorpay's refund, `owed` its webhooks. `byHand`, `mishaps` and `between` are
history: no action reads them. `between` names the bookings that were paid
between the SELECT and the UPDATE of a cancellation.

### ShowOverlap

Times are instants of a day of `SlotsPerDay`; a show with `end < start` ends on
the next day. A writer's uncommitted rows are in `tx`; the trigger sees the
committed rows and its own, the unique index sees all. A statement that has to
wait, and one that is refused, is not enabled (a refused row of
createMultipleShows is skipped by its savepoint). `raced` is history: the pairs of
rows written in transactions that overlapped.

### Offers

An order goes from `looked` (the offer was read) over `checked` (its redemptions
were) to `created`, the three awaits of createOrder. It keeps the offer's code,
as the column does; the field `offer` is history. `paying[k]` is the transaction of
verifyPayment or of a webhook, with the offer its second query found by that
code and the account it books for: the caller of verifyPayment, or the order's
customer when it is a webhook. `bookedFor` is history, the accounts an order was
booked for. `touched` is history: offers renamed or deleted. Amounts, eligibility and
scope can only refuse an order, so they are left out.

### Otp

`code[t]` is the one row of a type of code; the upsert of sendOtp gives it a new
`id`, which stands for the code's value. A request is between its SELECT and its
UPDATE, and both UPDATEs name the row, not the code: `WrongCode` and `RightCode` act on
whatever code is there. The ten minutes of the send limit are the whole run of
the model, so rows never leave the window. `GoogleLoginCustomer` is here for the
other way to an active account: it sets is_verified without a code.

### LoginMethods

`account` is one row: whether it has a password, is verified, and the two columns
auth_providers and provider_ids. Each handler is a read, which keeps the row in
`request[r].seen`, and a write of the columns the code writes, computed from the
row it saw. `kind` chooses between the admins' and the customers' endpoints.
`tokens` are the verification tokens that have not expired; `TokenExpires` is the
end of their time, seven days for an invitation. `lost` is history: the last
invitation expired, or was deleted unused, which is what verifyAdminEmail and
resendVerificationEmail do; a new invitation ends it.

### Sessions

Passwords are versions; a session remembers the version it was opened with.
`compare`, `insert`, `change`, `use`, `set`, `revoke` are the places between the
statements of loginCinemaAdmin, loginCustomer, changePassword(Customer) and
resetPassword(Customer). An admin's change is one transaction, a customer's two
statements. Whether a comparison succeeds is a choice. A refresh tests the session
(`Refreshable`) and signs a new access token; it changes no state modelled here.

### Team

An organization is its owner and its name, which stand for its slug. The code
makes the slug of the name and eight characters of the owner's id, and its ON
CONFLICT sets the owner (auth.Controller.js:1517-1522): two owners whose ids
begin alike would get one organization, which is left out.
`members` is the table in the order of creation. An onboarding is `onboard` (the
check) and `create`; an invitation is `revive`, `insert` and `join`; the others are
one statement. `ResolveOrgId` is the ORDER BY of resolveOrgContext. `out` is
history: rows removed and not let in since; a change of status, to suspended
too, takes a row out of it.

### Permissions

`cache` is permissionCache, `uncleared` the entries whose change has committed and
whose clear is still to run. A role edit looks its caller's permissions up
(`look`, `fill`), deletes the role's permissions (`replace`) and inserts the new
ones (`commit`); a `SuperAdmins` member starts at `replace`, since
resolvePermissionIds looks nothing up for them and lets them write any permission
(roles.Controller.js:34). The cache is that of the one server the edits and the
clears run on: on other instances an entry stays stale until its CACHE_TTL. `held`
is history: who ever had which permission; `late`: entries
filled after what they hold had changed.

### Notifications

Each notification has a publisher (notify, scheduleShowReminder or the loop of
scheduleBroadcastFor), a message at QStash, a delivery in handleDispatch and,
perhaps, somebody taking it back. Every statement and call is a step and may
fail. `post` is the broadcast with its scheduling loop and its deletion. The 401 that
handleDispatch answers to an unsigned request (28-31) changes nothing and is left out:
deliveries are QStash's, with its signature. The two
foreign keys of the log row and the one of the broadcast's id are guards.

## Runs

Bounds are the CONSTANTS of the configurations. `SeatLedger` has no run of its
own: its actions run inside `Payments`, which extends it, `SeatLocking` refines
it, and its properties are proved.

| Run | Configuration | Shows |
|---|---|---|
| `locking` | 2 connections, 2 customers, 2 seats, lists of one or two seats (also the same seat twice), clock to 2 | refinement of `SeatLedger`; SeatSoldOnce, BookedMatchesBookings, AllOrNothing, SecuredStaysTrue; SameOrderNoDeadlock: only requests whose lists order the seats differently deadlock |
| `payments` | 2 customers, 1 seat, 2 orders, 2 payments, 2 verify calls at a time, by either customer, captured and failed events | OneBookingPerOrder, PaidOrderHasBooking, BookedSeatIsListed, BookedIsFinal; CaptureIsTracked: a captured payment is booked, on its way, or its events were dropped |
| `payments_lost` | 1 customer, 1 order, 1 payment, fair webhooks | violated: see below |
| `cancellations` | 2 admins, 1 paid booking, 1 unpaid, fair | RefundedOnce, RefundRowsAreCancelled, SettledIsPaidBack, CancelledHasRefundRow; InitiatedEnds: refunds end, but for three named accidents |
| `timetable` | 2 writers, 3 shows, 1 day of 5 instants | DaytimeDisjoint and RowsCanBeUpdated, but for rows whose transactions overlapped |
| `offers` | 2 customers, 2 offers, 2 codes, 2 orders, verify calls of one account for each | DiscountIsRecorded, RecordedWasGiven, OnceAfterPayment |
| `otp` | 2 guesses at a time, 2 attempts, 2 codes per type | AttemptsAreBounded, UsedWasEntered, ActivationIsProved |
| `login_methods` | 2 requests at a time, 2 providers | PasswordlessColumnsAgree, KeepsALoginMethod |
| `sessions` | 2 requests, 2 sessions, 3 passwords, 2 resets, lock at 2 failures | OldSessionsEnd, LockedAtThreshold, SpentStaysSpent |
| `team` | 2 admins with 2 names each, 1 staff, 2 requests, 3 memberships | OwnerIsMember, RemovedStaysOut, ActsAtHome |
| `permissions` | the owner, a member and a superAdmin, 2 roles, 1 permission, 2 edits | CacheFollowsDatabase, GrantedWasHeld |
| `notifications` | 2 notifications, 1 retry, fair | SentWasSent, SkippedIsSilent, DeletedIsSilent; QueuedEnds: a queued row ends, but for named accidents |

Why these bounds are enough to see the hazards:

- Two connections, admins, guesses or requests give every pairwise race: a
  stale read on one side, a write on the other. What needs three is left to the
  proofs, which have no bound.
- `locking`: two seats give every cycle of locks of two requests; the clock needs
  two ticks so that a hold of one tick can expire under way; nothing in the
  endpoints forbids a repeated seat, so lists have one. Both orders of the two seats
  are among the lists, so deadlocks do occur.
- `payments`: one seat is what two customers can contend for; two verify calls of
  one payment, from one account or two, race each other and the webhooks. With
  order.paid subscribed too the run has more than 12 million states; it takes the
  handler of payment.captured, and the proofs have every set of subscriptions.
- `cancellations`: the paid booking is what refunds are about, the unpaid one is
  what a revert counts and a cancellation leaves; no symmetry, because of liveness.
- `timetable`: five instants hold two disjoint shows and one that overlaps both,
  and one across midnight.
- `otp`: a second code is enough for a code replaced under a guess, two attempts
  for a guess over the limit. `sessions`: three passwords are two changes, or a
  change and a reset, that race; `MaxFails` bounds the count at the threshold, since
  a higher count writes the same lock.
- `team`: three memberships are an admin with two organizations of their own who
  joined another, or two rows of one member beside the owner's.
- `offers`: one calling account for each order is the order's own or another one,
  and the webhook books for the order's own beside it.
- `permissions`: one permission to have or not, the owner's role, a role to create,
  edit and delete, and two versions to race for; the member has no right to the
  permission the superAdmin may write.
- `notifications`: an event or a reminder shares nothing with others, so one kind
  is modelled at a time; a broadcast needs two recipients, one published before
  and one after. One retry stands for the three of qstashClient: a message that
  is delivered again and one whose retries are used up both occur. The three
  safety properties are proved for every number.

The counters `MaxClock`, `MaxCallers`, `MaxRows`, `MaxVersion`, `MaxFails`,
`MaxPassword`, `MaxReset` and `MaxSends` only cut off what goes on for ever.
`CHECK_DEADLOCK FALSE` stands in three configurations, where the system may really
have nothing left to do: a show that has ended with its refunds settled
(`cancellations`), offers that are deleted with every order made (`offers`),
messages that are delivered or gone (`notifications`).

### Fairness

- `Cancellations`: a cancellation under way goes on or is abandoned, Razorpay
  ends the refunds it accepted and delivers its events. No fairness for admins
  otherwise, and none for the clock.
- `Notifications`: a function that has begun goes on, QStash delivers what it
  holds, handleDispatch and a cancellation go on. Each includes the step that
  dies, so nothing is assumed to succeed.
- `Payments` (`payments_lost` only): weak fairness of deliveries, since Razorpay
  retries until an answer of 200, and strong fairness of a handler that runs again
  and again, so the loss is not one of a system that stops. No fairness for
  customers: verifyPayment may never be called.

Elsewhere progress is stated as an invariant (CaptureIsTracked), which needs no
fairness.

### Where the code does not do what the repository says

`payments_lost` is expected to find a violation of CapturedIsBooked: the event is
recorded, its handler fails, and the redelivery is "a duplicate", so a captured
payment has no booking. `findings` quotes the comment that says otherwise.

The models contain more of this kind. Properties above make room for the first
group explicitly, which is where to look for the step:

- CancelledHasRefundRow, `between`: cancelShow's UPDATE repeats the condition of its
  SELECT, not its result; a booking paid in between is cancelled without a refund
  (shows.Controller.js:561-587).
- DaytimeDisjoint, `raced`: two concurrent transactions both pass the overlap
  trigger (psql.sql:91-128).
- DaytimeDisjoint, `CrossesMidnight`: overlaps with a show that crosses midnight
  are accepted, and such a show is refused because of one that ended that morning
  (`Clashes`).
- CaptureIsTracked, `dropped`: the same loss as in `payments_lost`.
- OldSessionsEnd, `torn`, `excused`: a customer's change that dies before it revokes
  leaves old sessions alive, and so does a sign-in that compared before.
- AttemptsAreBounded: guesses at the same time exceed the limit by their number
  less one.
- SpentStaysSpent: two requests that read one reset token both set a password.
- SettledIsPaidBack, `byHand`: a manual settlement and refund.failed overwrite each
  other, and the last one stands.
- KeepsALoginMethod, `lost`: resending or verifying an address deletes the
  invitation too (auth.Controller.js:265); and when an invitation has expired
  (team.service.js:249, 325-328), an account that was made for it has no password,
  no provider and no way in until somebody invites it again.
- ActivationIsProved, `google`: a sign-in with Google activates an account
  registered with that e-mail, whether or not its signup code was entered
  (customerAuth.Controller.js:537-543).
- PaidOrderHasBooking names the payment and the seats, not the customer:
  verifyPayment never compares its caller with the order's customer, so a call from
  another account books the order for that account (payment.Controller.js:215,
  283-290), without the seats unless that account holds them.
- RecordedWasGiven, `callers`, and OnceAfterPayment, `BookedByOwner`: the redemption
  is recorded for the caller too (payment.Controller.js:317-326), so an order
  verified from another account only leaves its own customer free to use the
  offer again.
- GrantedWasHeld, `SuperAdmins`: "the caller may not grant a permission they do not
  themselves hold" (roles.Controller.js:17) has an exception for superAdmins
  (roles.Controller.js:34).
- CacheFollowsDatabase, `late`: a look-up that the change overtook fills the cache
  after the clear; acceptInvite clears nothing (team.service.js:338).
- OnceAfterPayment, `touched`, `bookedBefore`: two orders made before either is paid
  both get the discount, though migration_offers.sql:34 says once per customer;
  DiscountIsRecorded, `touched`: renaming an offer loses the redemptions to come.
- QueuedEnds, `mishaps`: a reminder whose publication failed stays queued.

The second group is visible in an action only:

- A hold lapses, another customer holds and pays the seat, and both payments give
  a booking: OneBookingPerOrder is about an order, not a seat. SeatSoldOnce holds
  for the seat endpoints and not in `Payments`, whatever psql.sql:163 says.
- createOrder looks up the active order by customer and show, not by seats, so
  other seats within ten minutes are answered with the old order
  (`CreateOrderExisting`).
- handlePaymentFailed deletes, and handlePaymentCaptured books, every seat of
  the order that is HELD, by whomever; the former sets the status of an order
  that is paid (`HandlePaymentFailed`, `SeatsToCapture`).
- one `try` covers Razorpay's refund call and the UPDATE that stores its id: if
  the answer or the UPDATE fails, a refund that is paid is recorded as failed
  (`RefundCall`, `RefundStoreThrows`).
- cancelShow's UPDATE does not ask for the status it read, so a show the timer
  has ended meanwhile is cancelled (`CancelShowUpdate`); the count of confirmed
  bookings and the UPDATE of a revert are separate statements (`RevertCount`,
  `ShowWrite`).
- the send limit of sendOtp counts rows of which there is one at most, so it never
  binds (`Recent`).
- two invitations of a removed member may leave two rows, one of them removed
  (`InviteMember`); deleteRole counts active members only and leaves the rest to
  the foreign key (`Unused`).

## Proofs

For every value of the constants, from the assumptions the modules name alone:

- `SeatLedgerProofs`: LedgerTypeOK, SeatSoldOnce, BookedMatchesBookings and
  BookedIsFinal. The inductive invariant is their conjunction:
  SeatSoldOnce is not inductive by itself, and holds because a booked seat is
  BOOKED (BookedMatchesBookings) and ConfirmBooking wants it HELD.
- `SeatLockingProofs`: `LockInv` is inductive. Beside the type and
  SecuredStaysTrue it needs: connections without a request hold
  no lock and nothing else (`NoLeakedLock`, `IdleClean`); the fields of a request
  fit its kind, and what it asked for is what it secured and what is still to
  visit (`RequestOK`); a locked row that is still absent is an insert of its lock's
  holder (`InsertHoldsLock`), without which a second hold could not be shown to
  wait; and a lock is on a seat that its request has visited (`LocksVisited`).
  From it follow SecuredStaysTrue, AllOrNothing, and that every step is a step
  of `SeatLedger` or a stutter: `LockingImplementsLedger`. `LockingSellsSeatsOnce`
  and `LockingRowsMatchBookings` carry the ledger's theorems over the refinement.
  SameOrderNoDeadlock follows too, for any number of connections and any order of
  the seats: in a circle of waiting requests take the one that waits for the first
  seat in the order (`FirstSeat`). Another waits for a seat this one has locked, so
  visited, and that seat comes before the one it waits for (`WaitsForLater`), a
  contradiction (`OrderBreaksCircles`).
- `PaymentsProofs`: the five properties of `Payments`. Calls and events carry a
  payment's id only, so the invariant says what an id stands for: who is called
  or told about was captured, or failed (`CallsFit`), an order has one captured
  payment (`CapturedOnce`), an order handed to a checkout stays (`PaymentsFit`),
  a booking has the seats of its payment's order, whoever it is for (`BookingsFit`),
  and a captured payment without booking has its event on the way, being handled or dropped
  (`EventsTracked`). The operations of `SeatLedger` that run beside the payments
  are stepped through with its lemmas.
- `ShowProofs`, `Cancellations`: the four safety properties. A request acts on what
  it selected statements before: `RequestFits` says which of that still holds,
  because only the transaction with the show's row (`locked`) cancels bookings,
  and `EventsFit` that what a webhook reports of a refund is so.
- `ShowProofs`, `ShowOverlap`: RowsCanBeUpdated and DaytimeDisjoint, for days of any
  length. The rows that are committed, and those any transaction would see, pass
  the trigger pairwise but for known races (`Fits`); this survives a commit only
  because no two transactions have written one row (`OneWriter`) and every two
  that wrote at a time are known to have raced (`RacesKnown`). Two daytime shows
  that overlap are of one date (`LaterDay`), where the trigger's comparison is
  that of the intervals.
- `CustomerProofs`, `Otp`: the three properties. A guess that read a row finds it
  again with an id that has not gone back (`GuessesFit`); an activation that waits
  rests on an entered signup code (`ActivationsFit`); and attempts on record plus
  guesses under way stay below the bound (`GuessesCounted`), which needs the
  number of requests to be finite.
- `CustomerProofs`, `Offers`: the three properties. The invariant follows the code
  of an order back to its offer (`OrderFits`), to what a payment found
  (`PayingFits`) and recorded (`RedemptionFits`), and says what a check of the
  redemptions had seen (`LookupFits`).
- `CustomerProofs`, `Notifications`: the three safety properties. Before its
  call a publisher knows there is no message (`PublisherFits`), a confirmed
  cancellation that it has gone (`TakingFits`), a delivery that the e-mail went out
  (`FlightFits`). For DeletedIsSilent, notifications past their tag are found by the
  broadcast's id (`TagsFit`), and a deletion after the loop has found all
  (`PostFits`).
- `LoginMethodsProofs`: the two properties of `LoginMethods`. `SeenFits` is about the
  rows the requests remember: an account keeps its row and its password, so a
  remembered row without one is as good as the one on record, and an unlinking
  has something left without its provider.
- `SessionsProofs`: the three properties of `Sessions`, for any number of requests and
  any tiers of lockout. A request that is to set a password has used its reset,
  and one that is to revoke keeps an excused session or none (`RequestsFit`); ids
  of resets only grow (`ResetsFit`).
- `OrganizationProofs`, `Team`: the three properties. What an onboarding, an
  invitation or an acceptance found, it still finds when it writes
  (`RequestsFit`), since organizations and accounts are not deleted. ActsAtHome
  follows from OwnerIsMember: of the rows of an owner's own organizations with a
  hall, all active, the oldest outranks every other row (`Oldest`).
- `OrganizationProofs`, `Permissions`: CacheFollowsDatabase is inductive with the type;
  GrantedWasHeld needs that whatever is in force (`ForceIsHeld`), cached
  (`CacheWasHeld`) or read by an edit (`ReadWasHeld`) was held.

The library's induction theorems cannot be used with these provers, but its
well-foundedness of the naturals can: `Oldest` and `FirstSeat` take a least
element of a set of numbers from it (`WFMin`), which is what an induction on
the size would do.

Every safety property and action property that a passing run checks is the
statement of a theorem. Only model-checked: the liveness properties InitiatedEnds
and QueuedEnds, since fairness is out of the prover's reach; and, since it is
violated, CapturedIsBooked. What the `external` definitions say of PostgreSQL,
Razorpay and QStash is assumed by runs and proofs alike.

## Not modelled, and the plan

Left out of the modules above: prices, notification preferences, audit records
and security logs, row locks inside the payment transactions and the pool of
connections, editShow's `status` field, the cascade of deleteShow, hall
assignments, access tokens, sendBroadcastNow (notify in a loop), more than one
show, screen, customer account, organization or broadcast at a time.

Next, in this order:

1. Proofs: that the seat operations of `Payments` are those of `SeatLedger` and its
   payment steps are not, step by step (which of them break SeatSoldOnce, and
   that no other does); lemmas that several of the invariants share.
2. `PaymentLocking`: verifyPayment and the webhook handlers statement by
   statement, with the second connection of the offer lookup; a refinement of
   `Payments`.
3. Deletion of shows with bookings in `Cancellations`; order.paid without a
   payment id.

Out of scope: halls, screens, movies, settings, ads, API keys, dashboard,
customer lists, the inbox and the audit log (single-row CRUD and reports), mail
and Firebase (I/O), the legacy `bookShow`, which addresses columns the tables do
not have.
