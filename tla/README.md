# late.sh in TLA+

late.sh is a clubhouse served over SSH: one Rust process per replica
(`late-ssh`), truth in one Postgres, and no other channel between replicas than
that database. Things that must happen once are claimed by a guarded UPDATE or
under a row lock, and what one replica changes the others learn over
LISTEN/NOTIFY. Inside a process, tasks share maps behind mutexes and talk over
queues and wake-ups. This project models that core: everything that moves chips
(the weekly pot, the wallet, payouts for games, the poker table), the path from
a commit to every replica's screen, what a connection takes and gives back, the
loop that draws a session's screen, and the count of time spent online.

## 1. Inventory

| Component | State | Operations | Talks to |
|---|---|---|---|
| Weekly pot (`late-core/src/models/pot.rs`, `late-ssh/src/app/pot/svc.rs`) | tables `pots`, `pot_tickets`; an advisory lock; per-replica snapshot | `buy`, `settle_due`, `claim_reminder`, `refresh`, `apply_change` | chip wallet, listener, activity feed |
| Chip wallet (`models/chips.rs`) | `user_chips`, `chip_ledger` | `apply` (credit, floored debit), gifts, gilds, grants, `restore_floor` | everything that pays or charges |
| Payouts (`models/game_payout.rs`) | claims by period and by cooldown | `grant_period`, `grant_cooldown`, `grant_multi` | chip wallet |
| House tables (`app/lobby/house/`) | a `SharedState` per table behind a mutex | sit, leave, deal, bet, settle; timeouts | chip wallet |
| Postgres listener (`pg_listener.rs`) | one connection per process, one unbounded queue per domain | `start`, `listen_once`, `route`, `read_until_ok` | 16 channels, the domains' workers |
| SSH admission and roster (`ssh.rs`, `rate_limit.rs`, `ircd/conn.rs`) | attempts and slots per address, global permits, `active_users`, the session and IRC registries | `admit`, `auth_publickey`, `Drop for ClientHandler`, IRC registration | session registry, leaderboard, profiles |
| Render loop (`ssh.rs`, `render_signal.rs`, `terminal_probe.rs`) | dirty flag and wake-up, input queue, diff buffers, output budget, latency probe | `data`, `drain_input`, `render_once`, `window_adjusted` | the session's App, russh |
| Leaderboard (`app/leaderboard/svc.rs`, `models/leaderboard.rs`) | presence per pod, unconfirmed batches, counted spans | connect, disconnect, flush, credit | roster, Postgres |
| Presence, drain handoff, paired clients | leases, resume tokens, registries by session token | publish, expire, resume, pair, forget | listener, session registry |
| Daily matches, audio queue, referrals, drink rounds | rows or a task per match, item | join, move, settle; claim | wallet, listener |
| Chat, quests, shop, arcade, doors, IRC, web, CLI | see `PROJECT.json` | | |

What is hard in it: two replicas doing the same thing in the same second; a
statement that waited for a lock and goes on with what it saw before; a clock
read before the wait; a COMMIT whose acknowledgement is lost; a process that
dies between a commit and the line it was going to post; a notification
committed while nobody listens; two tasks publishing re-reads of different age;
a wake-up between a look and a wait; a frame dropped after the diff buffers
moved on; a debit answered after everyone else has left the table. `PROJECT.json`
lists these with the lines where they bite.

What makes each modelled part correct:

- pot: one open pot; an exact daily cap; no ticket lost by or added after a
  draw; a winner paid exactly once; nobody charged without tickets or the
  reverse; nobody pushed under the chip floor by a buy; increasing draw hours;
  at most one line of each kind in #lounge; due pots settled, buys ended;
- wallet and payouts: a gift arrives or never left; one stipend per user; the
  ledger explains the balance where no floor restore has raised it; a claim pays once, with all its rows; cooldowns
  keep their distance; crossing transactions end;
- poker: somebody who can move the hand on is always on turn; every chip the
  ledger took for a hand is found again; nobody is compared with a bet they did
  not match; side pots are shared out to the best hands; hands end;
- listener and feed: whatever is committed in a gap is followed by a re-read;
  what is delivered is in commit order, once; no badge shows what never was;
  badges converge; a winner is told at most once per replica;
- connections: slots, permits, roster counts, the online tracker and the
  registries equal what the live connections hold; the rate limiter errs on
  neither side by more than the delay of a lock;
- session: queued input always has a wake-up; a diff only reaches a screen it
  was computed from; what is undrawn is marked; a paused client owes credit;
  memory is bounded; a round trip is measured between a query and its own reply;
- online time: no moment counted twice or lost, in whatever order the pods'
  batches land.

## 2. Modules

| Module | What it models |
|---|---|
| `PotMath` | `payout_for`, `next_draw_at`, the views of `pot_tickets` |
| `PotSchedule` | `next_draw_at` against the calendar's set of draw instants |
| `PotDraw` | the walk of `draw_from_seed`, one iteration per step |
| `Raffle` | what the pot promises: atomic buys, draws, rolls and reminders |
| `Pot` | `buy`, `settle_due`, `claim_reminder` statement by statement, on replicas over one Postgres; it implements `Raffle` |
| `PotInv`, `PotProofs` | the inductive invariants of `Pot`, their proof, the safety theorems, the refinement |
| `PgListener` | the LISTEN connection: reconnect, resync, route |
| `PgFanout` | listeners composed with writers and domain workers |
| `PotFeed` | listeners composed with the pot's commits, notify worker, sweeper's refresh, snapshot and banner |
| `FeedProofs` | the invariants of `PgFanout` and of `PotFeed`, and their theorems |
| `ChipLedger` | the wallet's operations as transactions of statements |
| `GamePayout` | the claim table and the paths that pay for games |
| `WalletProofs` | the invariants of `ChipLedger` and of `GamePayout`, and their theorems |
| `Connections` | admission, authentication, roster, registries, drops, deletions |
| `ConnectionsProofs` | the invariants of `Connections` and of `IpRateLimiter`, and their theorems |
| `IpRateLimiter` | `allow` and `cleanup` for one address |
| `RenderLoop` | the render loop against the SSH handler and a door's reader |
| `OutputBudget` | the byte budget against russh's window |
| `TerminalProbe` | latency probes and untagged replies |
| `SessionProofs` | the invariants of `RenderLoop`, `OutputBudget` and `TerminalProbe`, and their theorems |
| `OnlineTime` | presence per pod, flushed in batches, credited once |
| `PokerPots`, `PokerShowdown` | side pots, awards and odd chips; a showdown layer by layer |
| `PokerTable` | the poker table with its debit and payout tasks |
| `SumFacts` | lemmas about finite sums, extremes and iterations, for the proofs |
| `ReckoningProofs` | the schedule, the draw and online time: their invariants and theorems |
| `PokerProofs` | the showdown and the table: their invariants and theorems |
| `MCPot`, `MCPotFeed`, `MCWallet`, `MCConnections`, `MCSession`, `MCPoker` | instances |

**`Pot`.** A worker is a pooled connection running a buy, or a replica's sweeper
task. `pc` is the statement it runs next, `tx` what it has in hand, and the
tables are what is committed. Postgres runs at READ COMMITTED: `SELECT ... FOR
UPDATE` is two steps, the snapshot (`BuySelect`, `SettleSelect`) and the row
lock with the WHERE re-evaluated on the row as it is then (`BuyLock`,
`SettleLock`); the two steps of `claim_reminder`'s UPDATE are `ClaimSearch` and
`ClaimUpdate`. A transaction's writes appear at COMMIT, which is sound here
because every row it writes is locked or new; locks last until then; an early
return rolls back. Two statements that only read their own transaction's writes
(the total read back after a buy, the holders for the outcome) are left out.
`settle_due` and `claim_reminder` read the clock before they have a connection,
so `tx.now` may be old. Faults: any statement errs (`BuyFail`, `SettleFail`), a
COMMIT lands and its acknowledgement is lost (`...Unacknowledged`), a replica
dies (`Crash`). The seed of a draw is abstracted to "any ticket in the hat",
which `PotDraw` justifies. The partial unique index on open pots is deliberately
not enforced: the model shows it is never needed. Amounts are unbounded
integers: `saturating_mul` on an `i64` of chips saturates far beyond what ten
tickets a day can reach. Retired and unread columns (`announced_threshold`,
`opens_at`) are left out, and so is the deletion of accounts.

**`PgListener`, `PotFeed`.** `link` goes from down to connected, listening
(Postgres has run LISTEN, the process does not know) and live (Resync queued).
What commits while a session listens is put on its `wire`; a dropped connection
loses the wire; queues survive it. Each transaction of `Pot` is one commit with
its notification (the refinement is why that is legitimate). `refresh` is three
steps, `find_open`, `holders`, publication, taken by the notify worker and by
the sweeper independently. `seen` and `failed` are auxiliary.

**`ChipLedger`.** An operation is the list of its statements; a worker runs them
one by one, waits for a row another transaction has written, sees its own
writes, and publishes at `CommitTx`. `Deadlocked` is Postgres failing one of two
transactions that wait for each other; `Fail` is a statement or a connection
lost. `granted` sums the admin's grants, which the code gives no ledger row.
`restore_floor` is one statement that raises a row and reads what it held, in an
order the statement does not fix: its action adds the difference to the ledger or
nothing. `lifted` is history, the users a restore has raised:
`ChipsAreExplained` says of everyone else that ledger and grants sum to the
balance, and of everyone that they claim no more than it, and the run
`floor_restore` shows that for `lifted` users they may claim less. Floors are
restored only for users with a row: both callers settle a seat that was debited.

**`GamePayout`.** The gates of a grant (unique event, unique pair day, cooldown)
are checked and then inserted, under the advisory lock except in
`grant_period`. An insert waits for an uncommitted row of its key.

**`Connections`.** Every map of a pod has its own lock, so a step is one lock
section: the per-IP count, the permit, the roster, each registry. A connection
is used once. `DropHandler`, `DropFields` and the spawned `Unregister` are the
clean-up in the order Rust runs it; the `App` belongs to the handler and the
render loop, and whichever lets go last drops it. Deletion of an account runs
beside its connections.

**`RenderLoop`, `OutputBudget`, `TerminalProbe`.** Content is a number that grows
with each visible change, a frame a pair of numbers; a diff sent to a screen that
does not show its source garbles it. Setting `dirty` and storing the Notify
permit are two steps. `OutputBudget` has russh (external) as an event channel, a
pending buffer and a window, and a client that returns credit at a threshold.

**`OnlineTime`.** A transaction is one step because it locks all its rows before
reading. A row's counted spans are a set; the loops of the code that sort spans
by their start are folds in that order (`InTimeOrder`). `seen`, `reported`,
`horizon` and `overdue` are history.

**`PokerTable`.** `table` is `SharedState`; each handler is one step because it
runs under the mutex, and ends with the part every handler shares (`Publish`:
auto check/fold, countdown, the settlement task). Debits (`commits`) and payouts
(`payouts`) are tasks with a database step and a report step. `books` is history:
what the ledger took and paid for each hand. Cards are abstracted to any order of
strengths at the showdown. `commits` are told apart by a number reused only when
no debit of the seat under way has it, which is what `next_request_id` gives.

## 3. Runs

Modules that share no variable and do not call each other are instantiated
together and a variable chosen initially (`part`; in `MCPoker`, `seated`) says
which one moves: the states reached are those of each alone, and every action is
still fired.

| Run | Instance | Shows |
|---|---|---|
| `pot` | 2 buyers on one account, 2 sweepers, 2 pots, 2 days, 1 fault, another spender; at most 3 under way | one open pot, cap, charging, counting, one payment, one line, final rows, floor, and the inductive invariant |
| `pot_live` | 1 buyer, 2 sweepers, 1 fault, fairness | due pots are settled, buys end; `Pot` implements `Raffle` |
| `feed` | 1 replica, 2 pots, 2 buys, 2 faults, fairness; beside it 2 plain domains, 3 commits, 2 drops; the code's calendar for 400 hours; 4 holders of up to 3 tickets | honest badge, commits heard, win told once, badges converge; no gap without a resync, commit order; draw instants, fair draws |
| `wallet` | 2 users, 2 connections, 3 operations, 1 fault; 2 granters, 3 grants of 2 events, 1 abort; 2 pods, 1 fault, 1 crash | gifts whole, one stipend, ledger explains balances, floor; claims pay once, cooldowns; all ends; exact online time, counted in the end |
| `connections` | 3 SSH and 2 IRC connections of one user and address, limits 2, 1 deletion; 4 attempts on a limiter of 2 | slots, permits, roster, tracker and registries agree; limiter bounds |
| `session` | 3 inputs, 2 drops, resize, door output, 4 events in all; 24 bytes; 16 ticks of probes | wake-ups, screen, budget, probes; screen catches up, pauses end |
| `poker` | 3 seats, 3 players or 2 heads-up, stack 4, blinds 1 and 2, one hand, one oddity; showdowns of 3 seats, 4 chips, 3 strengths | somebody on turn, chips accounted for, bets matched, hands end (heads-up, fairness); side pots |
| `failed_buy`, `feed_win`, `floor_restore`, `poker_twice`, `poker_unpaid` | as the runs above, smaller | five statements of the repository that the code does not keep (section 6) |

Several of the properties are conjunctions of named parts, one idea each:
`DrawsAreOrderly`, `PotKeepsMoving`, `PresenceAgrees`, `SessionsAreReachable`,
`LimiterCounts`, `ScreenIsTracked`, `InputReachesTheScreen`, `BudgetCounts`,
`ProbesAreMatched`, `LateTimeIsExact`, `DrawIsFair`, `ShowdownIsFair`,
`ChipsAreExplained`, `ClaimsPayOnce`, `TransactionsEnd`, `ChipsAreAccounted`,
`ListenerLosesNothing`. The type invariants of `Connections`, `RenderLoop` and
`PokerTable` are parts of these; that of `Pot` is the first part of `IInv`, that
of `PotFeed` of its proved invariant.

Bounds. Constants named `Max...` end the behaviours; each is large enough for
the race in question to happen, which the mutants confirm: for every property of
a passing run there is a small change of the model, beside the definition it
changes, under which TLC finds the property violated. Two buyers on one account
are the smallest race on the cap, two sweepers on the draw, two pods on a
moment, two connections on a roster entry and one over a limit of two. Weeks are
shortened in `pot` to days of one hour so that a draw falls within the horizon;
the calendar in `feed` has the real numbers. `pot` leaves out states with all four workers
busy at once. Replicas do not interact in `PotFeed` except through commits, so
one shows what any does. In `poker` the streets are PreFlop and River: Flop and
Turn are left the same way as PreFlop is. Players who are away are
interchangeable, so the lowest-numbered sits down; nobody sits down after the
last hand. An oddity is a debit refused or answered wrongly, a credit that
failed, a low balance reported, or a switch of auto check/fold. Symmetry is used
in safety runs only. Deadlock is not checked in `feed` and `poker`, where commits,
hours, hands or layers run out.

Fairness. `Pot!FairSpec` has strong fairness of each buy's and each sweeper's
steps: tokio tasks keep being polled, the sweeper loops for ever, and Postgres
queues the waiters of a lock, so one that is granted again and again is granted
to each. The model's lock is taken by any waiter, hence strong. Starting a buy,
the clock and faults have no fairness. The others have weak fairness, stated in
the MC modules: of the listener, of each worker and sweeper and of the first
opening (`feed`); of running statements (`wallet`, weak suffices because
operations are bounded and so locks cannot be taken from a waiter for ever); of
the loop's deadlines and passes, of tasks that are between two halves of a
wake-up, of russh and of a client that reads (`session`); of debits, payouts and
the countdown (`poker`: they are spawned tasks and a sleep); of a pod's flush
(`wallet`). What users do is never fair.

## 4. Proofs

All proofs are for arbitrary constants satisfying the assumptions named in the
modules: any number of replicas, buyers, accounts, pots, connections, granters,
commits, seats, players, pods and faults, any price, cap, floor, window and
calendar. Most of the assumptions say that a bound is a number and that a marker
is not a member of the set it marks. These say more: `CalendarAssumption` (a day and a week have hours),
`UsersAssumption` and `DaysAssumption` (finite, so that tickets can be counted),
`FeedAssumption` (PotService asks for one channel), `ChipsAssumption` and
`LimitsAssumption` (floors, amounts and limits are not negative),
`LimiterAssumption` (a limit of 0 switches the limiter off, so it is positive),
`PokerAssumption` (a hand starts PreFlop and ends on the River; blinds are
positive), `BudgetAssumption` of `OutputBudget` (the budget exceeds the window by
one send, which its comment demands), and `DelayAssumption` of `TerminalProbe` (a
terminal answers a query before its timeout and one more interval have passed,
without which replies that carry no tag cannot be told apart).

An invariant worth checking is seldom inductive: a step relies on what an earlier
step of the same actor saw. Each proof therefore adds what an actor part way
through knows, and why nobody else can make it false.

- `PotProofs`. A COMMIT relies on what an earlier statement of its transaction
  checked. `IInv` adds, for each statement, which locks the worker holds and which
  checks they preserve (`BuyInv`: the row lock keeps the pot open and the room
  under the cap, the chip lock the balance; `SweepInv`: the advisory lock keeps the
  seen pot the open one, or none open; the row lock keeps the hat complete), and
  for the tables (`TablesInv`) that open rows are unsettled and settled ones count
  their tickets. One lemma per action shows that it keeps `IInv`; frame lemmas
  (`OthersFrame`, `BuyerFrame`, `SweeperFrame`) cover the workers an action does
  not touch. `Invariance`, `TypeCorrect`, `OneOpenPot`, `DailyCap`,
  `EveryTicketCounted`, `PaysOnce`, and the action properties
  `SettledRowsAreFinal` and `ChipFloorRespected` follow.
  `OrderlyDraws` needs `OrderInv` on top: rows follow each other with later draw
  hours (`RowsFollow`, from `next_draw_at` being after the hour it is given), and a
  sweeper about to post a line is the only one who will and nobody has
  (`TellsOnce`, `TellersDiffer`): the UPDATE that let it get there happens once.
  `ChargedForTickets` is inductive given `IInv`; its work is in counting
  (`BoughtTickets`: the upsert of n tickets adds n elements to the buyer's share of
  the hat and none to anybody else's).
  The refinement, from `IInv`: COMMIT of a buy is `Raffle!Buy`, of a settlement
  `Draw` or `Roll`, of a first opening `Open`, a reminder stamp `Remind`; all
  else stutters. Hence `Refinement`.
- `FeedProofs`. `FanInv` says of each domain of each process that what was handed
  over and then what is on the wire is in commit order and numbered no higher than
  the commits so far (`InOrder`; the upper end is what makes the next one fit), and
  that there is no gap while live (`NoGap`). `TakeKeeps` and `QueueHands` reduce
  the queue and the worker to one sequence that only grows. Hence
  `ListenerNeverLoses`.
  `FeedInv` adds to the badge's honesty that of the answers
  under way (`Honest`), and to the property of a quiet replica one of a busy
  one (`Hears`): a live replica whose worker has not read after the last commit
  still has a message on the wire or in its queue, or is reading. Hence
  `HonestBadges` and `CommitsAreHeard`. `WinsInv` follows the news of one win
  through a replica: it is in at most one of four places, on the wire, in the
  queue, in the worker's hand or told (`OneNews`), and nowhere before the draw.
  Hence `WinsAreToldOnce`.
- `WalletProofs`. A transaction in flight has written nothing for others.
  `LedgerInv` says what it has in hand: what is left of its operation, read from
  the end (`Script`), that it owes only between a gift's two halves
  (`OwesInsideAGift`), that what it adds to a balance it adds to the books, a floor
  restore possibly less (`TxBalances`), that a stipend is for a row it made (`StipendIsForBirth`), that
  it holds the lock of every row it wrote (`WritesAreLocked`), and that those it
  debits are above the floor it promised (`Solvent`). Hence
  `ChipsAreAlwaysExplained` and the action property `GivingAlwaysKeepsTheFloor`.
  `PayoutInv`: a granter past its checks holds what keeps them true,
  the advisory lock (`GatesAreLocked`, `PastTheCooldown`) or the uncommitted row
  of its key (`KeysAreFree`, `GrantsAreFresh`), and has written the rows of the
  statements it is past (`WroteItsRows`). Hence `ClaimsAlwaysPayOnce` and
  `CooldownAlwaysKeepsDistance`.
- `ConnectionsProofs`. `ConnInv`: the counters equal the connections at certain
  places, which is inductive once each connection's own record is known to be
  consistent (`Local`: which of slot, permit, roster entry, tokens and `App` it has
  at each place) and an account under deletion is no longer one. Hence
  `AdmissionAlwaysBalances`, `PresenceAlwaysAgrees`, `SessionsAlwaysReachable`.
  `LimiterInv`: the limiter's queue holds clocks, and the property counts calls, so
  the invariant says which call each entry belongs to (`Remembers`): different
  calls, in the order they were let through, and every call so recent that no clock
  under way can have expired it is among them. Entries need not be in the order of
  their clocks; `PrunedIsATail` and `FrontIsFresh` say what a sweep may leave behind
  all the same. Hence the action property `LimiterAlwaysCounts`.
- `SessionProofs`. `RenderInv` follows one wake-up through its two halves, the flag
  and the permit (`InputIsSeen`), and the frame from the buffers to the terminal
  (`FrameIsTracked`). `ProbeInv`: at most one query is unanswered, in flight or
  given up so early that the next may not start before its answer is overdue
  (`OneQueryIsOut`). Hence `WakeupsAreNeverLost`, `ScreenIsAlwaysTracked`,
  `ProbesAreAlwaysMatched`. `BudgetInv` follows the bytes: the window is what the
  client opened less what it has not returned (`WindowIsConserved`), the count runs
  ahead of what russh holds by no more than a pass of sends (`CountIsAhead`) and,
  while the window is open, behind by no more than a reset that came too early
  (`CountIsRecent`). Hence `BudgetAlwaysCounts`.
- `ReckoningProofs`. `NextDraw` reduces `next_draw_at` to days and hours by the
  uniqueness of a division; `ScheduleInv` carries it along the clock. `WalkInv`:
  the loop over the holders has left behind exactly the tickets of the holders
  before the one it looks at. Hence `NextDrawIsAlwaysFirst` and `DrawIsAlwaysFair`.
  Online time rests on three facts about loops, for any spans: merging leaves spans
  apart and covers the same moments (`MergeAll`), `uncounted_milliseconds` of spans
  that are apart counts the moments that are new (`UncountedIsNew`), so a batch
  credits each new moment once, however its increments overlap (`CreditAll`).
  `TimeInv` then relates a row to what was reported of its user (`RowIsExact`) and
  says in which of its places a pod holds what it saw (`TimeIsHeld`); that a moment
  was credited twice is known to have been too old (`RowCredited`). Hence
  `LateTimeAlwaysExact`.
- `PokerProofs`. `ShowdownInv` is a relation of the layers paid so far: to the
  contenders, to nobody more than it matched, to the best hand all it matched;
  `LayerKeepsItFair` carries it up a layer. Hence
  `ShowdownIsAlwaysFair`; the same relation bounds what a table credits by its pot.
  For the table, `Typed` holds always. While no hand has ended under a debit
  (`Whole`), the debits under way are those the seats wait for (`Tracked`), the turn
  is with a seat that can bet, blinds are missing or nothing is open (`Turned`), one
  payout at most is under way (`Settling`), and the books of the hand agree with the
  table (`Present`); `Past` says of the whole hands before that they are closed.
  Handlers are long and end alike, so the proof goes by their parts: `Well` is every
  table, `Outcome` where a step of the betting leads, `Published` what automatic
  turns, the clock and the settlement make of it, and `PublishKeeps` the one
  argument for all handlers that end so. Hence `PokerInvariant`,
  `SomebodyAlwaysOnTurn`, `ChipsAlwaysAccounted`, `ContendersAlwaysMatch`.
- `SumFacts`. The community modules sum and fold with a recursive function over the
  subsets of a set. Induction over sets would need a theorem with an operator as a
  parameter; instead each lemma looks at a minimal subset on which it fails. That
  gives existence, uniqueness and independence of the order for sums, and the first
  two for an iteration that picks its members in an order of its own.

Only model-checked:

- the liveness properties (`PotKeepsMoving`, `BadgesConverge`, `TransactionsEnd`,
  `InputReachesTheScreen`, `PauseEnds`, `HandEnds`, `TimeIsCounted`): fairness is out
  of the prover's reach;
- the statements of the five runs of section 6, which are false.

Every safety property of the passing runs is a theorem.

## 5. Plan

1. Pot, wallet as it uses it, listener, feed: done, proved.
2. Connections, render loop, probe, wallet, payouts, limiter, budget: done, proved.
3. Online time, poker: done, proved.
4. Then the other house tables, of which blackjack shares poker's debits and
   settlements; daily matches; presence leases and drain handoff; audio queue;
   referral and drink rounds.

## 6. Where the repository and its code differ

With a run:

- `failed_buy`: a buyer whose COMMIT landed and whose connection died before the
  acknowledgement is told that nothing was charged.
- `feed_win`: a draw committed while a replica's listener reconnects is re-read
  there, but its winner is not told.
- `floor_restore`: "the one balance change with no ledger row" (chips.rs:765) is
  to be the admin's grant. `restore_floor` raises the row in `upserted` and takes
  what to write to the ledger from `prior`, which reads the same row FOR UPDATE.
  The main query selects from `upserted`, so the row is raised first; FOR UPDATE
  then passes over a row its own command has updated, the difference is 0, and
  the top-up has no ledger row. No test looks for one.
- `poker_twice`: the player on turn has a debit under way and everyone else
  leaves. The hand is paid at once; the answer of the debit finds a hand that is
  over, whose commitments are still there, and ends it again: it is paid twice.
  The second report then comes in the middle of the next hand: it clears
  `settlement_pending` and empties the seats of those who are leaving, with the
  chips they put in. That is why the poker properties are stated for hands of a
  table on which no hand ended under a debit (`Whole`).
- `poker_unpaid`: both blinds leave before the button has acted. The button wins
  with nothing committed, no settlement names it, and the blinds' chips go
  nowhere.

Seen while modelling:

- The reminder's UPDATE can land without its answer; the stamp is spent although
  `Failed` says the claim was not, and the last call is never posted.
- An account deleted under its connections leaves its user online in the tracker
  when the roster entry goes: the last leave finds no entry to report.
- `side_pots`: chips a folded seat put in above every contender are paid to
  nobody (`PotIsSharedOut` says exactly which).
- A poker debit that landed and whose answer is lost is reported as "Chip debit
  failed. Try again."; the chips are gone (`strayed`).
- `sync_balance` can lower a stack below a debit under way; the stack is then
  negative and its seat not all-in.
- Refused bets restart the clock of the player on turn, so `HandEnds` depends on
  there being finitely many of them (`MaxOddities`); an idle kick that fires
  while blinds are posted or a pot is settled is not repeated.

## 7. Not modelled

The components marked `not_modelled` in `PROJECT.json`, with the reason for
each. The repository is about 480 000 lines, by far most of them door games,
puzzles, screens, chat rendering and their tables of content: sequential rules,
layout and data, with no state shared between actors and nothing to interleave.
The models cover the services that coordinate, a small share of the lines. Of
what does coordinate, the plan's fourth item is left. Within the modelled parts:
the wording of lines, metrics, read-only queries and snapshots, the cards of a
poker hand, and the arithmetic of `Instant` and time zones. Three details are
collapsed: an IRC session that fails between `register` and `try_register`, the
time a latency probe takes to leave, and the truncation of online time to
milliseconds. Two cases are left out: `PokerTable.kick_inactive_user` takes
no seat whose debit is pending, which `poker/svc.rs:1938` does not ask and the
five minutes of the inactivity timeout make true; and `ChipLedger` restores the floor
of users with a row, though the upsert could create one, since whoever restores a
floor has debited the seat first.
