----------------------------- MODULE PokerTable -----------------------------
(***************************************************************************)
(* The poker house table (late-ssh/src/app/lobby/house/poker/svc.rs).      *)
(* SharedState sits behind a mutex and changes in one step per handler;    *)
(* the chips are in Postgres, so every bet is a debit asked for under the  *)
(* mutex and answered later by a task of its own, and every pot is paid by *)
(* a task that reports back.  Wallets are other people's too: a debit may  *)
(* be refused and a balance read low at any time.  Cards are abstracted to *)
(* the strengths they turn out to have at a showdown.                      *)
(***************************************************************************)
EXTENDS PokerPots, Sequences, SequencesExt

CONSTANTS
    Players,            \* numbered
    SmallBlind,         \* settings.small_blind()
    StartingStack,      \* settings.starting_stack()
    MaxMissedActions,   \* MAX_MISSED_ACTIONS
    Streets,            \* bound: the rounds of betting, the first and the last of
                        \* PreFlop, Flop, Turn and River at least
    Raises,             \* amounts the clients raise by
    MaxHands,           \* bound: hands dealt
    MaxOddities,        \* bound: debits refused or answered wrongly, payouts failed, low
                        \* balances reported, switches of auto check/fold
    None                \* Option::None

\* PendingCommit: what a debit under way is for.
Pendings == [req : Nat, blind : BOOLEAN, amount : Nat \ {0}, target : Nat, raise : Nat]

ASSUME PokerAssumption ==
    /\ {SmallBlind, StartingStack, MaxMissedActions} \subseteq Nat \ {0}
    /\ {MaxHands, MaxOddities} \subseteq Nat
    /\ Streets \in Seq({"PreFlop", "Flop", "Turn", "River"})
    /\ Len(Streets) >= 2 /\ Head(Streets) = "PreFlop" /\ Last(Streets) = "River"
    /\ Raises \subseteq Nat /\ Players \subseteq Nat
    /\ None \notin Players \union Seats \union Pendings

BigBlind == 2 * SmallBlind

Phases == {"Waiting", "PostingBlinds", "Showdown"} \union Range(Streets)

\* The ways the hands of a table can compare, ties included.
Strengths ==
    {s \in [Seats -> 1 .. NumSeats] :
        \A i \in Seats : s[i] = 1 \/ \E j \in Seats : s[j] = s[i] - 1}

Hands == 1 .. MaxHands

VARIABLES
    table,      \* SharedState
    commits,    \* commit_request_task: debits under way
    payouts,    \* persist_settlements_task: pots being paid
    books,      \* for every hand, where its chips went (what the ledger shows)
    oddities    \* how many of those there were

vars == <<table, commits, payouts, books, oddities>>

EmptySeat ==
    [user |-> None, stack |-> 0, dealt |-> FALSE, folded |-> FALSE, all_in |-> FALSE,
     acted |-> FALSE, leaving |-> FALSE, auto |-> FALSE, committed |-> 0, street |-> 0,
     pending |-> None, missed |-> 0]

Init ==
    /\ table = [phase |-> "Waiting", hand |-> 0, dealer |-> None, big |-> None,
                active |-> None, bet |-> 0, min_raise |-> BigBlind, blinds |-> 0,
                countdown |-> None, settling |-> FALSE, due |-> {}, reveal |-> FALSE,
                seat |-> [i \in Seats |-> EmptySeat]]
    /\ commits = {} /\ payouts = {}
    /\ books = [h \in Hands |-> [taken |-> 0, strayed |-> 0, pot |-> 0, paid |-> 0,
                                 unpaid |-> 0, settled |-> 0, cut |-> FALSE]]
    /\ oddities = 0

\* One of the bounded events.
Oddity == oddities < MaxOddities /\ oddities' = oddities + 1

-----------------------------------------------------------------------------
(* Questions about a table.  `due` holds the settlements a handler returns  *)
(* and `reveal` says that it compared hands; between steps they are unset.  *)

ActionPhase(t) == t.phase \in Range(Streets)

SeatOf(t, u) == {i \in Seats : t.seat[i].user = u}

\* active_player_indices
Active(t) == {i \in Seats : /\ t.seat[i].user # None
                            /\ t.seat[i].dealt
                            /\ ~t.seat[i].folded}

\* actionable_player_indices
Actionable(t) == {i \in Active(t) : ~t.seat[i].all_in}

\* playable_indices
Playable(t) == {i \in Seats : t.seat[i].user # None /\ t.seat[i].stack > 0}

\* The first of `among` after seat `start`, going round the table.
NextAfter(start, among) ==
    IF among = {} THEN None
    ELSE LET far(i) == (i - start - 1) % NumSeats
         IN  CHOOSE i \in among : \A j \in among : far(i) <= far(j)

Committed(t) == [i \in Seats |-> t.seat[i].committed]

Pot(t) == Total(Committed(t))

ToCall(t, i) == t.bet - t.seat[i].street

\* Mutant: a seat that has acted is done, whatever was bet after it.
StreetCompleteActed(t) ==
    /\ Active(t) # {}
    /\ \A i \in Active(t) : t.seat[i].all_in \/ t.seat[i].acted

StreetComplete(t) ==
    /\ Active(t) # {}
    /\ \A i \in Active(t) : \/ t.seat[i].all_in
                            \/ t.seat[i].acted /\ t.seat[i].street >= t.bet

\* should_runout_to_showdown
RunsOut(t) == Cardinality(Active(t)) > 1 /\ Cardinality(Actionable(t)) <= 1

-----------------------------------------------------------------------------
(* The end of a hand, and the way there from any action.                    *)

\* Op(x), with x evaluated once.
With(x, Op(_)) == CHOOSE r \in {Op(y) : y \in {x}} : TRUE

\* settlements_from_credits, settlements_for_single_winner: one for each seat
\* that put something in.
Settlements(t, credit) ==
    {[user |-> t.seat[i].user, credit |-> credit[i]] :
        i \in {j \in Seats : t.seat[j].user # None /\ t.seat[j].committed > 0}}

Finish(t, credit) ==
    LET due == Settlements(t, credit)
    IN  [t EXCEPT !.phase = "Showdown", !.active = None, !.countdown = None,
                  !.due = due, !.settling = due # {}]

finish_by_fold(t, winner) ==
    Finish(t, [i \in Seats |-> IF i = winner THEN Pot(t) ELSE 0])

finish_showdown(t) ==
    [t EXCEPT !.phase = "Showdown", !.active = None, !.countdown = None, !.reveal = TRUE]

\* The hands are compared.
Shown(t, strength) ==
    [Finish(t, Credits(Committed(t), Active(t), strength)) EXCEPT !.reveal = FALSE]

Abandoned(t) == [t EXCEPT !.phase = "Waiting", !.active = None, !.countdown = None]

\* advance_street and set_first_action_for_new_street; outside the four streets the
\* street is only cleared.
advance_street(t) ==
    LET cleared == [t EXCEPT !.bet = 0, !.min_raise = BigBlind,
                             !.seat = [i \in Seats |->
                                 [t.seat[i] EXCEPT !.acted = FALSE, !.street = 0]]]
        at == {k \in 1 .. Len(Streets) : Streets[k] = t.phase}
    IN  CASE t.phase = "River" -> finish_showdown(cleared)
          [] at = {} -> cleared
          [] OTHER ->
               LET next == [cleared EXCEPT !.phase = Streets[Max(at) + 1]]
               IN  IF RunsOut(next) THEN finish_showdown(next)
                   ELSE [next EXCEPT !.active = NextAfter(t.dealer, Actionable(next))]

Advanced(t, i) ==
    CASE Cardinality(Active(t)) = 1 -> finish_by_fold(t, Max(Active(t)))
      [] Active(t) = {} -> Abandoned(t)
      [] Active(t) # {} /\ Cardinality(Active(t)) # 1 /\ StreetComplete(t) ->
            IF RunsOut(t) THEN finish_showdown(t) ELSE advance_street(t)
      [] OTHER -> [t EXCEPT !.active = NextAfter(i, Actionable(t))]

advance_after_action(t, i) == With(t, LAMBDA x : Advanced(x, i))

finish_blind_posting(t) ==
    LET ready == [t EXCEPT !.bet = Max({t.seat[i].street : i \in Seats}),
                           !.min_raise = BigBlind]
        open == [ready EXCEPT !.phase = "PreFlop",
                              !.active = NextAfter(t.big, Actionable(t))]
    IN  CASE Cardinality(Active(t)) = 1 -> finish_by_fold(ready, Max(Active(t)))
          [] Active(t) = {} -> Abandoned(ready)
          [] OTHER -> IF open.active = None /\ StreetComplete(open)
                      THEN finish_showdown(open)
                      ELSE open

\* Seat i is not waiting for a debit, and neither folded nor all in.
CanAct(t, i) ==
    /\ t.seat[i].pending = None
    /\ t.seat[i].dealt
    /\ ~t.seat[i].folded
    /\ ~t.seat[i].all_in

\* A free check, or a fold.
ChecksOrFolds(t, i) ==
    [t EXCEPT !.seat[i].folded = ToCall(t, i) # 0, !.seat[i].acted = TRUE]

\* The player on turn has asked not to be waited for.
PlaysItself(t) ==
    /\ ~t.settling
    /\ ActionPhase(t)
    /\ t.active # None
    /\ t.seat[t.active].auto
    /\ CanAct(t, t.active)

\* One pass of the loop of apply_auto_check_folds.
AutoPlay(t) ==
    IF PlaysItself(t)
    THEN advance_after_action(ChecksOrFolds([t EXCEPT !.countdown = None], t.active), t.active)
    ELSE t

apply_auto_check_folds(t) ==
    LET after[n \in 0 .. 4 * NumSeats] == IF n = 0 THEN t ELSE With(after[n - 1], AutoPlay)
    IN  after[4 * NumSeats]

start_action_countdown_if_needed(t) ==
    [t EXCEPT !.countdown =
        IF ActionPhase(t) /\ t.active # None /\ CanAct(t, t.active) THEN t.active ELSE None]

\* apply_auto_check_folds_and_start_countdown: the end of every handler that can move
\* the turn.
Clocked(t) ==
    With(With(t, apply_auto_check_folds), start_action_countdown_if_needed)

Sum(settlements) == SumFunction([s \in settlements |-> s.credit])

\* The pot, what of it is owed to seats, and whether a debit was still under way, in
\* the history of a hand that ends.
Closed(t) ==
    IF t.phase = "Showdown" /\ (table.phase # "Showdown" \/ t.due # {})
    THEN [books EXCEPT ![t.hand] =
             [@ EXCEPT !.pot = Pot(t),
                       !.settled = books[t.hand].settled + Sum(t.due),
                       !.cut = books[t.hand].cut \/ \E i \in Seats : t.seat[i].pending # None]]
    ELSE books

\* The rest of a handler that made the table t: the turn moves on, and a task is spawned
\* for the settlements.
Publish(t) ==
    \E played \in {Clocked(t)} :
    \E done \in IF played.reveal THEN {Shown(played, strength) : strength \in Strengths}
                ELSE {played} :
        /\ table' = [done EXCEPT !.due = {}]
        /\ payouts' = payouts \union
              (IF done.due = {} THEN {}
               ELSE {[hand |-> done.hand, due |-> done.due, st |-> "asked"]})
        /\ books' = Closed(done)

-----------------------------------------------------------------------------
(* Seats.                                                                   *)

Removed(t, gone) ==
    LET seat == [i \in Seats |-> IF i \in gone THEN EmptySeat ELSE t.seat[i]]
    IN  [t EXCEPT !.seat = seat,
                  !.dealer = IF gone # {} /\ \A i \in Seats : seat[i].user = None
                             THEN None ELSE @]

Leaving(t) == {i \in Seats : t.seat[i].leaving}

\* The client has seen a balance of at least the starting stack.  Bounds: nobody sits
\* down after the last hand, and of the players away, who are interchangeable, the
\* first one comes.
Sit(u) ==
    LET free == {i \in Seats : table.seat[i].user = None}
        away == {v \in Players : SeatOf(table, v) = {}} IN
    /\ table.hand < MaxHands
    /\ away # {} /\ u = Min(away)
    /\ free # {}
    /\ table' = [table EXCEPT !.seat[Min(free)].user = u,
                              !.seat[Min(free)].stack = StartingStack]
    /\ UNCHANGED <<commits, payouts, books, oddities>>

\* sync_balance: another game left the player less than the table stack.  Clients
\* report only between hands, but the report is a task and may come later.
SyncBalance(u, balance) ==
    /\ Oddity
    /\ \E i \in SeatOf(table, u) :
          /\ balance < table.seat[i].stack
          /\ table' = [table EXCEPT !.seat[i].stack = balance]
    /\ UNCHANGED <<commits, payouts, books>>

\* Mutant: whoever leaves on their turn keeps the turn.
FoldsAndLeavesOnTurn(t, i) ==
    LET gone == [t EXCEPT !.seat[i].folded = TRUE, !.seat[i].acted = TRUE,
                          !.seat[i].leaving = TRUE]
    IN  IF Cardinality(Active(gone)) = 1 THEN finish_by_fold(gone, Max(Active(gone)))
        ELSE gone

\* Mutant: the seat is emptied at once, and its chips with it.
FoldsAndLeavesAtOnce(t, i) ==
    LET gone == Removed(t, {i})
    IN  CASE t.active = i -> advance_after_action(gone, i)
          [] t.active # i /\ Cardinality(Active(gone)) = 1 ->
                finish_by_fold(gone, Max(Active(gone)))
          [] OTHER -> gone

\* Folding someone who gets up in the middle of a hand.
FoldsAndLeaves(t, i) ==
    LET gone == [t EXCEPT !.seat[i].folded = TRUE, !.seat[i].acted = TRUE,
                          !.seat[i].leaving = TRUE]
    IN  CASE t.active = i -> advance_after_action(gone, i)
          [] t.active # i /\ Cardinality(Active(gone)) = 1 ->
                finish_by_fold(gone, Max(Active(gone)))
          [] OTHER -> gone

InThisHand(t, i) == ActionPhase(t) /\ t.seat[i].dealt

GetsUp(i) ==
    /\ Publish(IF InThisHand(table, i) THEN FoldsAndLeaves(table, i) ELSE Removed(table, {i}))
    /\ UNCHANGED <<commits, oddities>>

leave(u) ==
    \E i \in SeatOf(table, u) :
        /\ table.seat[i].pending = None
        /\ ~table.settling
        /\ table.phase # "PostingBlinds"
        /\ GetsUp(i)

\* Five minutes without activity.  A debit is answered sooner than that, so a seat
\* that asked for one by acting is not idle yet.
kick_inactive_user(u) ==
    \E i \in SeatOf(table, u) :
        /\ table.seat[i].pending = None
        /\ \/ InThisHand(table, i)
           \/ ~ActionPhase(table) /\ table.phase # "PostingBlinds" /\ ~table.settling
        /\ GetsUp(i)

-----------------------------------------------------------------------------
(* Dealing and betting.                                                     *)

\* A number no debit of this seat under way has: next_request_id only ever tells
\* those apart.
FreshRequest(i) == Min((1 .. Cardinality(commits) + 1) \ {c.req : c \in {d \in commits : d.seat = i}})

\* set_pending_commit: the request, and the table that waits for it.
Request(t, i, amount) ==
    [req |-> FreshRequest(i), seat |-> i, amount |-> amount, hand |-> t.hand, st |-> "asked"]

WithPending(t, i, blind, amount, target, raise) ==
    [t EXCEPT !.seat[i].pending =
        [req |-> FreshRequest(i), blind |-> blind, amount |-> amount,
         target |-> target, raise |-> raise]]

AtLeast(a, b) == IF a < b THEN b ELSE a

\* The hand dealt by u: seats that said they would leave are emptied first, even
\* when too few remain to deal.
start_hand(u) ==
    LET kept == Removed(table, Leaving(table))
        playable == Playable(kept)
        mine == SeatOf(kept, u) \intersect playable
        dealer == IF kept.dealer # None THEN NextAfter(kept.dealer, playable)
                  ELSE IF mine # {} THEN Max(mine) ELSE Min(playable)
        next == NextAfter(dealer, playable)
        small == IF Cardinality(playable) = 2 THEN dealer ELSE next
        big == NextAfter(small, playable)
        blind == [i \in Seats |-> AtMost(IF i = small THEN SmallBlind ELSE BigBlind,
                                         kept.seat[i].stack)]
        dealt == [kept EXCEPT
                    !.seat = [i \in Seats |->
                        [kept.seat[i] EXCEPT !.dealt = i \in playable, !.folded = FALSE,
                           !.all_in = FALSE, !.acted = FALSE, !.leaving = FALSE,
                           !.committed = 0, !.street = 0, !.pending = None]],
                    !.bet = 0, !.min_raise = BigBlind, !.countdown = None, !.active = None,
                    !.dealer = dealer, !.big = big, !.phase = "PostingBlinds",
                    !.hand = @ + 1, !.blinds = 2]
    IN
    /\ SeatOf(table, u) # {}
    /\ ~table.settling
    /\ table.phase \in {"Waiting", "Showdown"}
    /\ \A i \in Seats : table.seat[i].pending = None
    /\ table.hand < MaxHands
    /\ IF Cardinality(playable) < 2
       THEN table' = kept /\ UNCHANGED commits
       ELSE /\ table' = WithPending(WithPending(dealt, small, TRUE, blind[small],
                                                blind[small], blind[small]),
                                    big, TRUE, blind[big], blind[big], blind[big])
            /\ commits' = commits \union {Request(dealt, small, blind[small]),
                                          Request(dealt, big, blind[big])}
    /\ UNCHANGED <<payouts, books, oddities>>

\* validate_active_user
OnTurn(u, i) ==
    /\ ActionPhase(table)
    /\ table.seat[i].user = u
    /\ table.active = i
    /\ CanAct(table, i)

\* record_manual_action
Manual(i) == [table EXCEPT !.seat[i].missed = 0, !.countdown = None]

\* The turn of seat i, used for something that costs no chips.
Plays(t, i) ==
    /\ Publish(advance_after_action(t, i))
    /\ UNCHANGED <<commits, oddities>>

\* The turn of seat i, used to put chips in: nothing moves before the debit.
Asks(i, amount, target, raise) ==
    /\ table' = Clocked(WithPending(Manual(i), i, FALSE, amount, target, raise))
    /\ commits' = commits \union {Request(table, i, amount)}
    /\ UNCHANGED <<payouts, books, oddities>>

check(u) ==
    \E i \in Seats :
        /\ OnTurn(u, i)
        /\ ToCall(table, i) = 0
        /\ Plays([Manual(i) EXCEPT !.seat[i].acted = TRUE], i)

call(u) ==
    \E i \in Seats :
        LET amount == AtMost(ToCall(table, i), table.seat[i].stack) IN
        /\ OnTurn(u, i)
        /\ ToCall(table, i) # 0
        /\ amount > 0
        /\ Asks(i, amount, table.seat[i].street + amount, 0)

\* can_raise: a short all-in does not reopen the betting to those who have acted.
CanRaise(i) == ~table.seat[i].acted

bet_or_raise(u, by) ==
    \E i \in Seats :
        LET raise_by == AtLeast(AtLeast(by, table.min_raise), BigBlind)
            max_target == table.seat[i].street + table.seat[i].stack
            target == AtMost(table.bet + raise_by, max_target)
        IN
        /\ OnTurn(u, i)
        /\ CanRaise(i)
        /\ table.seat[i].stack > 0
        /\ target > table.bet \/ target = max_target
        /\ Asks(i, target - table.seat[i].street, target, AtLeast(target - table.bet, 0))

all_in(u) ==
    \E i \in Seats :
        LET target == table.seat[i].street + table.seat[i].stack IN
        /\ OnTurn(u, i)
        /\ table.seat[i].stack > 0
        /\ target <= table.bet \/ CanRaise(i)
        /\ Asks(i, table.seat[i].stack, target, AtLeast(target - table.bet, 0))

fold(u) ==
    \E i \in Seats :
        /\ OnTurn(u, i)
        /\ Plays([Manual(i) EXCEPT !.seat[i].acted = TRUE, !.seat[i].folded = TRUE],
                 i)

toggle_auto_check_fold(u) ==
    \E i \in SeatOf(table, u) :
        /\ Oddity
        /\ Publish([table EXCEPT !.seat[i].auto = ~@])
        /\ UNCHANGED commits

\* Mutant: the clock only checks for the player, and a bet is waited for again.
TimesOutChecking(t, i) ==
    IF ToCall(t, i) = 0 THEN ChecksOrFolds(t, i) ELSE t

\* timeout_active_action
TimesOut(t, i) ==
    LET missed == AtMost(t.seat[i].missed + 1, MaxMissedActions)
    IN  ChecksOrFolds([t EXCEPT !.countdown = None, !.seat[i].missed = missed,
                                !.seat[i].leaving = @ \/ missed = MaxMissedActions], i)

ActionTimeout ==
    /\ ActionPhase(table)
    /\ table.countdown # None
    /\ table.active = table.countdown
    /\ Plays(TimesOut(table, table.active), table.active)

-----------------------------------------------------------------------------
(* The tasks that move chips.                                               *)

Answer(c, st) == (commits \ {c}) \union {[c EXCEPT !.st = st]}

\* apply_move takes the chips; the answer may still be an error.
Debit(c) ==
    /\ c.st = "asked"
    /\ \/ /\ commits' = Answer(c, "debited")
          /\ books' = [books EXCEPT ![c.hand].taken = @ + c.amount]
          /\ UNCHANGED oddities
       \/ /\ Oddity
          /\ commits' = Answer(c, "failed")
          /\ books' = [books EXCEPT ![c.hand].taken = @ + c.amount,
                                    ![c.hand].strayed = @ + c.amount]
    /\ UNCHANGED <<table, payouts>>

\* Not enough chips, or an error before anything was written.
Refuse(c) ==
    /\ c.st = "asked"
    /\ Oddity
    /\ commits' = Answer(c, "failed")
    /\ UNCHANGED <<table, payouts, books>>

Awaited(t, c) == t.seat[c.seat].pending # None /\ t.seat[c.seat].pending.req = c.req

\* apply_commit_failure
CommitFailed(t, c) ==
    LET open == [t EXCEPT !.seat[c.seat].pending = None]
        folded == [open EXCEPT !.seat[c.seat].folded = TRUE, !.blinds = AtLeast(@ - 1, 0)]
    IN  CASE t.phase # "PostingBlinds" -> open
          [] t.phase = "PostingBlinds" /\ folded.blinds = 0 ->
                With(folded, finish_blind_posting)
          [] OTHER -> folded

\* apply_commit_success: the chips are on the table, and a full raise asks everyone
\* again.
CommitLanded(t, c) ==
    LET i == c.seat
        pending == t.seat[i].pending
        raised == pending.target > t.bet
        raise == AtLeast(pending.raise, pending.target - t.bet)
        full == raised /\ raise >= t.min_raise
        seat == [j \in Seats |->
                   IF j = i
                   THEN [t.seat[i] EXCEPT !.pending = None,
                            !.stack = @ - pending.amount,
                            !.committed = @ + pending.amount,
                            !.street = @ + pending.amount,
                            !.all_in = @ \/ t.seat[i].stack = pending.amount,
                            !.acted = ~pending.blind]
                   ELSE [t.seat[j] EXCEPT !.acted =
                            @ /\ ~(full /\ ActionPhase(t) /\ t.seat[j].dealt
                                        /\ ~t.seat[j].folded)]]
        placed == [t EXCEPT !.seat = seat,
                            !.bet = IF raised THEN pending.target ELSE @,
                            !.min_raise = IF full THEN raise ELSE @]
        posted == [placed EXCEPT !.blinds = AtLeast(@ - 1, 0)]
    IN  CASE t.phase # "PostingBlinds" -> advance_after_action(placed, i)
          [] t.phase = "PostingBlinds" /\ posted.blinds = 0 ->
                With(posted, finish_blind_posting)
          [] OTHER -> posted

CommitAnswered(c) ==
    /\ c.st # "asked"
    /\ commits' = commits \ {c}
    /\ Publish(CASE ~Awaited(table, c) -> table
                 [] Awaited(table, c) /\ c.st = "debited" -> CommitLanded(table, c)
                 [] OTHER -> CommitFailed(table, c))
    /\ UNCHANGED oddities

\* The loop of persist_settlements_task: a credit that fails is logged and skipped.
Persist(p) ==
    \E failing \in SUBSET p.due :
        /\ p.st = "asked"
        /\ oddities + Cardinality(failing) <= MaxOddities
        /\ oddities' = oddities + Cardinality(failing)
        /\ payouts' = (payouts \ {p}) \union
                        {[p EXCEPT !.st = IF failing = {} THEN "done" ELSE "failed"]}
        /\ books' = [books EXCEPT ![p.hand].paid = @ + Sum(p.due \ failing),
                                  ![p.hand].unpaid = @ + Sum(failing)]
        /\ UNCHANGED <<table, commits>>

\* complete_settlements
Completed(t, due) ==
    LET won(u) == Sum({s \in due : s.user = u})
    IN  [Removed([t EXCEPT !.seat = [i \in Seats |->
                     [t.seat[i] EXCEPT !.stack = @ + won(t.seat[i].user)]]], Leaving(t))
         EXCEPT !.settling = FALSE]

\* settlement_failed
settlement_failed(t) == [t EXCEPT !.settling = FALSE]

Report(p) ==
    /\ p.st # "asked"
    /\ payouts' = payouts \ {p}
    /\ table' = IF p.st = "done" THEN Completed(table, p.due) ELSE settlement_failed(table)
    /\ UNCHANGED <<commits, books, oddities>>

-----------------------------------------------------------------------------
Play(u) ==
    \/ Sit(u) \/ leave(u) \/ kick_inactive_user(u) \/ start_hand(u)
    \/ check(u) \/ call(u) \/ all_in(u) \/ fold(u) \/ toggle_auto_check_fold(u)
    \/ \E by \in Raises : bet_or_raise(u, by)
    \/ \E balance \in 0 .. StartingStack - 1 : SyncBalance(u, balance)

CommitTask == \E c \in commits : Debit(c) \/ Refuse(c) \/ CommitAnswered(c)

PayoutTask == \E p \in payouts : Persist(p) \/ Report(p)

Next == (\E u \in Players : Play(u)) \/ ActionTimeout \/ CommitTask \/ PayoutTask

PokerSpec == Init /\ [][Next]_vars

-----------------------------------------------------------------------------
InHand(t) == t.phase = "PostingBlinds" \/ ActionPhase(t)

\* No hand up to h ended while a debit was under way.  One that did is settled again
\* when the debit lands, and the report of that settlement may come in the middle of
\* a later hand and empty a seat that is in it.
Whole(h) == \A g \in 1 .. h : ~books[g].cut

\* The types of the table's state.
TypeOK ==
    /\ table.phase \in Phases
    /\ table.hand \in 0 .. MaxHands
    /\ {table.dealer, table.big, table.active, table.countdown} \subseteq Seats \union {None}
    /\ table.due = {}
    /\ \A i \in Seats :
          /\ table.seat[i].user \in Players \union {None}
          /\ Whole(table.hand) /\ table.seat[i].user = None => table.seat[i] = EmptySeat
          /\ table.seat[i].missed \in 0 .. MaxMissedActions
    /\ \A i, j \in Seats : i # j /\ table.seat[i].user # None
                              => table.seat[i].user # table.seat[j].user
    /\ commits \subseteq [req : Nat, seat : Seats, amount : Nat \ {0}, hand : Hands,
                          st : {"asked", "debited", "failed"}]
    /\ \A p \in payouts : p.hand \in Hands /\ p.st \in {"asked", "done", "failed"}

\* Whoever the hand waits for can move it on: on a street somebody is on turn whose
\* debit is under way or whose clock is running, and while blinds are posted there is
\* a debit under way for each one missing.
SomebodyIsOnTurn ==
    Whole(table.hand) =>
        /\ ActionPhase(table) =>
              /\ table.active \in Actionable(table)
              /\ \/ table.countdown = table.active
                 \/ \E c \in commits : c.seat = table.active /\ Awaited(table, c)
        /\ table.phase = "PostingBlinds" =>
              /\ table.blinds > 0
              /\ table.blinds = Cardinality({c \in commits : Awaited(table, c)})

\* Every chip the ledger took for a hand is in one place: in a debit under way, lost
\* with its answer, or on the table, and once the hand is over, in its pot.  A hand
\* that ends while a debit is under way is the exception.
ChipsAreOnTheTable ==
    \A h \in 1 .. table.hand :
        Whole(h) =>
            books[h].taken =
                books[h].strayed
                + SumFunction([c \in commits |-> IF c.hand = h /\ c.st = "debited"
                                                 THEN c.amount ELSE 0])
                + (IF h = table.hand /\ InHand(table) THEN Pot(table) ELSE books[h].pot)

\* What is settled is paid or reported as failed, and is never more than the pot.
SettlementsComeFromThePot ==
    \A h \in 1 .. table.hand :
        Whole(h) =>
            /\ books[h].settled <= books[h].pot
            /\ books[h].settled =
                  books[h].paid + books[h].unpaid
                  + SumFunction([p \in payouts |-> IF p.hand = h /\ p.st = "asked"
                                                    THEN Sum(p.due) ELSE 0])

\* The chips of a hand, from the ledger over the table and back.
ChipsAreAccounted == TypeOK /\ ChipsAreOnTheTable /\ SettlementsComeFromThePot

\* A hand is compared only with bets it matched: whoever is still in it and not all in
\* has put in as much as anyone.
ContendersMatchTheBet ==
    [][\A h \in Hands :
         (h = table.hand /\ Whole(h) /\ ActionPhase(table) /\ table'.phase = "Showdown"
            /\ Cardinality(Active(table')) > 1) =>
         \A i \in Actionable(table'), j \in Seats :
             table'.seat[i].committed >= table'.seat[j].committed]_vars

\* A hand that is not over, or whose pot is not settled.
HandUnderWay == InHand(table) \/ table.settling

\* A payout is "a poker pot, or a share of a split pot, reaching a seat": a hand does
\* not pay more than it took.
PayoutsAreSharesOfThePot == \A h \in Hands : books[h].paid <= books[h].taken

\* The same comment, the other way: a pot that is settled reaches the seats whole.
PotReachesASeat ==
    \A h \in Hands : books[h].pot > 0 /\ ~books[h].cut => books[h].settled = books[h].pot

=============================================================================
