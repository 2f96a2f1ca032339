----------------------------- MODULE RenderLoop -----------------------------
(***************************************************************************)
(* One session's render loop (ssh.rs) against the SSH handler and a door's *)
(* proxy reader, which wake it through RenderSignal: `dirty` says that     *)
(* something is undrawn, the Notify permit wakes the loop.  Setting the    *)
(* one and the other are two steps, and the loop reads them in two.        *)
(*                                                                         *)
(* What the app would draw is a number that grows with every visible       *)
(* change.  A frame is a difference between two of them, from what         *)
(* ratatui's buffers hold, or from Blank: a full repaint.  Deadlines are   *)
(* "hot" (within HOT_TICK) or "slow"; when they pass is not modelled.      *)
(***************************************************************************)
EXTENDS Integers, Sequences

CONSTANTS
    QueueCap,     \* INPUT_QUEUE_CAP
    DrainMax,     \* INPUT_DRAIN_MAX_MESSAGES
    HotRetries,   \* FRAME_DROP_HOT_RETRIES
    MaxInputs, MaxTicks, MaxResizes, MaxOutputs,    \* bounds on visible changes
    MaxDrops,     \* bound: sends that time out
    MaxPauses,    \* bound: passes over the output budget
    MaxEvents     \* bound: all of these together

ASSUME BoundsAssumption ==
    /\ QueueCap \in Nat \ {0} /\ DrainMax \in Nat \ {0} /\ HotRetries \in Nat
    /\ MaxInputs \in Nat /\ MaxTicks \in Nat /\ MaxResizes \in Nat /\ MaxOutputs \in Nat
    /\ MaxDrops \in Nat /\ MaxPauses \in Nat /\ MaxEvents \in Nat

Blank == -1    \* buffers reset by force_full_repaint: the next frame is whole
Partial == -2  \* the client's screen lacks an image whose command was dropped
Garbled == -3  \* a difference was applied to a screen it was not computed from

VARIABLES
    handler,   \* the SSH handler: "idle", or between push, dirty and notify
    queue,     \* input messages by arrival
    dirty, permit,                 \* RenderSignal
    running, content, prev,        \* the App, and what its diff buffers hold
    door,      \* the proxy reader: "idle", or between output, dirty and notify
    shown,     \* what the client's screen shows of the frames accepted so far
    loop,      \* the render loop's place
    pending,   \* input_pending
    deadline,  \* world_deadline: "hot" or "slow"
    pass,      \* the pass: whether it advances the world, drained, stalled
    frame,     \* the frame being sent
    inRow,     \* frame_drops_in_a_row
    spent      \* how much of each bound is used

renderVars == <<handler, queue, dirty, permit, running, content, prev, door, shown, loop, pending,
          deadline, pass, frame, inRow, spent>>

signal == <<dirty, permit>>
screen == <<running, content, prev>>
wait == <<pending, deadline>>

NoPass == [advance |-> FALSE, changed |-> FALSE, drained |-> 0, stalled |-> FALSE]
NoFrame == [from |-> Blank, to |-> 0]

RenderInit ==
    /\ handler = "idle" /\ queue = <<>>
    /\ dirty = FALSE /\ permit = FALSE
    /\ running = TRUE /\ content = 0 /\ prev = Blank
    /\ door = "idle" /\ shown = 0
    /\ loop = "select" /\ pending = FALSE /\ deadline = "hot"
    /\ pass = NoPass /\ frame = NoFrame /\ inRow = 0
    /\ spent = [inputs |-> 0, ticks |-> 0, resizes |-> 0, outputs |-> 0, drops |-> 0, pauses |-> 0]

\* The loop holds the App's lock from the running check to the end of the draw.
Unlocked == loop \notin {"draining", "drawing", "ticked"}

Events == spent.inputs + spent.ticks + spent.resizes + spent.outputs + spent.drops + spent.pauses

Spend(kind, bound) ==
    /\ spent[kind] < bound /\ Events < MaxEvents
    /\ spent' = [spent EXCEPT ![kind] = @ + 1]

-----------------------------------------------------------------------------
(* The SSH handler: one callback at a time *)

\* `data` reserves a place in the bounded queue, or drops the input.
Data ==
    /\ handler = "idle"
    /\ Spend("inputs", MaxInputs)
    /\ \/ /\ Len(queue) < QueueCap
          /\ queue' = Append(queue, spent.inputs)
          /\ handler' = "queued"
       \/ Len(queue) = QueueCap /\ UNCHANGED <<queue, handler>>
    /\ UNCHANGED <<signal, screen, door, shown, loop, wait, pass, frame, inRow>>

\* RenderSignal::wake, first half.
MarkDirty ==
    /\ handler = "queued" /\ handler' = "marked"
    /\ dirty' = TRUE
    /\ UNCHANGED <<queue, permit, screen, door, shown, loop, wait, pass, frame, inRow, spent>>

\* RenderSignal::wake, second half, and the end of window_change_request.
NotifyOne ==
    /\ handler = "marked" /\ handler' = "idle"
    /\ permit' = TRUE
    /\ UNCHANGED <<queue, dirty, screen, door, shown, loop, wait, pass, frame, inRow, spent>>

\* window_change_request under the App's lock: a new terminal, a full repaint.
Resize ==
    /\ handler = "idle" /\ Unlocked
    /\ Spend("resizes", MaxResizes)
    /\ content' = content + 1 /\ prev' = Blank
    /\ dirty' = TRUE /\ handler' = "marked"
    /\ UNCHANGED <<queue, permit, running, door, shown, loop, wait, pass, frame, inRow>>

\* channel_eof and channel_close: the next pass finds the app stopped.
Close ==
    /\ handler = "idle" /\ Unlocked /\ running
    /\ running' = FALSE
    /\ UNCHANGED <<handler, queue, signal, content, prev, door, shown, loop, wait, pass, frame,
                   inRow, spent>>

-----------------------------------------------------------------------------
(* A door's proxy reader, which never takes the App's lock *)

DoorOutput ==
    /\ door = "idle" /\ door' = "fed"
    /\ Spend("outputs", MaxOutputs)
    /\ content' = content + 1
    /\ UNCHANGED <<handler, queue, signal, running, prev, shown, loop, wait, pass, frame, inRow>>

DoorMark ==
    /\ door = "fed" /\ door' = "marked"
    /\ dirty' = TRUE
    /\ UNCHANGED <<handler, queue, permit, screen, shown, loop, wait, pass, frame, inRow, spent>>

DoorNotify ==
    /\ door = "marked" /\ door' = "idle"
    /\ permit' = TRUE
    /\ UNCHANGED <<handler, queue, dirty, screen, shown, loop, wait, pass, frame, inRow, spent>>

-----------------------------------------------------------------------------
(* next_render_action and the output-budget guard *)

Wake(advance) ==
    /\ loop = "select" /\ loop' = "woken"
    /\ pending' = FALSE
    /\ pass' = [NoPass EXCEPT !.advance = advance]
    /\ UNCHANGED <<handler, queue, signal, screen, door, shown, deadline, frame, inRow, spent>>

AdvanceWorld == Wake(TRUE)

RenderInput == pending /\ Wake(FALSE)

\* A permit left by input that an earlier pass already drew is eaten.
Notified ==
    /\ loop = "select" /\ ~pending /\ permit
    /\ permit' = FALSE
    /\ pending' = dirty
    /\ UNCHANGED <<handler, queue, dirty, screen, door, shown, loop, deadline, pass, frame, inRow, spent>>

\* Over budget: nothing is rendered, and the budget is looked at again soon.
Pause ==
    /\ loop = "woken" /\ loop' = "select"
    /\ Spend("pauses", MaxPauses)
    /\ deadline' = "hot"
    /\ UNCHANGED <<handler, queue, signal, screen, door, shown, pending, pass, frame, inRow>>

Ends ==
    /\ loop' = "ended"
    /\ UNCHANGED <<handler, signal, door, shown, wait, pass, frame, inRow>>

\* Over budget for OUTPUT_STALL_DISCONNECT.
Stall ==
    /\ loop = "woken" /\ spent.pauses > 0
    /\ Ends /\ UNCHANGED <<queue, screen, spent>>

-----------------------------------------------------------------------------
(* render_once *)

\* The App's lock is taken and dirty swapped out before the queue is drained.
Begin ==
    /\ loop = "woken" /\ running /\ loop' = "draining"
    /\ pass' = [pass EXCEPT !.changed = dirty]
    /\ dirty' = FALSE
    /\ UNCHANGED <<handler, queue, permit, screen, door, shown, wait, frame, inRow, spent>>

Quit ==
    /\ loop = "woken" /\ ~running
    /\ Ends /\ UNCHANGED <<queue, screen, spent>>

\* drain_input hands one message to App::handle_input, which may stop the app.
HandleInput ==
    /\ loop = "draining" /\ queue # <<>> /\ pass.drained < DrainMax
    /\ queue' = Tail(queue)
    /\ content' = content + 1
    /\ \/ /\ pass' = [pass EXCEPT !.changed = TRUE, !.drained = @ + 1]
          /\ UNCHANGED <<handler, signal, running, door, shown, loop, wait, frame, inRow>>
       \/ running' = FALSE /\ Ends
    /\ UNCHANGED <<prev, spent>>

\* The queue runs dry.
Drained ==
    /\ loop = "draining" /\ queue = <<>> /\ loop' = "drawing"
    /\ UNCHANGED <<handler, queue, signal, screen, door, shown, wait, pass, frame, inRow, spent>>

\* Mutant: a spent budget leaves the rest to whoever wakes the loop next.
BudgetHitQuiet ==
    /\ loop = "draining" /\ queue # <<>> /\ pass.drained > 0 /\ loop' = "drawing"
    /\ UNCHANGED <<handler, queue, signal, screen, door, shown, wait, pass, frame, inRow, spent>>

\* The pass's budget of messages or of time is spent: the loop wakes itself.
BudgetHit ==
    /\ loop = "draining" /\ queue # <<>> /\ pass.drained > 0 /\ loop' = "drawing"
    /\ dirty' = TRUE /\ permit' = TRUE
    /\ UNCHANGED <<handler, queue, screen, door, shown, wait, pass, frame, inRow, spent>>

\* App::wake_hint, any cadence.  An input pass only ever brings the tick nearer.
Hinted(hint) == deadline' = IF pass.advance \/ hint = "hot" THEN hint ELSE deadline

\* App::tick on a world pass; it may change what is visible.
Tick(changes) ==
    /\ loop = "drawing" /\ pass.advance /\ loop' = "ticked"
    /\ IF changes THEN Spend("ticks", MaxTicks) ELSE UNCHANGED spent
    /\ content' = IF changes THEN content + 1 ELSE content
    /\ pass' = [pass EXCEPT !.changed = @ \/ changes]
    /\ UNCHANGED <<handler, queue, signal, running, prev, door, shown, wait, frame, inRow>>

Drawing == loop = "ticked" \/ (loop = "drawing" /\ ~pass.advance)

\* Nothing changed: no draw, and the diff buffers stay as they are.
SkipDraw ==
    /\ Drawing /\ ~pass.changed /\ loop' = "select"
    /\ \E hint \in {"hot", "slow"} : Hinted(hint)
    /\ UNCHANGED <<handler, queue, signal, screen, door, shown, pending, pass, frame, inRow, spent>>

\* App::render: the difference is taken and the buffers move on.
Draw ==
    /\ Drawing /\ pass.changed /\ loop' = "sending"
    /\ frame' = [from |-> prev, to |-> content]
    /\ prev' = content
    /\ UNCHANGED <<handler, queue, signal, running, content, door, shown, wait, pass, inRow, spent>>

\* The handle takes the frame in time.
SendFrame ==
    /\ loop = "sending" /\ loop' = "commands"
    /\ shown' = IF frame.from \in {Blank, shown} THEN frame.to ELSE Garbled
    /\ UNCHANGED <<handler, queue, signal, screen, door, wait, pass, frame, inRow, spent>>

\* It does not within 50 ms.
DropFrame ==
    /\ loop = "sending" /\ loop' = "dropped"
    /\ Spend("drops", MaxDrops)
    /\ UNCHANGED <<handler, queue, signal, screen, door, shown, wait, pass, frame, inRow>>

\* Every terminal command is taken.
SendCommands ==
    /\ loop = "commands" /\ loop' = "sent"
    /\ UNCHANGED <<handler, queue, signal, screen, door, shown, wait, pass, frame, inRow, spent>>

\* One is not: the client may lack a piece of an image, the rest is abandoned.
DropCommand ==
    /\ loop = "commands" /\ loop' = "cut"
    /\ Spend("drops", MaxDrops)
    /\ shown' = Partial
    /\ UNCHANGED <<handler, queue, signal, screen, door, wait, pass, frame, inRow>>

\* After a dropped frame the commands are still sent.
AfterRepaint == IF loop = "dropped" THEN "commands" ELSE "sent"

\* Mutant: the frame is drawn again, but as a difference.
RepaintPart ==
    /\ loop \in {"dropped", "cut"} /\ loop' = AfterRepaint
    /\ dirty' = TRUE
    /\ pass' = [pass EXCEPT !.stalled = TRUE]
    /\ UNCHANGED <<handler, queue, permit, screen, door, shown, wait, frame, inRow, spent>>

\* Mutant: the full repaint waits for something else to change.
RepaintUnmarked ==
    /\ loop \in {"dropped", "cut"} /\ loop' = AfterRepaint
    /\ prev' = Blank
    /\ pass' = [pass EXCEPT !.stalled = TRUE]
    /\ UNCHANGED <<handler, queue, signal, running, content, door, shown, wait, frame, inRow, spent>>

\* force_full_repaint under the lock, and dirty without a notify.
Repaint ==
    /\ loop \in {"dropped", "cut"} /\ loop' = AfterRepaint
    /\ prev' = Blank /\ dirty' = TRUE
    /\ pass' = [pass EXCEPT !.stalled = TRUE]
    /\ UNCHANGED <<handler, queue, permit, running, content, door, shown, wait, frame, inRow, spent>>

\* A stalled pass is retried as retry_after_frame_drop says; a pass that landed
\* whole ends the run of drops.
EndPass ==
    /\ loop = "sent" /\ loop' = "select"
    /\ pass' = NoPass /\ frame' = NoFrame
    /\ IF pass.stalled
       THEN inRow' = inRow + 1 /\ Hinted(IF inRow + 1 <= HotRetries THEN "hot" ELSE "slow")
       ELSE inRow' = 0 /\ \E hint \in {"hot", "slow"} : Hinted(hint)
    /\ UNCHANGED <<handler, queue, signal, screen, door, shown, pending, spent>>

\* The frame cannot be drawn, or the channel is closed.
RenderFails ==
    /\ loop \in {"sending", "commands"} \/ (Drawing /\ pass.changed)
    /\ Ends /\ UNCHANGED <<queue, screen, spent>>

-----------------------------------------------------------------------------
Select == AdvanceWorld \/ RenderInput \/ Notified

Render ==
    \/ Pause \/ Stall \/ Begin \/ Quit \/ HandleInput \/ Drained \/ BudgetHit
    \/ (\E changes \in BOOLEAN : Tick(changes)) \/ SkipDraw \/ Draw
    \/ SendFrame \/ DropFrame \/ SendCommands \/ DropCommand \/ Repaint \/ EndPass \/ RenderFails

Handler == Data \/ MarkDirty \/ NotifyOne \/ Resize \/ Close

Door == DoorOutput \/ DoorMark \/ DoorNotify

Ended == loop = "ended" /\ UNCHANGED renderVars

RenderNext == Select \/ Render \/ Handler \/ Door \/ Ended

RenderSpec == RenderInit /\ [][RenderNext]_renderVars

-----------------------------------------------------------------------------
(* Properties *)

Bounds == [inputs : 0 .. MaxInputs, ticks : 0 .. MaxTicks, resizes : 0 .. MaxResizes,
           outputs : 0 .. MaxOutputs, drops : 0 .. MaxDrops, pauses : 0 .. MaxPauses]

Places == {"select", "woken", "draining", "drawing", "ticked", "sending", "commands", "dropped", "cut", "sent", "ended"}

TypeOK ==
    /\ handler \in {"idle", "queued", "marked"} /\ door \in {"idle", "fed", "marked"}
    /\ queue \in Seq(Nat) /\ Len(queue) <= QueueCap
    /\ dirty \in BOOLEAN /\ permit \in BOOLEAN /\ running \in BOOLEAN /\ pending \in BOOLEAN
    /\ content \in Nat /\ prev \in Nat \cup {Blank}
    /\ shown \in Nat \cup {Partial, Garbled}
    /\ loop \in Places /\ deadline \in {"hot", "slow"}
    /\ pass \in [advance : BOOLEAN, changed : BOOLEAN, drained : 0 .. DrainMax, stalled : BOOLEAN]
    /\ frame \in [from : Nat \cup {Blank}, to : Nat]
    /\ inRow \in Nat /\ spent \in Bounds

\* Input queued is never left to the next world tick, which may be far: while
\* the loop waits, either it already knows, or its wake-up is stored and the flag
\* that makes it count is set, or it looks again at the hot cadence (an output
\* pause swallowed the wake-up).  Only a handler still inside its callback is
\* excused.
NoLostWakeup ==
    loop = "select" /\ queue # <<>> /\ handler = "idle" =>
        pending \/ (permit /\ dirty) \/ deadline = "hot"

\* While the loop waits, a screen that is behind is known to be: the flag that
\* makes the next pass draw is set, or whoever changed what is visible is about
\* to set it.  A dropped frame or command, a resize during a send, a skipped
\* draw leave nothing undrawn and unmarked.
UnshownIsDirty ==
    loop = "select" => shown = content \/ dirty \/ door = "fed"

\* A difference is only ever sent to a screen that shows what it was computed
\* from, whatever frames and commands were dropped before it.
ScreenNeverGarbled == shown # Garbled

\* Queued input is handled, unless the session ends first.
InputIsHandled == queue # <<>> ~> queue = <<>> \/ loop = "ended"

\* The client's screen always catches up with the app, dropped frames included,
\* unless the session ends.
ScreenCatchesUp == []<>(shown = content \/ loop = "ended")

\* What the client sees and what the loop believes it sees stay in step.
ScreenIsTracked == TypeOK /\ UnshownIsDirty /\ ScreenNeverGarbled

\* Input is handled, and what it changes is shown.
InputReachesTheScreen == InputIsHandled /\ ScreenCatchesUp

=============================================================================
