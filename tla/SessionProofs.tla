---------------------------- MODULE SessionProofs ----------------------------
(***************************************************************************)
(* Proofs about one session, for any queue, any number of inputs, resizes, *)
(* door outputs, dropped frames and pauses, and any durations: the render  *)
(* loop loses no wake-up and never garbles the screen (RenderLoop), the    *)
(* latency probe credits a reply to the query it answers (TerminalProbe),  *)
(* and the output budget never counts less than russh holds                *)
(* (OutputBudget).                                                         *)
(***************************************************************************)
EXTENDS RenderLoop, OutputBudget, TerminalProbe, SumFacts

-----------------------------------------------------------------------------
(* The render loop *)

\* The loop is about to look at the queue, or soon will.
Looking ==
    \/ loop \in {"woken", "draining", "ended"}
    \/ loop = "select" /\ (pending \/ deadline = "hot")

\* Queued input whose handler is done has its wake-up stored or the loop's
\* attention; one whose handler has yet to notify has the flag.  Between the swap
\* of the flag and the end of the drain, attention is all there is.
InputIsSeen ==
    queue # <<>> =>
        /\ handler = "idle" => (permit /\ dirty) \/ Looking
        /\ handler = "marked" => dirty \/ Looking

\* What is visible is shown, marked or about to be marked.
UpToDate(seen) == seen = content \/ dirty \/ door = "fed"

\* The diff buffers hold what the client shows, or nothing: from the send to the
\* repaint they are ahead of it.  A pass that has changed something draws it.
FrameIsTracked ==
    /\ shown # Garbled
    /\ loop \notin {"sending", "dropped", "cut", "ended"} => prev \in {Blank, shown}
    /\ loop = "sending" => frame.from \in {Blank, shown} /\ prev \in {Blank, frame.to} /\ UpToDate(frame.to)
    /\ loop \in {"select", "woken", "commands", "sent"} => UpToDate(shown)
    /\ loop \in {"draining", "drawing", "ticked"} => UpToDate(shown) \/ pass.changed

RenderInv == TypeOK /\ InputIsSeen /\ FrameIsTracked

-----------------------------------------------------------------------------
(* The latency probe *)

ProbeStates == [kind : {"idle", "in_flight", "retired"}, due : Int, last : Int, streak : Int]

ProbeTypeOK ==
    /\ clock \in Int /\ state \in ProbeStates /\ prober \in {"between", "expired", "claimed"}
    /\ queries \in Seq(Int) /\ asked \in Int /\ mismatched \in BOOLEAN
    /\ tally \in [answered : Int, lost : Int]

\* At most one query is unanswered.  It is the one in flight, or the probe gave it
\* up so early that the next may not start before its answer is overdue.
OneQueryIsOut ==
    /\ Len(queries) <= 1
    /\ queries # <<>> =>
          /\ queries[1] <= clock /\ clock <= queries[1] + MaxDelay
          /\ prober # "claimed"
          /\ state.kind = "in_flight" => state.due = queries[1]
          /\ state.kind = "idle" => state.last = Never /\ queries[1] + Timeout + Interval <= state.due
    /\ prober = "claimed" => state.kind = "in_flight" /\ state.due = clock

ProbeInv == ProbeTypeOK /\ OneQueryIsOut /\ ProbesAreMatched

-----------------------------------------------------------------------------
(* The render loop: types *)

\* What a visible change or a fault costs is counted within its bound.
LEMMA SpendType ==
    ASSUME spent \in Bounds
    PROVE  /\ Spend("inputs", MaxInputs) \/ Spend("ticks", MaxTicks) => spent' \in Bounds
           /\ Spend("resizes", MaxResizes) \/ Spend("outputs", MaxOutputs) => spent' \in Bounds
           /\ Spend("drops", MaxDrops) \/ Spend("pauses", MaxPauses) => spent' \in Bounds
  BY BoundsAssumption, SMT DEF Spend, Bounds
PassStates == [advance : BOOLEAN, changed : BOOLEAN, drained : 0 .. DrainMax, stalled : BOOLEAN]

\* The ways a pass is changed keep its type.
LEMMA PassType ==
    ASSUME NEW p \in PassStates, NEW b \in BOOLEAN, NEW n \in 0 .. DrainMax
    PROVE  /\ NoPass \in PassStates /\ [NoPass EXCEPT !.advance = b] \in PassStates
           /\ [p EXCEPT !.changed = b] \in PassStates /\ [p EXCEPT !.stalled = b] \in PassStates
           /\ [p EXCEPT !.changed = b, !.drained = n] \in PassStates
<1>1. 0 \in 0 .. DrainMax
  BY BoundsAssumption
<1> QED BY <1>1, Zenon DEF PassStates, NoPass

\* A step of the session other than stuttering.
RenderStep == Select \/ Render \/ Handler \/ Door

\* A step of the session keeps the types.
LEMMA RenderType ==
    ASSUME TypeOK, RenderStep
    PROVE  TypeOK'
<1> USE BoundsAssumption DEF TypeOK, Places, signal, screen, wait, Blank, Partial, Garbled
<1>0. spent \in Bounds /\ pass \in PassStates /\ TypeOK
  BY DEF PassStates
<1>p. 0 \in 0 .. DrainMax
  BY BoundsAssumption
<1>1. CASE AdvanceWorld
  <2>1. pass' \in PassStates
    BY <1>0, <1>p, <1>1, PassType, Zenon DEF AdvanceWorld, Wake
  <2> QED BY <1>0, <1>1, <2>1, Zenon DEF AdvanceWorld, Wake, PassStates
<1>2. CASE RenderInput
  <2>1. pass' \in PassStates
    BY <1>0, <1>p, <1>2, PassType, Zenon DEF RenderInput, Wake
  <2> QED BY <1>0, <1>2, <2>1, Zenon DEF RenderInput, Wake, PassStates
<1>3. CASE Notified
  <2>1. pending' \in BOOLEAN
    BY <1>0, <1>3, Zenon DEF Notified
  <2>2. permit' \in BOOLEAN
    BY <1>3 DEF Notified
  <2>3. UNCHANGED <<handler, queue, dirty, running, content, prev, door, shown, loop, deadline, pass, frame, inRow, spent>>
    BY <1>3, Zenon DEF Notified
  <2> QED BY <1>0, <2>1, <2>2, <2>3, SMT
<1>4. CASE Pause
  BY <1>0, SpendType, <1>4, SMT DEF Pause
<1>5. CASE Stall
  BY <1>0, <1>5, SMT DEF Stall, Ends
<1>6. CASE Begin
  <2>1. pass' \in PassStates
    BY <1>0, <1>p, <1>6, PassType, Zenon DEF Begin
  <2> QED BY <1>0, <1>6, <2>1, Zenon DEF Begin, PassStates
<1>7. CASE Quit
  BY <1>0, <1>7, SMT DEF Quit, Ends
<1>8. CASE HandleInput
  <2>1. queue' \in Seq(Nat) /\ Len(queue') <= QueueCap /\ content' \in Nat
    <3>1. queue # <<>> /\ queue' = Tail(queue) /\ content' = content + 1
      BY <1>8, Zenon DEF HandleInput
    <3> QED BY <1>0, <3>1, SMT
  <2>2. pass.drained + 1 \in 0 .. DrainMax
    <3>1. pass.drained < DrainMax /\ pass.drained \in 0 .. DrainMax
      BY <1>0, <1>8, Zenon DEF HandleInput, PassStates
    <3> QED BY <3>1, SMT
  <2>3. CASE pass' = [pass EXCEPT !.changed = TRUE, !.drained = pass.drained + 1] /\ UNCHANGED running /\ UNCHANGED loop
    <3>1. pass' \in PassStates
      BY <1>0, <2>2, <2>3, PassType, Zenon
    <3> QED BY <1>0, <1>8, <2>1, <2>3, <3>1, Zenon DEF HandleInput, Ends, PassStates
  <2>4. CASE running' = FALSE /\ Ends
    <3>1. running' \in BOOLEAN
      BY <2>4
    <3>2. UNCHANGED <<handler, door, dirty, permit, pending, deadline, prev, shown, pass, frame, inRow, spent>> /\ loop' = "ended"
      BY <1>8, <2>4, Zenon DEF HandleInput, Ends
    <3> QED BY <1>0, <2>1, <3>1, <3>2, SMT
  <2> QED BY <1>8, <2>3, <2>4, Zenon DEF HandleInput
<1>9. CASE Drained
  BY <1>0, <1>9, SMT DEF Drained
<1>10. CASE BudgetHit
  BY <1>0, <1>10, SMT DEF BudgetHit
<1>11. CASE SkipDraw
  BY <1>0, <1>11, SMT DEF SkipDraw, Drawing, Hinted
<1>12. CASE Draw
  BY <1>0, <1>12, SMT DEF Draw, Drawing
<1>13. CASE SendFrame
  BY <1>0, <1>13, SMT DEF SendFrame
<1>14. CASE DropFrame
  BY <1>0, SpendType, <1>14, SMT DEF DropFrame
<1>15. CASE SendCommands
  BY <1>0, <1>15, SMT DEF SendCommands
<1>16. CASE DropCommand
  BY <1>0, SpendType, <1>16, SMT DEF DropCommand
<1>17. CASE Repaint
  <2>1. pass' \in PassStates
    BY <1>0, <1>p, <1>17, PassType, Zenon DEF Repaint
  <2> QED BY <1>0, <1>17, <2>1, Zenon DEF Repaint, AfterRepaint, PassStates
<1>18. CASE EndPass
  BY <1>0, <1>18, SMT DEF EndPass, Hinted, NoPass, NoFrame
<1>19. CASE RenderFails
  BY <1>0, <1>19, SMT DEF RenderFails, Ends, Drawing
<1>20. CASE Data
  <2>1. spent' \in Bounds /\ spent.inputs \in Nat
    BY <1>0, <1>20, SpendType DEF Data, Bounds
  <2>2. queue' \in Seq(Nat) /\ Len(queue') <= QueueCap
    <3>1. \/ Len(queue) < QueueCap /\ queue' = Append(queue, spent.inputs)
          \/ queue' = queue
      BY <1>20, Zenon DEF Data
    <3> QED BY <1>0, <2>1, <3>1, SMT
  <2> QED BY <1>0, <1>20, <2>1, <2>2, SMT DEF Data
<1>21. CASE MarkDirty
  BY <1>0, <1>21, SMT DEF MarkDirty
<1>22. CASE NotifyOne
  BY <1>0, <1>22, SMT DEF NotifyOne
<1>23. CASE Resize
  BY <1>0, SpendType, <1>23, SMT DEF Resize, Unlocked
<1>24. CASE Close
  <2>1. running' \in BOOLEAN
    BY <1>24 DEF Close
  <2> QED BY <1>0, <1>24, <2>1, SMT DEF Close
<1>25. CASE DoorOutput
  BY <1>0, SpendType, <1>25, SMT DEF DoorOutput
<1>26. CASE DoorMark
  BY <1>0, <1>26, SMT DEF DoorMark
<1>27. CASE DoorNotify
  BY <1>0, <1>27, SMT DEF DoorNotify
<1>28. ASSUME NEW changes \in BOOLEAN, Tick(changes) PROVE TypeOK'
  <2>1. spent' \in Bounds /\ content' \in Nat
    <3>1. (Spend("ticks", MaxTicks) \/ UNCHANGED spent) /\ (content' = content + 1 \/ content' = content)
      BY <1>28, Zenon DEF Tick
    <3> QED BY <1>0, <3>1, SpendType, SMT
  <2>2. pass' \in PassStates
    <3>1. (pass.changed \/ changes) \in BOOLEAN
      BY Zenon
    <3> QED BY <1>0, <1>p, <1>28, <3>1, PassType, Zenon DEF Tick
  <2> QED BY <1>0, <1>28, <2>1, <2>2, Zenon DEF Tick, PassStates
<1> QED
  BY <1>1, <1>2, <1>3, <1>4, <1>5, <1>6, <1>7, <1>8, <1>9, <1>10, <1>11, <1>12, <1>13, <1>14, <1>15, <1>16, <1>17, <1>18, <1>19, <1>20, <1>21, <1>22, <1>23, <1>24, <1>25, <1>26, <1>27, <1>28, Zenon DEF RenderStep, Select, Render, Handler, Door
-----------------------------------------------------------------------------
(* The render loop: wake-ups and frames *)

\* A step of the session loses no wake-up.
LEMMA InputStaysSeen ==
    ASSUME TypeOK, InputIsSeen, RenderStep
    PROVE  InputIsSeen'
<1> USE DEF TypeOK, signal, screen, wait, InputIsSeen, Looking
<1>0. TypeOK /\ InputIsSeen
  OBVIOUS
<1>1. CASE AdvanceWorld
  BY <1>0, <1>1, SMT DEF AdvanceWorld, Wake, NoPass, Places
<1>2. CASE RenderInput
  BY <1>0, <1>2, SMT DEF RenderInput, Wake, NoPass, Places
<1>3. CASE Notified
  BY <1>0, <1>3, SMT DEF Notified, Places
<1>4. CASE Pause
  BY <1>0, <1>4, SMT DEF Pause, Places
<1>5. CASE Stall
  BY <1>0, <1>5, SMT DEF Stall, Ends, Places
<1>6. CASE Begin
  BY <1>0, <1>6, SMT DEF Begin, Places
<1>7. CASE Quit
  BY <1>0, <1>7, SMT DEF Quit, Ends, Places
<1>8. CASE HandleInput
  BY <1>0, <1>8, SMT DEF HandleInput, Ends, Places
<1>9. CASE Drained
  BY <1>0, <1>9, SMT DEF Drained, Places
<1>10. CASE BudgetHit
  BY <1>0, <1>10, SMT DEF BudgetHit, Places
<1>11. CASE SkipDraw
  BY <1>0, <1>11, SMT DEF SkipDraw, Drawing, Hinted, Places
<1>12. CASE Draw
  BY <1>0, <1>12, SMT DEF Draw, Drawing, Places
<1>13. CASE SendFrame
  BY <1>0, <1>13, SMT DEF SendFrame, Places
<1>14. CASE DropFrame
  BY <1>0, <1>14, SMT DEF DropFrame, Places
<1>15. CASE SendCommands
  BY <1>0, <1>15, SMT DEF SendCommands, Places
<1>16. CASE DropCommand
  BY <1>0, <1>16, SMT DEF DropCommand, Places
<1>17. CASE Repaint
  BY <1>0, <1>17, SMT DEF Repaint, AfterRepaint, Places
<1>18. CASE EndPass
  BY <1>0, <1>18, SMT DEF EndPass, Hinted, NoPass, NoFrame, Places
<1>19. CASE RenderFails
  BY <1>0, <1>19, SMT DEF RenderFails, Ends, Drawing, Places
<1>20. CASE Data
  BY <1>0, <1>20, SMT DEF Data, Places
<1>21. CASE MarkDirty
  BY <1>0, <1>21, SMT DEF MarkDirty, Places
<1>22. CASE NotifyOne
  BY <1>0, <1>22, SMT DEF NotifyOne, Places
<1>23. CASE Resize
  BY <1>0, <1>23, SMT DEF Resize, Unlocked, Places
<1>24. CASE Close
  BY <1>0, <1>24, SMT DEF Close, Unlocked, Places
<1>25. CASE DoorOutput
  BY <1>0, <1>25, SMT DEF DoorOutput, Places
<1>26. CASE DoorMark
  BY <1>0, <1>26, SMT DEF DoorMark, Places
<1>27. CASE DoorNotify
  BY <1>0, <1>27, SMT DEF DoorNotify, Places
<1>28. ASSUME NEW changes \in BOOLEAN, Tick(changes) PROVE InputIsSeen'
  BY <1>0, <1>28, SMT DEF Tick, Places
<1> QED
  BY <1>1, <1>2, <1>3, <1>4, <1>5, <1>6, <1>7, <1>8, <1>9, <1>10, <1>11, <1>12, <1>13, <1>14, <1>15, <1>16, <1>17, <1>18, <1>19, <1>20, <1>21, <1>22, <1>23, <1>24, <1>25, <1>26, <1>27, <1>28, Zenon DEF RenderStep, Select, Render, Handler, Door

\* A step of the session keeps the screen, the buffers and the frame in step.
LEMMA FrameStaysTracked ==
    ASSUME TypeOK, FrameIsTracked, RenderStep
    PROVE  FrameIsTracked'
<1> USE DEF TypeOK, signal, screen, wait, FrameIsTracked, UpToDate, Blank, Partial, Garbled
<1>0. TypeOK /\ FrameIsTracked
  OBVIOUS
<1>1. CASE AdvanceWorld
  BY <1>0, <1>1, SMT DEF AdvanceWorld, Wake, NoPass, Places
<1>2. CASE RenderInput
  BY <1>0, <1>2, SMT DEF RenderInput, Wake, NoPass, Places
<1>3. CASE Notified
  BY <1>0, <1>3, SMT DEF Notified, Places
<1>4. CASE Pause
  BY <1>0, <1>4, SMT DEF Pause, Places
<1>5. CASE Stall
  BY <1>0, <1>5, SMT DEF Stall, Ends, Places
<1>6. CASE Begin
  BY <1>0, <1>6, SMT DEF Begin, Places
<1>7. CASE Quit
  BY <1>0, <1>7, SMT DEF Quit, Ends, Places
<1>8. CASE HandleInput
  <2>0. loop = "draining" /\ UNCHANGED <<prev, shown>>
    BY <1>8, Zenon DEF HandleInput, Ends
  <2>1. CASE pass' = [pass EXCEPT !.changed = TRUE, !.drained = @ + 1] /\ UNCHANGED loop
    <3>1. pass'.changed
      BY <2>1, SMT
    <3> QED BY <1>0, <2>0, <2>1, <3>1, SMT
  <2>2. CASE Ends
    BY <1>0, <2>0, <2>2, SMT DEF Ends
  <2> QED BY <1>8, <2>1, <2>2, Zenon DEF HandleInput
<1>9. CASE Drained
  BY <1>0, <1>9, SMT DEF Drained, Places
<1>10. CASE BudgetHit
  BY <1>0, <1>10, SMT DEF BudgetHit, Places
<1>11. CASE SkipDraw
  BY <1>0, <1>11, SMT DEF SkipDraw, Drawing, Hinted, Places
<1>12. CASE Draw
  BY <1>0, <1>12, SMT DEF Draw, Drawing, Places
<1>13. CASE SendFrame
  BY <1>0, <1>13, SMT DEF SendFrame, Places
<1>14. CASE DropFrame
  BY <1>0, <1>14, SMT DEF DropFrame, Places
<1>15. CASE SendCommands
  BY <1>0, <1>15, SMT DEF SendCommands, Places
<1>16. CASE DropCommand
  BY <1>0, <1>16, SMT DEF DropCommand, Places
<1>17. CASE Repaint
  BY <1>0, <1>17, SMT DEF Repaint, AfterRepaint, Places
<1>18. CASE EndPass
  BY <1>0, <1>18, SMT DEF EndPass, Hinted, NoPass, NoFrame, Places
<1>19. CASE RenderFails
  BY <1>0, <1>19, SMT DEF RenderFails, Ends, Drawing, Places
<1>20. CASE Data
  BY <1>0, <1>20, SMT DEF Data, Places
<1>21. CASE MarkDirty
  BY <1>0, <1>21, SMT DEF MarkDirty, Places
<1>22. CASE NotifyOne
  BY <1>0, <1>22, SMT DEF NotifyOne, Places
<1>23. CASE Resize
  BY <1>0, <1>23, SMT DEF Resize, Unlocked, Places
<1>24. CASE Close
  BY <1>0, <1>24, SMT DEF Close, Unlocked, Places
<1>25. CASE DoorOutput
  BY <1>0, <1>25, SMT DEF DoorOutput, Places
<1>26. CASE DoorMark
  BY <1>0, <1>26, SMT DEF DoorMark, Places
<1>27. CASE DoorNotify
  BY <1>0, <1>27, SMT DEF DoorNotify, Places
<1>28. ASSUME NEW changes \in BOOLEAN, Tick(changes) PROVE FrameIsTracked'
  BY <1>0, <1>28, SMT DEF Tick, Places
<1> QED
  BY <1>1, <1>2, <1>3, <1>4, <1>5, <1>6, <1>7, <1>8, <1>9, <1>10, <1>11, <1>12, <1>13, <1>14, <1>15, <1>16, <1>17, <1>18, <1>19, <1>20, <1>21, <1>22, <1>23, <1>24, <1>25, <1>26, <1>27, <1>28, Zenon DEF RenderStep, Select, Render, Handler, Door
\* A session that has just started satisfies the invariant.
LEMMA RenderInitInv == RenderInit => RenderInv
<1> SUFFICES ASSUME RenderInit PROVE RenderInv
  OBVIOUS
<1>1. pass \in PassStates /\ spent \in Bounds
  <2>1. 0 \in 0 .. DrainMax
    BY BoundsAssumption
  <2>2. spent \in Bounds
    BY BoundsAssumption, SMT DEF RenderInit, Bounds
  <2> QED BY <2>1, <2>2, Zenon DEF RenderInit, NoPass, PassStates
<1>2. TypeOK
  <2>1. dirty \in BOOLEAN /\ permit \in BOOLEAN /\ running \in BOOLEAN /\ pending \in BOOLEAN
    BY DEF RenderInit
  <2>2. /\ handler = "idle" /\ door = "idle" /\ queue = <<>> /\ content = 0 /\ prev = Blank /\ shown = 0
        /\ loop = "select" /\ deadline = "hot" /\ frame = NoFrame /\ inRow = 0
    BY DEF RenderInit
  <2> QED BY <1>1, <2>1, <2>2, BoundsAssumption, SMT DEF TypeOK, NoFrame, Blank, Places, PassStates
<1>3. InputIsSeen /\ FrameIsTracked
  BY DEF RenderInit, InputIsSeen, FrameIsTracked, UpToDate, Garbled, Blank
<1> QED BY <1>2, <1>3 DEF RenderInv

\* The invariant holds of every behaviour.
THEOREM RenderInvariant == RenderSpec => []RenderInv
<1>1. RenderInv /\ [RenderNext]_renderVars => RenderInv'
  <2> SUFFICES ASSUME RenderInv, [RenderNext]_renderVars PROVE RenderInv'
    OBVIOUS
  <2>1. CASE RenderStep
    BY <2>1, RenderType, InputStaysSeen, FrameStaysTracked DEF RenderInv
  <2>2. CASE UNCHANGED renderVars
    BY <2>2 DEF renderVars, RenderInv, TypeOK, InputIsSeen, Looking, FrameIsTracked, UpToDate
  <2> QED BY <2>1, <2>2 DEF RenderNext, Ended, RenderStep
<1> QED BY RenderInitInv, <1>1, PTL DEF RenderSpec

\* Input queued by `data` is never left to the next world tick: whatever the
\* handler, the door's reader and the loop interleave between the flag, the permit
\* and the queue, a waiting loop knows of it, is about to be woken or looks soon.
THEOREM WakeupsAreNeverLost == RenderSpec => []NoLostWakeup
<1>1. RenderInv => NoLostWakeup
  BY DEF RenderInv, InputIsSeen, Looking, NoLostWakeup
<1> QED BY <1>1, RenderInvariant, PTL

\* Whatever frames and commands the client's channel drops, the next difference is
\* taken from what the client shows, or is a full repaint, and a waiting loop
\* knows that the screen is behind.
THEOREM ScreenIsAlwaysTracked == RenderSpec => []ScreenIsTracked
<1>1. RenderInv => ScreenIsTracked
  BY DEF RenderInv, FrameIsTracked, UpToDate, ScreenIsTracked, UnshownIsDirty, ScreenNeverGarbled
<1> QED BY <1>1, RenderInvariant, PTL

-----------------------------------------------------------------------------
(* The latency probe: steps *)

\* The probe's states are well typed.
LEMMA ProbeStateType ==
    ASSUME NEW due \in Int, NEW last \in Int, NEW streak \in Int
    PROVE  /\ Idle(due, last, streak) \in ProbeStates /\ Idle(due, last, streak).kind = "idle"
           /\ Idle(due, last, streak).due = due /\ Idle(due, last, streak).last = last
           /\ InFlight(due, streak) \in ProbeStates /\ InFlight(due, streak).kind = "in_flight"
           /\ InFlight(due, streak).due = due
           /\ Retired \in ProbeStates /\ Retired.kind = "retired"
  BY DEF Idle, InFlight, Retired, ProbeStates, Never

\* A session that has just started has asked nothing.
LEMMA ProbeInitInv == ProbeInit => ProbeInv
<1> SUFFICES ASSUME ProbeInit PROVE ProbeInv
  OBVIOUS
<1>1. state \in ProbeStates /\ state.kind = "idle"
  BY ProbeStateType DEF ProbeInit, Never
<1>2. /\ clock = 0 /\ prober = "between" /\ queries = <<>> /\ asked = 0
      /\ tally = [answered |-> 0, lost |-> 0]
  BY DEF ProbeInit
<1>3. mismatched \in BOOLEAN /\ ~mismatched
  BY DEF ProbeInit
<1>4. ProbeTypeOK
  BY <1>1, <1>2, <1>3, SMT DEF ProbeTypeOK
<1>5. OneQueryIsOut /\ QueriesAreAccounted
  BY <1>1, <1>2, SMT DEF OneQueryIsOut, QueriesAreAccounted
<1> QED BY <1>3, <1>4, <1>5 DEF ProbeInv, ProbesAreMatched, ReplyMeetsItsQuery
\* Nothing is asked, answered or counted: what is out stays as it was.
LEMMA ProbeFrame ==
    ASSUME ProbeInv, UNCHANGED <<queries, asked, mismatched>>, clock' \in Int, state' \in ProbeStates,
           prober' \in {"between", "expired", "claimed"}, tally' \in [answered : Int, lost : Int],
           OneQueryIsOut', QueriesAreAccounted'
    PROVE  ProbeInv'
<1>1. ProbeTypeOK'
  BY DEF ProbeInv, ProbeTypeOK
<1> QED BY <1>1 DEF ProbeInv, ProbesAreMatched, ReplyMeetsItsQuery

\* A probe given up on leaves the next one an interval away.
LEMMA ExpireInv == ASSUME ProbeInv, Expire PROVE ProbeInv'
<1> USE DurationsAssumption
<1>0. /\ ProbeTypeOK /\ OneQueryIsOut /\ QueriesAreAccounted
      /\ prober = "between" /\ prober' = "expired"
      /\ UNCHANGED <<clock, queries, asked, mismatched>>
  BY DEF ProbeInv, ProbesAreMatched, Expire
<1>1. CASE state.kind = "in_flight" /\ clock >= state.due + Timeout
  <2>0. state' = Expired(state.streak + 1) /\ tally' = [tally EXCEPT !.lost = @ + 1]
    BY <1>1 DEF Expire
  <2>1. /\ tally' \in [answered : Int, lost : Int]
        /\ tally'.answered = tally.answered /\ tally'.lost = tally.lost + 1
    BY <1>0, <2>0, SMT DEF ProbeTypeOK
  <2>2. /\ state' \in ProbeStates
        /\ \/ state'.kind = "retired"
           \/ state'.kind = "idle" /\ state'.due = clock + Interval /\ state'.last = Never
    <3>1. state.streak + 1 \in Int /\ clock + Interval \in Int /\ Never \in Int
      BY <1>0, SMT DEF ProbeTypeOK, ProbeStates, Never
    <3>2. state' = Retired \/ state' = Idle(clock + Interval, Never, state.streak + 1)
      BY <2>0, Zenon DEF Expired
    <3> QED BY <3>1, <3>2, ProbeStateType
  <2>3. OneQueryIsOut'
    BY <1>0, <1>1, <2>2, SMT DEF OneQueryIsOut, ProbeTypeOK, ProbeStates
  <2>4. QueriesAreAccounted'
    BY <1>0, <1>1, <2>1, <2>2, SMT DEF QueriesAreAccounted, ProbeTypeOK
  <2> QED BY <1>0, <2>1, <2>2, <2>3, <2>4, ProbeFrame DEF ProbeTypeOK
<1>2. CASE ~(state.kind = "in_flight" /\ clock >= state.due + Timeout)
  <2>0. UNCHANGED <<state, tally>>
    BY <1>2 DEF Expire
  <2>1. OneQueryIsOut' /\ QueriesAreAccounted'
    BY <1>0, <2>0, SMT DEF OneQueryIsOut, QueriesAreAccounted
  <2> QED BY <1>0, <2>0, <2>1, ProbeFrame DEF ProbeTypeOK
<1> QED BY <1>1, <1>2

\* A probe starts only when no query is out: one given up on is overdue by then,
\* and after an answered one none is.
LEMMA StartInv == ASSUME ProbeInv, NEW large \in BOOLEAN, Start(large) PROVE ProbeInv'
<1> USE DurationsAssumption, DelayAssumption
<1>0. /\ ProbeTypeOK /\ OneQueryIsOut /\ QueriesAreAccounted /\ prober = "expired"
      /\ UNCHANGED <<clock, queries, tally, asked, mismatched>>
  BY DEF ProbeInv, ProbesAreMatched, Start
<1>1. CASE state.kind = "idle" /\ Due(large)
  <2>0. prober' = "claimed" /\ state' = InFlight(clock, state.streak)
    BY <1>1 DEF Start
  <2>1. state' \in ProbeStates /\ state'.kind = "in_flight" /\ state'.due = clock
    <3>1. clock \in Int /\ state.streak \in Int
      BY <1>0 DEF ProbeTypeOK, ProbeStates
    <3> QED BY <2>0, <3>1, ProbeStateType
  <2>2. queries = <<>>
    BY <1>0, <1>1, SMT DEF OneQueryIsOut, Due, ProbeTypeOK, ProbeStates
  <2>3. OneQueryIsOut' /\ QueriesAreAccounted'
    BY <1>0, <1>1, <2>0, <2>1, <2>2, SMT DEF OneQueryIsOut, QueriesAreAccounted
  <2> QED BY <1>0, <2>0, <2>1, <2>3, ProbeFrame DEF ProbeTypeOK
<1>2. CASE ~(state.kind = "idle" /\ Due(large))
  <2>0. prober' = "between" /\ UNCHANGED state
    BY <1>2 DEF Start
  <2>1. OneQueryIsOut' /\ QueriesAreAccounted'
    BY <1>0, <2>0, SMT DEF OneQueryIsOut, QueriesAreAccounted
  <2> QED BY <1>0, <2>0, <2>1, ProbeFrame DEF ProbeTypeOK
<1> QED BY <1>1, <1>2

\* The query leaves at the moment the slot was claimed, or its probe is cancelled.
LEMMA SendOrCancelInv == ASSUME ProbeInv, SendQuery \/ Cancel PROVE ProbeInv'
<1> USE DurationsAssumption
<1>0. /\ ProbeTypeOK /\ OneQueryIsOut /\ QueriesAreAccounted /\ ~mismatched
      /\ prober = "claimed" /\ prober' = "between" /\ UNCHANGED <<clock, tally, mismatched>>
      /\ queries = <<>> /\ state.kind = "in_flight" /\ state.due = clock
  BY DEF ProbeInv, ProbesAreMatched, ReplyMeetsItsQuery, SendQuery, Cancel, OneQueryIsOut
<1>1. CASE SendQuery
  <2>0. queries' = <<clock>> /\ asked' = asked + 1 /\ UNCHANGED state
    BY <1>0, <1>1 DEF SendQuery
  <2>1. ProbeTypeOK'
    BY <1>0, <2>0 DEF ProbeTypeOK
  <2>2. OneQueryIsOut' /\ QueriesAreAccounted'
    BY <1>0, <2>0, SMT DEF OneQueryIsOut, QueriesAreAccounted, ProbeTypeOK
  <2> QED BY <1>0, <2>1, <2>2 DEF ProbeInv, ProbesAreMatched, ReplyMeetsItsQuery
<1>2. CASE Cancel
  <2>0. UNCHANGED <<queries, asked>> /\ state' = Idle(clock + Interval, Never, state.streak)
    BY <1>0, <1>2 DEF Cancel
  <2>1. state' \in ProbeStates /\ state'.kind = "idle"
    <3>1. clock + Interval \in Int /\ Never \in Int /\ state.streak \in Int
      BY <1>0 DEF ProbeTypeOK, ProbeStates, Never
    <3> QED BY <2>0, <3>1, ProbeStateType
  <2>2. OneQueryIsOut' /\ QueriesAreAccounted'
    BY <1>0, <2>0, <2>1, SMT DEF OneQueryIsOut, QueriesAreAccounted
  <2> QED BY <1>0, <2>0, <2>1, <2>2, ProbeFrame DEF ProbeTypeOK
<1> QED BY <1>1, <1>2

\* A reply that meets a probe in flight answers its query; the others find none.
\* Either way no query is out any more.
LEMMA ReplyInv == ASSUME ProbeInv, Answered \/ LoseReply PROVE ProbeInv'
<1> USE DurationsAssumption
<1>0. /\ ProbeTypeOK /\ OneQueryIsOut /\ QueriesAreAccounted /\ ~mismatched
      /\ queries # <<>> /\ queries' = Tail(queries) /\ UNCHANGED <<clock, prober, asked>>
  BY DEF ProbeInv, ProbesAreMatched, ReplyMeetsItsQuery, Answered, LoseReply
<1>q. queries' = <<>> /\ Head(queries) = queries[1] /\ prober # "claimed"
  BY <1>0, SMT DEF OneQueryIsOut, ProbeTypeOK
<1>1. CASE Answered /\ state.kind = "in_flight"
  <2>0. /\ state' = Idle(clock + Interval, state.due, 0) /\ tally' = [tally EXCEPT !.answered = @ + 1]
        /\ mismatched' = (mismatched \/ state.due # Head(queries))
    BY <1>1 DEF Answered
  <2>1. state' \in ProbeStates /\ state'.kind = "idle"
    <3>1. clock + Interval \in Int /\ state.due \in Int
      BY <1>0 DEF ProbeTypeOK, ProbeStates
    <3> QED BY <2>0, <3>1, ProbeStateType
  <2>2. /\ tally' \in [answered : Int, lost : Int]
        /\ tally'.answered = tally.answered + 1 /\ tally'.lost = tally.lost
    BY <1>0, <2>0, SMT DEF ProbeTypeOK
  <2>3. state.due = Head(queries)
    BY <1>0, <1>q, <1>1 DEF OneQueryIsOut
  <2>4. mismatched' = FALSE
    BY <1>0, <2>0, <2>3, Zenon
  <2>5. ProbeTypeOK'
    <3>1. mismatched' \in BOOLEAN
      BY <2>4
    <3> QED BY <1>0, <1>q, <2>1, <2>2, <3>1 DEF ProbeTypeOK
  <2>6. OneQueryIsOut' /\ QueriesAreAccounted'
    BY <1>0, <1>q, <1>1, <2>1, <2>2, SMT DEF OneQueryIsOut, QueriesAreAccounted, ProbeTypeOK
  <2> QED BY <2>4, <2>5, <2>6 DEF ProbeInv, ProbesAreMatched, ReplyMeetsItsQuery
<1>2. CASE UNCHANGED <<state, tally, mismatched>>
  <2>1. ProbeTypeOK'
    BY <1>0, <1>q, <1>2 DEF ProbeTypeOK
  <2>2. OneQueryIsOut' /\ QueriesAreAccounted'
    BY <1>0, <1>q, <1>2, SMT DEF OneQueryIsOut, QueriesAreAccounted
  <2> QED BY <1>0, <1>2, <2>1, <2>2 DEF ProbeInv, ProbesAreMatched, ReplyMeetsItsQuery
<1> QED BY <1>1, <1>2 DEF Answered, LoseReply

\* Time passes between passes, and no reply is later than MaxDelay.
LEMMA ProbeTickInv == ASSUME ProbeInv, ProbeTick PROVE ProbeInv'
<1> USE DurationsAssumption
<1>0. /\ ProbeTypeOK /\ OneQueryIsOut /\ QueriesAreAccounted
      /\ prober = "between" /\ clock' = clock + 1
      /\ queries # <<>> => clock < Head(queries) + MaxDelay
      /\ UNCHANGED <<state, prober, queries, tally, asked, mismatched>>
  BY DEF ProbeInv, ProbesAreMatched, ProbeTick
<1>1. OneQueryIsOut' /\ QueriesAreAccounted'
  BY <1>0, SMT DEF OneQueryIsOut, QueriesAreAccounted, ProbeTypeOK, ProbeStates
<1> QED BY <1>0, <1>1, ProbeFrame DEF ProbeTypeOK

\* The invariant holds of every behaviour.
THEOREM ProbeInvariant == ProbeSpec => []ProbeInv
<1>1. ProbeInv /\ [ProbeNext]_probeVars => ProbeInv'
  <2> SUFFICES ASSUME ProbeInv, [ProbeNext]_probeVars PROVE ProbeInv'
    OBVIOUS
  <2>1. CASE ProbeNext
    BY <2>1, ExpireInv, StartInv, SendOrCancelInv, ReplyInv, ProbeTickInv DEF ProbeNext
  <2>2. CASE UNCHANGED probeVars
    BY <2>2 DEF probeVars, ProbeInv, ProbeTypeOK, OneQueryIsOut, ProbesAreMatched, ReplyMeetsItsQuery,
       QueriesAreAccounted
  <2> QED BY <2>1, <2>2
<1> QED BY ProbeInitInv, <1>1, PTL DEF ProbeSpec

\* For any interval and timeout that together exceed the slowest terminal's delay,
\* a round trip is measured between a query and its own reply, although replies
\* carry no tag and may be lost, and the summary counts every query once.
THEOREM ProbesAreAlwaysMatched == ProbeSpec => []ProbesAreMatched
<1>1. ProbeInv => ProbesAreMatched
  BY DEF ProbeInv
<1> QED BY <1>1, ProbeInvariant, PTL

-----------------------------------------------------------------------------
(* The output budget *)

BudgetTypeOK ==
    /\ outstanding \in Nat /\ sends \in 0 .. PassSends /\ unrecorded \in Sizes \cup {0}
    /\ events \in Seq(Sizes) /\ Len(events) <= EventBuffer
    /\ backlog \in Nat /\ window \in Nat
    /\ unread \in Nat /\ held \in 0 .. Threshold - 1 /\ credits \in Seq(Nat)
    /\ rendered \in Nat /\ stalled \in BOOLEAN

InEvents == SumFunctionOnSet(events, DOMAIN events)
InCredits == SumFunctionOnSet(credits, DOMAIN credits)

\* The window is what the client opened less what it has not credited back, and
\* nothing is pending while there is room in it.
WindowIsConserved ==
    /\ window + unread + held + InCredits = Window
    /\ backlog > 0 => window = 0

\* A pass starts within the budget and sends so often; since the last reset, what
\* russh still holds was counted, is about to be, or was in the event channel then.
CountIsAhead ==
    /\ outstanding + unrecorded + sends * Max(Sizes) <= Budget + PassSends * Max(Sizes)
    /\ InEvents + backlog <= outstanding + unrecorded + EventBuffer * Max(Sizes)

\* While there is room in the window, the count since the last reset is no more than
\* what went into it and one send that the reset was too early for.
CountIsRecent == window > 0 => outstanding + unrecorded + window <= Budget + InEvents

BudgetInv == BudgetTypeOK /\ WindowIsConserved /\ CountIsAhead /\ CountIsRecent

\* The budget bounds the sizes, so one of them is the largest.
LEMMA LargestSize ==
    /\ Max(Sizes) \in Sizes /\ \A size \in Sizes : size <= Max(Sizes)
    /\ Max(Sizes) \in Nat \ {0} /\ Window + Max(Sizes) <= Budget
<1> DEFINE slack == {Budget - size : size \in Sizes}
<1>1. slack \subseteq Nat /\ slack # {}
  <2>1. \A size \in Sizes : size \in Nat /\ Budget >= Window + size
    BY SizesAssumption, BudgetAssumption
  <2>2. Budget \in Nat /\ Window \in Nat /\ Sizes # {}
    BY SizesAssumption
  <2>3. \A size \in Sizes : Budget - size \in Nat
    BY <2>1, <2>2
  <2> QED
    BY <2>2, <2>3
<1>2. PICK least \in slack : \A other \in slack : ~ (<<other, least>> \in OpToRel(<, Nat))
  <2> HIDE DEF slack
  <2> QED
    BY <1>1, NatLessThanWellFounded, WFMin
<1>3. PICK size \in Sizes : least = Budget - size
  OBVIOUS
<1>4. \A other \in Sizes : other <= size
  <2> TAKE other \in Sizes
  <2>1. ~ (Budget - other < Budget - size)
    BY <1>1, <1>2, <1>3 DEF OpToRel
  <2> QED
    BY <2>1, SizesAssumption
<1>5. Max(Sizes) \in Sizes /\ \A other \in Sizes : Max(Sizes) >= other
  BY <1>4, SizesAssumption DEF Max
<1> QED
  BY <1>5, SizesAssumption, BudgetAssumption

\* The bytes of the queues.
LEMMA QueueSums ==
    ASSUME BudgetTypeOK
    PROVE  /\ events \in Seq(Int) /\ credits \in Seq(Int)
           /\ InEvents \in Nat /\ InCredits \in Nat
           /\ InEvents <= Max(Sizes) * Len(events) /\ Max(Sizes) * Len(events) <= EventBuffer * Max(Sizes)
           /\ events # <<>> => Head(events) \in Sizes /\ Tail(events) \in Seq(Sizes)
           /\ credits # <<>> => Head(credits) \in Nat /\ Tail(credits) \in Seq(Nat)
<1>1. events \in Seq(Int) /\ \A i \in DOMAIN events : events[i] \in Nat /\ events[i] <= Max(Sizes)
  <2>1. \A i \in DOMAIN events : events[i] \in Sizes
    BY DEF BudgetTypeOK
  <2>2. events \in Seq(Nat)
    BY SeqOfMore, SizesAssumption DEF BudgetTypeOK
  <2>3. events \in Seq(Int)
    BY <2>2, SumOfNatQueue
  <2> QED
    BY <2>1, <2>3, LargestSize, SizesAssumption
<1>2. credits \in Seq(Int) /\ \A i \in DOMAIN credits : credits[i] \in Nat
  BY DEF BudgetTypeOK
<1>3. IsFiniteSet(DOMAIN events) /\ IsFiniteSet(DOMAIN credits)
  BY <1>1, <1>2, SumOfQueue
<1>4. InEvents \in Nat
  BY <1>1, <1>3, SumIsNat DEF InEvents
<1>5. InCredits \in Nat
  BY <1>2, <1>3, SumIsNat DEF InCredits
<1>6. Max(Sizes) \in Int
  BY LargestSize
<1>7. InEvents <= Max(Sizes) * Len(events)
  BY <1>1, <1>6, SumOfQueueIsBounded DEF InEvents
<1>8. \A m, n, k \in Nat : n <= k => m * n <= k * m
  OBVIOUS
<1>9. Max(Sizes) * Len(events) <= EventBuffer * Max(Sizes)
  <2>1. Len(events) \in Nat /\ EventBuffer \in Nat /\ Len(events) <= EventBuffer /\ Max(Sizes) \in Nat
    BY LargestSize, SizesAssumption DEF BudgetTypeOK
  <2> QED
    BY <1>8, <2>1
<1>10. /\ events # <<>> => Head(events) \in Sizes /\ Tail(events) \in Seq(Sizes)
       /\ credits # <<>> => Head(credits) \in Nat /\ Tail(credits) \in Seq(Nat)
  BY DEF BudgetTypeOK
<1> QED
  BY <1>1, <1>2, <1>4, <1>5, <1>7, <1>9, <1>10

LEMMA SendsCount ==
    \A n, m \in Nat : n > 0 => n * m = (n - 1) * m + m /\ n * m \in Nat /\ (n - 1) * m \in Nat
  OBVIOUS

LEMMA BudgetInitInv == BudgetInit => BudgetInv
<1> SUFFICES ASSUME BudgetInit PROVE BudgetInv
  OBVIOUS
<1>1. BudgetTypeOK
  <2>1. <<>> \in Seq(Sizes) /\ <<>> \in Seq(Nat) /\ Len(<<>>) = 0
    OBVIOUS
  <2>2. 0 \in 0 .. PassSends /\ 0 <= EventBuffer /\ Window \in Nat /\ 0 \in 0 .. Threshold - 1
    BY SizesAssumption
  <2> QED
    BY <2>1, <2>2 DEF BudgetInit, BudgetTypeOK
<1>2. InEvents = 0 /\ InCredits = 0
  BY SumOfEmptyQueue DEF BudgetInit, InEvents, InCredits
<1>3. Max(Sizes) \in Nat /\ Window + Max(Sizes) <= Budget
  BY LargestSize
<1>4. 0 * Max(Sizes) = 0 /\ PassSends * Max(Sizes) \in Nat /\ EventBuffer * Max(Sizes) \in Nat
  BY <1>3, SizesAssumption
<1>5. WindowIsConserved
  BY <1>2, SizesAssumption DEF BudgetInit, WindowIsConserved
<1>6. CountIsAhead
  BY <1>2, <1>4, SizesAssumption DEF BudgetInit, CountIsAhead
<1>7. CountIsRecent
  BY <1>2, <1>3, SizesAssumption DEF BudgetInit, CountIsRecent
<1> QED
  BY <1>1, <1>5, <1>6, <1>7 DEF BudgetInv

\* What the lemmas about the actions start from.
LEMMA BudgetFacts ==
    ASSUME BudgetInv
    PROVE  /\ Max(Sizes) \in Nat \ {0} /\ Window + Max(Sizes) <= Budget
           /\ \A size \in Sizes : size \in Nat \ {0} /\ size <= Max(Sizes)
           /\ PassSends * Max(Sizes) \in Nat /\ EventBuffer * Max(Sizes) \in Nat
           /\ sends * Max(Sizes) \in Nat
           /\ InEvents \in Nat /\ InCredits \in Nat /\ InEvents <= EventBuffer * Max(Sizes)
           /\ unrecorded \in Nat /\ unrecorded <= Max(Sizes)
<1>1. Max(Sizes) \in Nat \ {0} /\ Window + Max(Sizes) <= Budget
  BY LargestSize
<1>2. \A size \in Sizes : size \in Nat \ {0} /\ size <= Max(Sizes)
  BY LargestSize, SizesAssumption
<1>3. sends \in Nat /\ PassSends \in Nat /\ EventBuffer \in Nat /\ unrecorded \in Sizes \cup {0}
  BY SizesAssumption DEF BudgetInv, BudgetTypeOK
<1>4. InEvents \in Nat /\ InCredits \in Nat
  BY QueueSums DEF BudgetInv
<1>5. \A n, m \in Nat : n * m \in Nat
  OBVIOUS
<1>6. /\ PassSends * Max(Sizes) \in Nat /\ EventBuffer * Max(Sizes) \in Nat
      /\ sends * Max(Sizes) \in Nat
  BY <1>1, <1>3, <1>5
<1>7. InEvents <= EventBuffer * Max(Sizes)
  <2> DEFINE a == Max(Sizes) * Len(events)
  <2> DEFINE b == EventBuffer * Max(Sizes)
  <2>1. InEvents <= a /\ a <= b /\ events \in Seq(Int)
    BY QueueSums DEF BudgetInv
  <2>2. a \in Nat /\ b \in Nat
    <3>1. Len(events) \in Nat
      BY <2>1
    <3> QED
      BY <1>1, <1>5, <1>6, <3>1
  <2> HIDE DEF a, b
  <2>3. InEvents <= b
    BY <1>4, <2>1, <2>2
  <2> QED
    BY <2>3 DEF b
<1>8. unrecorded \in Nat /\ unrecorded <= Max(Sizes)
  BY <1>1, <1>2, <1>3
<1> QED
  BY <1>1, <1>2, <1>4, <1>6, <1>7, <1>8

\* A pass starts, ends, or is put off.
LEMMA PassInv == ASSUME BudgetInv, BeginPass \/ StayPaused \/ EndSends PROVE BudgetInv'
<1>0. /\ BudgetTypeOK /\ WindowIsConserved /\ CountIsAhead /\ CountIsRecent
      /\ UNCHANGED <<outstanding, unrecorded, events, backlog, window, unread, held, credits, rendered>>
      /\ \/ sends' = PassSends /\ outstanding <= Budget /\ unrecorded = 0
         \/ sends' = sends
         \/ sends' = 0
      /\ stalled' \in BOOLEAN
  <2>0. /\ BudgetTypeOK /\ WindowIsConserved /\ CountIsAhead /\ CountIsRecent
        /\ stalled \in BOOLEAN /\ outstanding \in Nat /\ Budget \in Nat
    BY SizesAssumption DEF BudgetInv, BudgetTypeOK
  <2>1. CASE BeginPass
    <3>1. /\ UNCHANGED <<outstanding, unrecorded, events, backlog, window, unread, held, credits, rendered>>
          /\ sends' = PassSends /\ ~(outstanding > Budget) /\ unrecorded = 0 /\ stalled' = FALSE
      BY <2>1 DEF BeginPass, over_budget, russh, client
    <3>2. outstanding <= Budget
      BY <2>0, <3>1
    <3> QED
      BY <2>0, <3>1, <3>2
  <2>2. CASE StayPaused
    BY <2>0, <2>2 DEF StayPaused, russh, client
  <2>3. CASE EndSends
    BY <2>0, <2>3 DEF EndSends, russh, client
  <2> QED
    BY <2>1, <2>2, <2>3
<1>1. InEvents' = InEvents /\ InCredits' = InCredits
  BY <1>0 DEF InEvents, InCredits
<1>2. BudgetTypeOK'
  BY <1>0, SizesAssumption DEF BudgetTypeOK
<1>3. WindowIsConserved' /\ CountIsRecent'
  BY <1>0, <1>1 DEF WindowIsConserved, CountIsRecent
<1>4. CountIsAhead'
  <2> DEFINE m == Max(Sizes)
  <2>1. m \in Nat /\ sends * m \in Nat /\ PassSends * m \in Nat /\ 0 * m = 0
    BY BudgetFacts
  <2>2. /\ outstanding + unrecorded + sends * m <= Budget + PassSends * m
        /\ InEvents + backlog <= outstanding + unrecorded + EventBuffer * m
    BY <1>0 DEF CountIsAhead
  <2>3. outstanding \in Nat /\ unrecorded \in Nat /\ Budget \in Nat
    BY <1>0, BudgetFacts, SizesAssumption DEF BudgetTypeOK
  <2> HIDE DEF m
  <2>4. outstanding + unrecorded + sends' * m <= Budget + PassSends * m
    <3>1. CASE sends' = PassSends /\ outstanding <= Budget /\ unrecorded = 0
      BY <2>1, <2>3, <3>1
    <3>2. CASE sends' = sends
      BY <2>2, <3>2
    <3>3. CASE sends' = 0
      BY <2>1, <2>2, <2>3, <3>3, SizesAssumption
    <3> QED
      BY <1>0, <3>1, <3>2, <3>3
  <2> QED
    BY <1>0, <1>1, <2>2, <2>4 DEF CountIsAhead, m
<1> QED
  BY <1>2, <1>3, <1>4 DEF BudgetInv

\* A frame or a command is handed over: it is in the event channel before it counts.
LEMMA SendInv == ASSUME BudgetInv, NEW size \in Sizes, Send(size) PROVE BudgetInv'
<1>0. /\ BudgetTypeOK /\ WindowIsConserved /\ CountIsAhead /\ CountIsRecent
      /\ UNCHANGED <<outstanding, backlog, window, unread, held, credits, stalled>>
      /\ sends > 0 /\ unrecorded = 0 /\ Len(events) < EventBuffer
      /\ sends' = sends - 1 /\ unrecorded' = size
      /\ events' = Append(events, size) /\ rendered' = rendered + size
  BY DEF BudgetInv, Send, client
<1>1. size \in Nat \ {0} /\ size <= Max(Sizes)
  BY BudgetFacts
<1>2. InEvents' = InEvents + size /\ InCredits' = InCredits
  <2>1. events \in Seq(Int) /\ size \in Int
    BY <1>0, <1>1, QueueSums
  <2> QED
    BY <1>0, <2>1, SumOfAppend DEF InEvents, InCredits
<1>3. BudgetTypeOK'
  <2>1. Append(events, size) \in Seq(Sizes) /\ Len(Append(events, size)) = Len(events) + 1
    BY <1>0 DEF BudgetTypeOK
  <2>2. Len(events) \in Nat /\ EventBuffer \in Nat
    BY <1>0, SizesAssumption DEF BudgetTypeOK
  <2> QED
    BY <1>0, <1>1, <2>1, <2>2, SizesAssumption DEF BudgetTypeOK
<1>4. WindowIsConserved'
  BY <1>0, <1>2 DEF WindowIsConserved
<1>5. CountIsRecent'
  <2>1. /\ outstanding \in Nat /\ window \in Nat /\ InEvents \in Nat /\ Budget \in Nat
        /\ window > 0 => outstanding + 0 + window <= Budget + InEvents
    BY <1>0, BudgetFacts, SizesAssumption DEF BudgetTypeOK, CountIsRecent
  <2>2. window > 0 => outstanding + size + window <= Budget + (InEvents + size)
    BY <1>1, <2>1
  <2> QED
    BY <1>0, <1>2, <2>2 DEF CountIsRecent
<1>6. CountIsAhead'
  <2> DEFINE m == Max(Sizes)
  <2>1. m \in Nat /\ PassSends * m \in Nat /\ EventBuffer * m \in Nat
    BY BudgetFacts
  <2>2. /\ outstanding + 0 + sends * m <= Budget + PassSends * m
        /\ InEvents + backlog <= outstanding + 0 + EventBuffer * m
    BY <1>0 DEF CountIsAhead
  <2>3. /\ outstanding \in Nat /\ Budget \in Nat /\ sends \in Nat /\ backlog \in Nat
        /\ InEvents \in Nat /\ size \in Nat /\ size <= m
    BY <1>0, <1>1, BudgetFacts, SizesAssumption DEF BudgetTypeOK
  <2> HIDE DEF m
  <2>4. sends * m = (sends - 1) * m + m /\ (sends - 1) * m \in Nat
    BY <1>0, <2>1, <2>3, SendsCount
  <2>5. outstanding + size + (sends - 1) * m <= Budget + PassSends * m
    BY <2>1, <2>2, <2>3, <2>4
  <2>6. (InEvents + size) + backlog <= outstanding + size + EventBuffer * m
    BY <2>1, <2>2, <2>3
  <2> QED
    BY <1>0, <1>2, <2>5, <2>6 DEF CountIsAhead, m
<1> QED
  BY <1>3, <1>4, <1>5, <1>6 DEF BudgetInv

\* The handle's answer is counted.
LEMMA RecordSentInv == ASSUME BudgetInv, RecordSent PROVE BudgetInv'
<1>0. /\ BudgetTypeOK /\ WindowIsConserved /\ CountIsAhead /\ CountIsRecent
      /\ UNCHANGED <<sends, events, backlog, window, unread, held, credits, rendered, stalled>>
      /\ unrecorded' = 0 /\ outstanding' = outstanding + unrecorded
  BY DEF BudgetInv, RecordSent, russh, client
<1>1. outstanding \in Nat /\ unrecorded \in Nat
  BY <1>0, BudgetFacts DEF BudgetTypeOK
<1>2. InEvents' = InEvents /\ InCredits' = InCredits
  BY <1>0 DEF InEvents, InCredits
<1>3. outstanding' + unrecorded' = outstanding + unrecorded
  BY <1>0, <1>1
<1>4. BudgetTypeOK'
  BY <1>0, <1>1 DEF BudgetTypeOK
<1> QED
  BY <1>0, <1>2, <1>3, <1>4 DEF BudgetInv, WindowIsConserved, CountIsAhead, CountIsRecent

LEMMA MinOfTwo ==
    ASSUME NEW a \in Nat, NEW b \in Nat
    PROVE  Min({a, b}) = IF a <= b THEN a ELSE b
  BY DEF Min

\* russh takes an event.
LEMMA ForwardInv == ASSUME BudgetInv, Forward PROVE BudgetInv'
<1> DEFINE head == Head(events)
<1> DEFINE out == IF backlog > 0 THEN 0 ELSE Min({head, window})
<1>0. /\ BudgetTypeOK /\ WindowIsConserved /\ CountIsAhead /\ CountIsRecent
      /\ UNCHANGED <<outstanding, sends, unrecorded, held, credits, rendered, stalled>>
      /\ events # <<>> /\ events' = Tail(events)
      /\ backlog' = backlog + head - out /\ window' = window - out /\ unread' = unread + out
  BY DEF BudgetInv, Forward
<1>1. /\ head \in Nat /\ backlog \in Nat /\ window \in Nat /\ unread \in Nat
      /\ events \in Seq(Int) /\ Tail(events) \in Seq(Sizes)
  BY <1>0, QueueSums, BudgetFacts DEF BudgetTypeOK
<1>2. /\ out \in Nat /\ out <= window /\ out <= head
      /\ backlog > 0 => out = 0
      /\ backlog = 0 => out = head \/ out = window
  BY <1>1, MinOfTwo
<1>3. InCredits' = InCredits /\ InEvents = head + InEvents'
  <2>1. InEvents = head + SumFunctionOnSet(Tail(events), DOMAIN Tail(events))
    BY <1>0, <1>1, SumOfTail DEF InEvents
  <2> QED
    BY <1>0, <2>1 DEF InEvents, InCredits
<1>4. InEvents' \in Int
  <2>1. events' \in Seq(Nat)
    BY <1>0, <1>1, SizesAssumption
  <2> QED
    BY <2>1, SumOfNatQueue DEF InEvents
<1> HIDE DEF out, head
<1>5. BudgetTypeOK'
  <2>1. Len(Tail(events)) <= EventBuffer
    BY <1>0, SizesAssumption DEF BudgetTypeOK
  <2> QED
    BY <1>0, <1>1, <1>2, <2>1 DEF BudgetTypeOK
<1>6. WindowIsConserved'
  BY <1>0, <1>1, <1>2, <1>3, BudgetFacts DEF WindowIsConserved, BudgetTypeOK
<1>7. CountIsRecent'
  <2>1. /\ outstanding \in Nat /\ unrecorded \in Nat /\ Budget \in Nat
        /\ backlog > 0 => window = 0
        /\ window > 0 => outstanding + unrecorded + window <= Budget + InEvents
    BY <1>0, BudgetFacts, SizesAssumption DEF WindowIsConserved, CountIsRecent, BudgetTypeOK
  <2>2. window - out > 0 => outstanding + unrecorded + (window - out) <= Budget + InEvents'
    <3> DEFINE rest == InEvents'
    <3>1. rest \in Int /\ InEvents = head + rest
      BY <1>3, <1>4
    <3> HIDE DEF rest
    <3>2. window - out > 0 => out = head
      BY <1>1, <1>2, <2>1
    <3>3. window - out > 0 => outstanding + unrecorded + (window - out) <= Budget + rest
      BY <1>1, <1>2, <2>1, <3>1, <3>2
    <3> QED
      BY <3>3 DEF rest
  <2> QED
    BY <1>0, <2>2 DEF CountIsRecent
<1>8. CountIsAhead'
  <2> DEFINE m == EventBuffer * Max(Sizes)
  <2>1. m \in Nat /\ outstanding \in Nat /\ unrecorded \in Nat
    BY <1>0, BudgetFacts DEF BudgetTypeOK
  <2>2. InEvents + backlog <= outstanding + unrecorded + m
    BY <1>0 DEF CountIsAhead
  <2> HIDE DEF m
  <2>3. InEvents' + backlog' <= outstanding + unrecorded + m
    <3> DEFINE rest == InEvents'
    <3>1. rest \in Int /\ InEvents = head + rest
      BY <1>3, <1>4
    <3> HIDE DEF rest
    <3>2. rest + (backlog + head - out) <= outstanding + unrecorded + m
      BY <1>1, <1>2, <2>1, <2>2, <3>1
    <3> QED
      BY <1>0, <3>2 DEF rest
  <2> QED
    BY <1>0, <2>3 DEF CountIsAhead, m
<1> QED
  BY <1>5, <1>6, <1>7, <1>8 DEF BudgetInv

\* The client reads a byte, and may credit what it has read.
LEMMA ReadInv == ASSUME BudgetInv, Read PROVE BudgetInv'
<1>0. /\ BudgetTypeOK /\ WindowIsConserved /\ CountIsAhead /\ CountIsRecent
      /\ UNCHANGED <<outstanding, sends, unrecorded, events, backlog, window, rendered, stalled>>
      /\ unread > 0 /\ unread' = unread - 1
      /\ \/ held + 1 >= Threshold /\ held' = 0 /\ credits' = Append(credits, held + 1)
         \/ ~ (held + 1 >= Threshold) /\ held' = held + 1 /\ credits' = credits
  BY DEF BudgetInv, Read, russh
<1>1. /\ unread \in Nat /\ held \in Nat /\ held < Threshold /\ Threshold \in Nat \ {0}
      /\ credits \in Seq(Int) /\ credits \in Seq(Nat) /\ window \in Nat
  BY <1>0, QueueSums, SizesAssumption DEF BudgetTypeOK
<1>2. InEvents' = InEvents
  BY <1>0 DEF InEvents
<1>3. InCredits \in Nat
  BY BudgetFacts
<1>4. InCredits' + held' = InCredits + held + 1
  <2>1. CASE credits' = Append(credits, held + 1) /\ held' = 0
    <3>1. InCredits' = InCredits + (held + 1)
      BY <1>1, <2>1, SumOfAppend DEF InCredits
    <3> QED
      BY <1>1, <1>3, <2>1, <3>1
  <2>2. CASE credits' = credits /\ held' = held + 1
    <3>1. InCredits' = InCredits
      BY <2>2 DEF InCredits
    <3> QED
      BY <1>1, <1>3, <2>2, <3>1
  <2> QED
    BY <1>0, <2>1, <2>2
<1>5. BudgetTypeOK'
  <2>1. credits' \in Seq(Nat)
    BY <1>0, <1>1
  <2>2. held' \in 0 .. Threshold - 1
    BY <1>0, <1>1
  <2> QED
    BY <1>0, <1>1, <2>1, <2>2 DEF BudgetTypeOK
<1>6. InCredits' \in Int
  BY <1>5, SumOfNatQueue DEF BudgetTypeOK, InCredits
<1>7. WindowIsConserved'
  <2>1. window + unread + held + InCredits = Window /\ (backlog > 0 => window = 0)
    BY <1>0 DEF WindowIsConserved
  <2>2. held' \in Int
    BY <1>0, <1>1
  <2>3. window + (unread - 1) + held' + InCredits' = Window
    <3> DEFINE c == InCredits'
    <3> DEFINE h == held'
    <3>1. c \in Int /\ h \in Int /\ c + h = InCredits + held + 1
      BY <1>4, <1>6, <2>2
    <3> HIDE DEF c, h
    <3>2. window + (unread - 1) + h + c = Window
      BY <1>1, <1>3, <2>1, <3>1
    <3> QED
      BY <3>2 DEF c, h
  <2> QED
    BY <1>0, <2>1, <2>3 DEF WindowIsConserved
<1> QED
  BY <1>0, <1>2, <1>5, <1>7 DEF BudgetInv, CountIsAhead, CountIsRecent

\* russh takes a credit: the count starts anew only when nothing is pending and
\* room is left, and then what it forgets is in the event channel.
LEMMA WindowAdjustedInv == ASSUME BudgetInv, WindowAdjusted PROVE BudgetInv'
<1> DEFINE credit == window + Head(credits)
<1> DEFINE out == Min({backlog, credit})
<1> DEFINE left == IF backlog > out THEN 0 ELSE credit - out
<1>0. /\ BudgetTypeOK /\ WindowIsConserved /\ CountIsAhead /\ CountIsRecent
      /\ UNCHANGED <<sends, unrecorded, events, held, rendered, stalled>>
      /\ credits # <<>> /\ credits' = Tail(credits)
      /\ backlog' = backlog - out /\ window' = credit - out /\ unread' = unread + out
      /\ outstanding' = IF left > 0 THEN 0 ELSE outstanding
  BY DEF BudgetInv, WindowAdjusted, on_window_adjusted
<1>1. /\ Head(credits) \in Nat /\ Tail(credits) \in Seq(Nat) /\ credits \in Seq(Int)
      /\ backlog \in Nat /\ window \in Nat /\ unread \in Nat /\ outstanding \in Nat
      /\ held \in Nat /\ credit \in Nat
  <2>1. Head(credits) \in Nat /\ Tail(credits) \in Seq(Nat) /\ credits \in Seq(Int)
    BY <1>0, QueueSums
  <2>2. backlog \in Nat /\ window \in Nat /\ unread \in Nat /\ outstanding \in Nat /\ held \in Nat
    BY <1>0 DEF BudgetTypeOK
  <2> QED
    BY <2>1, <2>2
<1>2. out \in Nat /\ out <= backlog /\ out <= credit /\ (out = backlog \/ out = credit)
  BY <1>1, MinOfTwo
<1>3. InEvents' = InEvents
  BY <1>0 DEF InEvents
<1>4. InCredits = Head(credits) + InCredits' /\ InCredits' \in Nat
  <2>1. InCredits = Head(credits) + SumFunctionOnSet(Tail(credits), DOMAIN Tail(credits))
    BY <1>0, <1>1, SumOfTail DEF InCredits
  <2>3. SumFunctionOnSet(Tail(credits), DOMAIN Tail(credits)) \in Nat
    BY <1>1, SumOfNatQueue
  <2> QED
    BY <1>0, <2>1, <2>3 DEF InCredits
<1>5. BudgetTypeOK'
  <2> HIDE DEF out, left, credit
  <2>1. backlog' \in Nat /\ window' \in Nat /\ unread' \in Nat /\ outstanding' \in Nat
    BY <1>0, <1>1, <1>2
  <2> QED
    BY <1>0, <1>1, <2>1 DEF BudgetTypeOK
<1>6. WindowIsConserved'
  <2>1. window + unread + held + InCredits = Window
    BY <1>0 DEF WindowIsConserved
  <2> DEFINE head == Head(credits)
  <2>2. head \in Nat /\ credit = window + head
    BY <1>1
  <2> HIDE DEF out, left, credit, head
  <2>3. InCredits = head + InCredits'
    BY <1>4 DEF head
  <2>4. window' + unread' + held + InCredits' = Window
    BY <1>0, <1>1, <1>2, <1>4, <2>1, <2>2, <2>3
  <2>5. backlog' > 0 => window' = 0
    BY <1>0, <1>1, <1>2
  <2> QED
    BY <1>0, <2>4, <2>5 DEF WindowIsConserved
<1>7. window' <= Window
  <2>1. window' \in Nat /\ unread' \in Nat /\ held \in Nat /\ InCredits' \in Nat
    BY <1>1, <1>4, <1>5 DEF BudgetTypeOK
  <2>2. window' + unread' + held + InCredits' = Window
    BY <1>0, <1>6 DEF WindowIsConserved
  <2> DEFINE w == window'
  <2> DEFINE u == unread'
  <2> DEFINE c == InCredits'
  <2>3. w \in Nat /\ u \in Nat /\ c \in Nat /\ held \in Nat /\ w + u + held + c = Window
    BY <2>1, <2>2
  <2> HIDE DEF w, u, c
  <2>4. w <= Window
    BY <2>3
  <2> QED
    BY <2>4 DEF w
<1>8. (left > 0 /\ outstanding' = 0 /\ backlog' = 0) \/ (window' = 0 /\ outstanding' = outstanding)
  <2> HIDE DEF out, credit
  <2> QED
    BY <1>0, <1>1, <1>2
<1> HIDE DEF left, out, credit
<1>9. CountIsRecent'
  <2>1. unrecorded \in Nat /\ InEvents \in Nat /\ Window + unrecorded <= Budget
    BY BudgetFacts, SizesAssumption
  <2> QED
    BY <1>0, <1>3, <1>5, <1>7, <1>8, <2>1, SizesAssumption DEF CountIsRecent, BudgetTypeOK
<1>10. CountIsAhead'
  <2> DEFINE m == Max(Sizes)
  <2> DEFINE q == EventBuffer * m
  <2> DEFINE p == PassSends * m
  <2> DEFINE r == sends * m
  <2>1. /\ q \in Nat /\ p \in Nat /\ r \in Nat /\ unrecorded \in Nat /\ InEvents \in Nat
        /\ InEvents <= q
    BY BudgetFacts, Zenon
  <2>2. /\ outstanding + unrecorded + r <= Budget + p /\ Budget \in Nat
        /\ InEvents + backlog <= outstanding + unrecorded + q
    BY <1>0, SizesAssumption DEF CountIsAhead
  <2>3. backlog' \in Nat /\ backlog' <= backlog
    BY <1>0, <1>1, <1>2
  <2> HIDE DEF m, p, q, r
  <2>4. outstanding' + unrecorded + r <= Budget + p
    BY <1>1, <1>8, <2>1, <2>2
  <2>5. InEvents + backlog' <= outstanding' + unrecorded + q
    BY <1>1, <1>8, <2>1, <2>2, <2>3
  <2> QED
    BY <1>0, <1>3, <2>4, <2>5 DEF CountIsAhead, m, p, q, r
<1> QED
  BY <1>5, <1>6, <1>9, <1>10 DEF BudgetInv

\* The invariant holds of every behaviour.
THEOREM BudgetInvariant == BudgetSpec => []BudgetInv
<1>1. BudgetInv /\ [BudgetNext]_budgetVars => BudgetInv'
  <2> SUFFICES ASSUME BudgetInv, [BudgetNext]_budgetVars PROVE BudgetInv'
    OBVIOUS
  <2>1. CASE BudgetNext
    BY <2>1, PassInv, SendInv, RecordSentInv, ForwardInv, ReadInv, WindowAdjustedInv DEF BudgetNext
  <2>2. CASE UNCHANGED budgetVars
    BY <2>2 DEF budgetVars, BudgetInv, BudgetTypeOK, WindowIsConserved, CountIsAhead, CountIsRecent,
       InEvents, InCredits
  <2> QED
    BY <2>1, <2>2
<1> QED
  BY BudgetInitInv, <1>1, PTL DEF BudgetSpec

\* For any budget above the window and the largest send, any event channel and any
\* reader: what russh holds for a client stays bounded although sends are counted late
\* and a credit may come between, and a paused client always owes a credit.
THEOREM BudgetAlwaysCounts == BudgetSpec => []BudgetCounts
<1>1. BudgetInv => BudgetCounts
  <2> SUFFICES ASSUME BudgetInv PROVE BudgetCounts
    OBVIOUS
  <2>0. BudgetTypeOK /\ WindowIsConserved /\ CountIsAhead /\ CountIsRecent
    BY DEF BudgetInv
  <2>1. Queued = InEvents + backlog
    BY DEF Queued, InEvents
  <2>2. BacklogIsBounded
    <3> DEFINE m == Max(Sizes)
    <3>1. \A a, b, c \in Nat : (a + b) * c = a * c + b * c
      OBVIOUS
    <3>2. m \in Nat /\ PassSends \in Nat /\ EventBuffer \in Nat
      BY BudgetFacts, SizesAssumption
    <3>3. /\ PassSends * m \in Nat /\ EventBuffer * m \in Nat /\ sends * m \in Nat
          /\ outstanding \in Nat /\ unrecorded \in Nat /\ InEvents \in Nat /\ backlog \in Nat
      BY <2>0, BudgetFacts DEF BudgetTypeOK
    <3>4. (PassSends + EventBuffer) * m = PassSends * m + EventBuffer * m
      BY <3>1, <3>2
    <3>5. /\ outstanding + unrecorded + sends * m <= Budget + PassSends * m
          /\ InEvents + backlog <= outstanding + unrecorded + EventBuffer * m
      BY <2>0 DEF CountIsAhead
    <3> HIDE DEF m
    <3>6. InEvents + backlog <= Budget + (PassSends * m + EventBuffer * m)
      BY <3>3, <3>5, SizesAssumption
    <3> QED
      BY <2>1, <3>4, <3>6 DEF BacklogIsBounded, m
  <2>3. PausedClientOwesCredit
    <3> SUFFICES ASSUME over_budget, ~(Queued > 0), ~(unread > 0), ~(credits # <<>>) PROVE FALSE
      BY DEF PausedClientOwesCredit
    <3>1. InCredits = 0
      BY SumOfEmptyQueue DEF InCredits
    <3>2. InEvents = 0 /\ backlog = 0 /\ unread = 0
      BY <2>0, <2>1, BudgetFacts DEF BudgetTypeOK
    <3>3. window > 0
      BY <2>0, <3>1, <3>2, SizesAssumption DEF WindowIsConserved, BudgetTypeOK
    <3> QED
      BY <2>0, <3>2, <3>3, BudgetFacts, SizesAssumption DEF CountIsRecent, over_budget, BudgetTypeOK
  <2> QED
    BY <2>2, <2>3 DEF BudgetCounts
<1> QED
  BY <1>1, BudgetInvariant, PTL

=============================================================================
