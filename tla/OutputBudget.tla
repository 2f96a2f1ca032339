---------------------------- MODULE OutputBudget ----------------------------
(***************************************************************************)
(* OutputBudget (ssh.rs): the render loop stops feeding russh when more    *)
(* than OUTPUT_BUDGET_BYTES were handed over since the client last proved  *)
(* that nothing is queued.  The proof is a window adjustment russh reports *)
(* with a positive size.  Frames on their way are counted only after the   *)
(* handle took them, by another task than the one that resets the count.   *)
(*                                                                         *)
(* russh is external: bytes go from its event channel to the wire while    *)
(* the client's window has room, else to a pending buffer without a cap;   *)
(* a window adjustment flushes that buffer before the handler hears of it. *)
(* The client credits what it has read once it amounts to Threshold.       *)
(***************************************************************************)
EXTENDS Integers, Sequences, FiniteSetsExt, Functions

CONSTANTS
    Budget,       \* OUTPUT_BUDGET_BYTES
    Window,       \* the channel window the client opens with
    Threshold,    \* what a client reads before it returns credit
    Sizes,        \* sizes of frames and terminal commands
    PassSends,    \* most sends of one render pass
    EventBuffer,  \* event_buffer_size
    MaxBytes      \* bound: bytes rendered in a run

ASSUME SizesAssumption ==
    /\ Budget \in Nat /\ Window \in Nat \ {0} /\ Threshold \in 1 .. Window
    /\ Sizes \subseteq Nat \ {0} /\ Sizes # {}
    /\ PassSends \in Nat \ {0} /\ EventBuffer \in Nat \ {0} /\ MaxBytes \in Nat

\* "Must sit well above a normal SSH channel window plus a burst of full-repaint
\* frames."
ASSUME BudgetAssumption == \A size \in Sizes : Budget >= Window + size

VARIABLES
    outstanding,  \* OutputBudget::outstanding
    sends,        \* sends left in the running pass, 0 between passes
    unrecorded,   \* bytes the handle took and record_sent has not counted
    events,       \* russh's event channel
    backlog,      \* russh's pending buffer
    window,       \* credit left, as russh knows it
    unread,       \* bytes on the wire or unread by the client
    held,         \* bytes read and not yet credited
    credits,      \* window adjustments on their way back
    rendered,     \* bytes rendered so far
    stalled       \* stalled_since is set

budgetVars == <<outstanding, sends, unrecorded, events, backlog, window, unread, held, credits, rendered,
          stalled>>

client == <<unread, held, credits>>
russh == <<events, backlog, window>>

BudgetInit ==
    /\ outstanding = 0 /\ sends = 0 /\ unrecorded = 0
    /\ events = <<>> /\ backlog = 0 /\ window = Window
    /\ unread = 0 /\ held = 0 /\ credits = <<>>
    /\ rendered = 0 /\ stalled = FALSE

over_budget == outstanding > Budget

\* The guard before render_once: a pass, or a pause until it clears.
BeginPass ==
    /\ sends = 0 /\ unrecorded = 0 /\ ~over_budget
    /\ sends' = PassSends
    /\ stalled' = FALSE
    /\ UNCHANGED <<outstanding, unrecorded, russh, client, rendered>>

StayPaused ==
    /\ sends = 0 /\ unrecorded = 0 /\ over_budget
    /\ stalled' = TRUE
    /\ UNCHANGED <<outstanding, sends, unrecorded, russh, client, rendered>>

\* handle.data takes a frame or a command.
Send(size) ==
    /\ sends > 0 /\ unrecorded = 0 /\ Len(events) < EventBuffer
    /\ rendered + size <= MaxBytes
    /\ sends' = sends - 1
    /\ unrecorded' = size
    /\ events' = Append(events, size)
    /\ rendered' = rendered + size
    /\ UNCHANGED <<outstanding, backlog, window, client, stalled>>

\* The pass has no more to send, or a send timed out.
EndSends ==
    /\ sends > 0 /\ unrecorded = 0
    /\ sends' = 0
    /\ UNCHANGED <<outstanding, unrecorded, russh, client, rendered, stalled>>

\* record_sent, after the await.
RecordSent ==
    /\ unrecorded > 0 /\ unrecorded' = 0
    /\ outstanding' = outstanding + unrecorded
    /\ UNCHANGED <<sends, russh, client, rendered, stalled>>

\* russh takes an event: what the window allows goes out, unless bytes wait.
Forward ==
    /\ events # <<>> /\ events' = Tail(events)
    /\ LET out == IF backlog > 0 THEN 0 ELSE Min({Head(events), window})
       IN  /\ backlog' = backlog + Head(events) - out
           /\ window' = window - out
           /\ unread' = unread + out
    /\ UNCHANGED <<outstanding, sends, unrecorded, held, credits, rendered, stalled>>

\* The client reads, and credits what it has read when it is enough.
Read ==
    /\ unread > 0 /\ unread' = unread - 1
    /\ IF held + 1 >= Threshold
       THEN held' = 0 /\ credits' = Append(credits, held + 1)
       ELSE held' = held + 1 /\ UNCHANGED credits
    /\ UNCHANGED <<outstanding, sends, unrecorded, russh, rendered, stalled>>

\* Mutant: any credit counts as proof of an empty queue.
ResetOnAnyCredit(new_size) == outstanding' = 0

\* Mutant: a positive size only takes the credit off.
ResetByCredit(new_size) == outstanding' = IF new_size > outstanding THEN 0 ELSE outstanding - new_size

\* on_window_adjusted.
on_window_adjusted(new_size) == outstanding' = IF new_size > 0 THEN 0 ELSE outstanding

\* russh takes a credit, flushes its pending buffer, and then tells the handler
\* the window that is left, zero while anything is still pending.
WindowAdjusted ==
    /\ credits # <<>> /\ credits' = Tail(credits)
    /\ LET credit == window + Head(credits)
           out == Min({backlog, credit})
       IN  /\ backlog' = backlog - out
           /\ window' = credit - out
           /\ unread' = unread + out
           /\ on_window_adjusted(IF backlog > out THEN 0 ELSE credit - out)
    /\ UNCHANGED <<sends, unrecorded, events, held, rendered, stalled>>

BudgetNext ==
    \/ BeginPass \/ StayPaused \/ (\E size \in Sizes : Send(size)) \/ EndSends \/ RecordSent
    \/ Forward \/ Read \/ WindowAdjusted

BudgetSpec == BudgetInit /\ [][BudgetNext]_budgetVars

-----------------------------------------------------------------------------
(* Properties *)

Queued == SumFunctionOnSet(events, DOMAIN events) + backlog

\* Memory: what russh really holds for a client that stopped reading is bounded,
\* although the count starts after the bytes are gone and a reset forgets the
\* frames still in the event channel: the budget, one pass, and one event
\* channel of frames.
BacklogIsBounded ==
    Queued <= Budget + (PassSends + EventBuffer) * Max(Sizes)

\* A session is over budget only while its client owes something: bytes are
\* queued or unread, or a credit is on its way.  With no more than uncredited bytes
\* below its threshold no adjustment would ever come, and a healthy client would
\* be paused and then disconnected.
PausedClientOwesCredit ==
    over_budget => Queued > 0 \/ unread > 0 \/ credits # <<>>

\* The count errs on neither side: memory is bounded, and a pause has a reason
\* that can go away.
BudgetCounts == BacklogIsBounded /\ PausedClientOwesCredit

\* A client that keeps reading is never paused for good.
PauseEnds == stalled ~> ~stalled

=============================================================================
