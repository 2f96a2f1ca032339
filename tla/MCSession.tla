----------------------------- MODULE MCSession -----------------------------
(***************************************************************************)
(* The three machines of one session's output: the render loop, its byte   *)
(* budget and its latency probe.  RenderLoop already lets any pass find    *)
(* the budget spent, and no module writes another's variables, so a        *)
(* behaviour moves one of them and leaves the others in their initial      *)
(* state: their interleavings would reach no further state of any.         *)
(***************************************************************************)
EXTENDS RenderLoop, OutputBudget, TerminalProbe

VARIABLE part    \* the machine that moves in this behaviour

Init == part \in {"loop", "budget", "probe"} /\ RenderInit /\ BudgetInit /\ ProbeInit

Next ==
    /\ UNCHANGED part
    /\ \/ part = "loop" /\ RenderNext /\ UNCHANGED <<budgetVars, probeVars>>
       \/ part = "budget" /\ BudgetNext /\ UNCHANGED <<renderVars, probeVars>>
       \/ part = "probe" /\ ProbeNext /\ UNCHANGED <<renderVars, budgetVars>>

Loop(A) == part = "loop" /\ A
Output(A) == part = "budget" /\ A

\* Every deadline comes and a task that can run does; the client keeps reading.
Fairness ==
    /\ WF_renderVars(Loop(AdvanceWorld)) /\ WF_renderVars(Loop(Render))
    /\ WF_renderVars(Loop(MarkDirty \/ NotifyOne)) /\ WF_renderVars(Loop(DoorMark \/ DoorNotify))
    /\ WF_budgetVars(Output(RecordSent)) /\ WF_budgetVars(Output(EndSends)) /\ WF_budgetVars(Output(BeginPass))
    /\ WF_budgetVars(Output(Forward)) /\ WF_budgetVars(Output(Read)) /\ WF_budgetVars(Output(WindowAdjusted))

Spec == Init /\ [][Next]_<<part, renderVars, budgetVars, probeVars>> /\ Fairness
=============================================================================
