--------------------------- MODULE DurableRegister --------------------------
(***************************************************************************)
(* What the published result file promises, without temporary files, locks *)
(* or directory entries: publications take effect one after another, each  *)
(* in one step; a reader sees the last one; losing power may undo the last *)
(* ones, but none that a receipt was returned for and none before it.      *)
(***************************************************************************)
EXTENDS Naturals, Sequences

CONSTANT Value

VARIABLES
    log,        \* what took effect, in order; the last one is current
    receipted   \* how much of log cannot be lost any more

registerVars == <<log, receipted>>

RegisterInit == log = <<>> /\ receipted = 0

TakeEffect(v) == log' = Append(log, v) /\ receipted' = receipted

\* Receipts may be returned in another order than they took effect in.
Acknowledge ==
    /\ receipted' \in receipted .. Len(log)
    /\ log' = log

Undo ==
    /\ \E n \in receipted .. Len(log) : log' = [i \in 1 .. n |-> log[i]]
    /\ receipted' = receipted

RegisterNext == (\E v \in Value : TakeEffect(v)) \/ Acknowledge \/ Undo

RegisterSpec == RegisterInit /\ [][RegisterNext]_registerVars
=============================================================================
