----------------------------- MODULE OrderedPipe -----------------------------
(***************************************************************************)
(* What one direction of a chat connection promises, without saying how:   *)
(* what comes out is what went in, in order and with no gap, until the     *)
(* pipe closes, and after that nothing comes out.                          *)
(***************************************************************************)
EXTENDS Naturals, Sequences

CONSTANT Data

VARIABLES
    sent,       \* everything ever put into the pipe
    got,        \* everything that came out
    open

pipeVars == <<sent, got, open>>

Init == sent = <<>> /\ got = <<>> /\ open = TRUE

Put ==
    /\ \E m \in Data : sent' = Append(sent, m)
    /\ UNCHANGED <<got, open>>

Take ==
    /\ open
    /\ Len(got) < Len(sent)
    /\ got' = Append(got, sent[Len(got) + 1])
    /\ UNCHANGED <<sent, open>>

Close ==
    /\ open
    /\ open' = FALSE
    /\ UNCHANGED <<sent, got>>

Next == Put \/ Take \/ Close

Spec == Init /\ [][Next]_pipeVars
=============================================================================
