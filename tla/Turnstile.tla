------------------------------- MODULE Turnstile -------------------------------
(***************************************************************************)
(* What the status tracker promises the callers of one switch: operations  *)
(* are served one at a time, in the order in which they lined up, and the  *)
(* switch is shown as busy exactly while an operation is being served.     *)
(* SwitchGate is the mechanism of status.rs that implements this.          *)
(***************************************************************************)
EXTENDS Sequences, Naturals

CONSTANTS Ops,    \* the operations that may want the switch
          NoOp    \* nobody

VARIABLES line,      \* the operations in line, first come first
          serving,   \* the operation being served, or NoOp
          busy       \* what GET /status shows

vars == <<line, serving, busy>>

InLine(o) == \E i \in 1..Len(line) : line[i] = o

\* The line without its i-th member.
Without(s, i) == SubSeq(s, 1, i - 1) \o SubSeq(s, i + 1, Len(s))

Init == /\ line = <<>>
        /\ serving = NoOp
        /\ busy = FALSE

\* An operation goes to the end of the line, and only once.
Join(o) == /\ o # serving
           /\ ~InLine(o)
           /\ line' = Append(line, o)
           /\ UNCHANGED <<serving, busy>>

\* An operation gives up waiting, wherever it stands.
Leave(o) == /\ \E i \in 1..Len(line) : line[i] = o /\ line' = Without(line, i)
            /\ UNCHANGED <<serving, busy>>

\* The operation at the head of the line is served next.
Serve(o) == /\ serving = NoOp
            /\ line # <<>>
            /\ o = Head(line)
            /\ line' = Tail(line)
            /\ serving' = o
            /\ busy' = TRUE

\* An operation that does not want to wait is served at once, if nobody is
\* being served and nobody waits.
Enter(o) == /\ serving = NoOp
            /\ line = <<>>
            /\ serving' = o
            /\ busy' = TRUE
            /\ UNCHANGED line

Finish(o) == /\ serving = o
             /\ serving' = NoOp
             /\ busy' = FALSE
             /\ UNCHANGED line

Next == \E o \in Ops : Join(o) \/ Leave(o) \/ Serve(o) \/ Enter(o) \/ Finish(o)

Spec == Init /\ [][Next]_vars
================================================================================
