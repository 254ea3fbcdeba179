---------------------------- MODULE PriorityLine ----------------------------
(***************************************************************************)
(* What the job queue promises: its callers see one line.  A job joins it  *)
(* behind everyone of its own or a higher priority, unless it is in line   *)
(* already; the head is served first; an empty line serves nobody.         *)
(***************************************************************************)
EXTENDS Integers, Sequences

CONSTANTS Jobs, Priorities, None

VARIABLES
    line,       \* sequence of <<job, priority>>, head first
    popped      \* what the last Pop returned; None is redis.Nil

lvars == <<line, popped>>

InLine(j) == \E i \in DOMAIN line : line[i][1] = j

LInit == line = <<>> /\ popped = None

Join(j, p) ==
    /\ ~ InLine(j)
    /\ \E n \in 0 .. Len(line) :
         /\ \A i \in DOMAIN line : line[i][2] >= p <=> i <= n
         /\ line' = SubSeq(line, 1, n) \o << <<j, p>> >> \o SubSeq(line, n + 1, Len(line))
    /\ UNCHANGED popped

Serve ==
    /\ line # <<>>
    /\ popped' = Head(line)[1]
    /\ line' = Tail(line)

ServeNobody ==
    /\ line = <<>>
    /\ popped' = None
    /\ UNCHANGED line

LoseLine ==
    /\ line' = <<>>
    /\ UNCHANGED popped

LNext ==
    \/ \E j \in Jobs, p \in Priorities : Join(j, p)
    \/ Serve
    \/ ServeNobody
    \/ LoseLine

LSpec == LInit /\ [][LNext]_lvars
=============================================================================
