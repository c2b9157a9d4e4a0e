---------------------------- MODULE RegularRead ----------------------------
(***************************************************************************)
(* What a reader of chain state is promised (consensus.rs: "return the     *)
(* consensus value"): a value that was current at some time during the     *)
(* call, or an error.  The chain is a height that grows.                   *)
(***************************************************************************)
EXTENDS Integers

CONSTANTS Queries, MaxHeight

VARIABLES height,
          read       \* whether a call is under way, since which height, and its result

vars == <<height, read>>

Failed == -1

Init ==
    /\ height = 0
    /\ read = [q \in Queries |-> [reading |-> FALSE, from |-> 0, value |-> Failed]]

Advance ==
    /\ height < MaxHeight
    /\ height' = height + 1
    /\ UNCHANGED read

Call(q) ==
    /\ ~read[q].reading
    /\ read' = [read EXCEPT ![q] = [reading |-> TRUE, from |-> height, value |-> Failed]]
    /\ UNCHANGED height

Return(q) ==
    /\ read[q].reading
    /\ \E v \in read[q].from..height :
        read' = [read EXCEPT ![q] = [reading |-> FALSE, from |-> read[q].from, value |-> v]]
    /\ UNCHANGED height

Fail(q) ==
    /\ \E from \in {read[q].from, height} :
        read' = [read EXCEPT ![q] = [reading |-> FALSE, from |-> from, value |-> Failed]]
    /\ UNCHANGED height

Next == Advance \/ \E q \in Queries : Call(q) \/ Return(q) \/ Fail(q)

Spec == Init /\ [][Next]_vars
============================================================================
