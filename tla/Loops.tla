--------------------------------- MODULE Loops ---------------------------------
(***************************************************************************)
(* What loops of the worker compute over a sequence: the elements that a   *)
(* loop keeps, in their order, and a running total.                        *)
(***************************************************************************)
EXTENDS Integers, Sequences

(* The elements at some positions, in the order of the sequence            *)
Selected(s, S) ==
    LET kept[k \in 0..Len(s)] ==
            IF k = 0 THEN <<>>
            ELSE IF k \in S THEN Append(kept[k - 1], s[k]) ELSE kept[k - 1]
    IN  kept[Len(s)]

(* The sum of Op over the elements of a sequence                           *)
Total(Op(_), s) ==
    LET sum[k \in 0..Len(s)] == IF k = 0 THEN 0 ELSE sum[k - 1] + Op(s[k])
    IN  sum[Len(s)]
================================================================================
