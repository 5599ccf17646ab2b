------------------------------- MODULE Lists --------------------------------
(***************************************************************************)
(* What a query does with rows that are ranked: WHERE, and LIMIT.          *)
(***************************************************************************)
EXTENDS Integers, Sequences

\* LIMIT n
First(n, s) == SubSeq(s, 1, IF Len(s) < n THEN Len(s) ELSE n)

\* WHERE: the members of S in the order of s.
Among(S, s) ==
    LET kept[i \in 0 .. Len(s)] ==
            IF i = 0 THEN <<>>
            ELSE IF s[i] \in S THEN Append(kept[i - 1], s[i]) ELSE kept[i - 1]
    IN  kept[Len(s)]
=============================================================================
