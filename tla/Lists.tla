---------------------------------- MODULE Lists ----------------------------------
(***************************************************************************)
(* Parts of a list, in the order of the list.                              *)
(***************************************************************************)
EXTENDS Naturals, Sequences

\* The elements of s at the positions in I, in their order, and the others.
Keep(s, I) == LET take[i \in 0..Len(s)] ==
                    IF i = 0 THEN <<>>
                    ELSE IF i \in I THEN Append(take[i - 1], s[i]) ELSE take[i - 1]
              IN take[Len(s)]
Without(s, I) == Keep(s, (1..Len(s)) \ I)
=============================================================================
