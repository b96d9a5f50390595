------------------------------ MODULE HeldStack ------------------------------
(***************************************************************************)
(* The thread-local stack of held lock slots (state.c): pushed at its end, *)
(* removed from anywhere, for mutexes may be unlocked in any order.        *)
(***************************************************************************)
EXTENDS Integers, Sequences

Lists(s, m) == \E i \in 1..Len(s) : s[i] = m

\* Mutant: the top entry is popped whatever it is.
PopHeld(s, m) == SubSeq(s, 1, Len(s) - 1)

\* Removal of the topmost entry equal to m: the entries below it stay, those
\* above it shift down.
RemoveHeld(s, m) ==
    [j \in 1..(Len(s) - 1) |->
        IF \E i \in (j + 1)..Len(s) : s[i] = m THEN s[j] ELSE s[j + 1]]

=============================================================================
