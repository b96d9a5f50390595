--------------------------- MODULE HeldStackProofs ---------------------------
(***************************************************************************)
(* What removing an entry from a held stack preserves.                     *)
(***************************************************************************)
EXTENDS HeldStack, TLAPS

\* Removing an entry leaves a stack of the same kind.
LEMMA RemoveHeldType ==
    ASSUME NEW A, NEW s \in Seq(A), NEW m
    PROVE  RemoveHeld(s, m) \in Seq(A)
<1>1. CASE s = << >>
  <2>1. RemoveHeld(s, m) \in [1..0 -> A]
    BY <1>1 DEF RemoveHeld
  <2> QED  BY <2>1
<1>2. CASE s # << >>
  <2>1. Len(s) - 1 \in Nat
    BY <1>2
  <2>2. \A j \in 1..(Len(s) - 1) : s[j] \in A /\ s[j + 1] \in A
    OBVIOUS
  <2>3. RemoveHeld(s, m) \in [1..(Len(s) - 1) -> A]
    BY <2>2 DEF RemoveHeld
  <2> QED  BY <2>1, <2>3
<1> QED  BY <1>1, <1>2

\* Entries that remain keep their order: what is below what stays below.
LEMMA RemoveHeldOrder ==
    ASSUME NEW A, NEW s \in Seq(A), NEW m,
           NEW i \in 1..Len(RemoveHeld(s, m)),
           NEW j \in 1..Len(RemoveHeld(s, m)), i < j
    PROVE  \E k, l \in 1..Len(s) : /\ k < l
                                   /\ RemoveHeld(s, m)[i] = s[k]
                                   /\ RemoveHeld(s, m)[j] = s[l]
<1> DEFINE r == RemoveHeld(s, m)
           Below(n) == \E k \in (n + 1)..Len(s) : s[k] = m
<1>1. r \in Seq(A) /\ DOMAIN r = 1..(Len(s) - 1)
  BY RemoveHeldType DEF RemoveHeld
<1>2. i \in 1..(Len(s) - 1) /\ j \in 1..(Len(s) - 1)
  BY <1>1
<1>3. /\ r[i] = IF Below(i) THEN s[i] ELSE s[i + 1]
      /\ r[j] = IF Below(j) THEN s[j] ELSE s[j + 1]
  BY <1>2 DEF RemoveHeld
<1>4. Below(j) => Below(i)
  BY <1>2
<1> DEFINE Old(n) == IF Below(n) THEN n ELSE n + 1
<1>5. Old(i) \in 1..Len(s) /\ Old(j) \in 1..Len(s)
  BY <1>2
<1>6. Old(i) < Old(j)
  BY <1>2, <1>4
<1>7. r[i] = s[Old(i)] /\ r[j] = s[Old(j)]
  BY <1>3
<1> HIDE DEF Old, r
<1> QED  BY <1>5, <1>6, <1>7 DEF r

=============================================================================
