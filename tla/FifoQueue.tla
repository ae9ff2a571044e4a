------------------------------ MODULE FifoQueue ------------------------------
(***************************************************************************)
(* The erase-remove idiom the allocator applies to its deque of frames.    *)
(* The result is stated by ranks, with no recursion, so that what it keeps *)
(* and in which order can be proved (FifoQueue_proofs).                    *)
(***************************************************************************)
EXTENDS Integers, Sequences, FiniteSets, Functions

(* A faulty form of IsFirstOutside: the order is forgotten.                *)
IsSomeOutside(s, S, f) == f \in Range(s) \ S

(* The positions of s that survive when the elements of S are erased.      *)
Kept(s, S) == {i \in DOMAIN s : s[i] \notin S}

(* How many positions of I are at or below i: the place of i in the result *)
Rank(I, i) == Cardinality({j \in I : j <= i})

(* s with every element of S erased, the others in their order:            *)
(* s.erase(std::remove(s.begin(), s.end(), e), s.end()) for each e of S.   *)
Without(s, S) ==
  LET K == Kept(s, S)
  IN  [n \in 1 .. Cardinality(K) |-> s[CHOOSE i \in K : Rank(K, i) = n]]

(* The first element of s outside S, if there is one, is f.                *)
IsFirstOutside(s, S, f) ==
  \E i \in DOMAIN s : /\ s[i] = f
                      /\ f \notin S
                      /\ \A j \in 1 .. i - 1 : s[j] \in S

(* a stands before b in q.                                                 *)
IsBefore(q, a, b) == \E i, j \in DOMAIN q : i < j /\ q[i] = a /\ q[j] = b
==============================================================================
