------------------------------ MODULE Induction ------------------------------
(***************************************************************************)
(* What the proofs about loops and counters rest on.  Their lemmas assume  *)
(* InductionBasis, and the modules of proofs show it from the theorems of  *)
(* the library at their end: with the library before them the provers take *)
(* several times as long for every step.                                   *)
(***************************************************************************)
EXTENDS Integers, FiniteSets

\* Every nonempty set of natural numbers has a least element.
LeastElement == \A T \in SUBSET Nat : T # {} => \E x \in T : \A y \in T : x <= y

OneToOne(f, S, T) == (\A x, y \in S : f[x] = f[y] => x = y) /\ (\A y \in T : \E x \in S : f[x] = y)

\* The sizes of intervals, and of finite sets and their parts.
FiniteSizes ==
    /\ IsFiniteSet({}) /\ Cardinality({}) = 0
    /\ \A a, b \in Int : IsFiniteSet(a .. b) /\ Cardinality(a .. b) = IF a > b THEN 0 ELSE b - a + 1
    /\ \A S : IsFiniteSet(S) =>
          /\ Cardinality(S) \in Nat
          /\ \E f \in [1 .. Cardinality(S) -> S] : OneToOne(f, 1 .. Cardinality(S), S)
          /\ \A T \in SUBSET S : /\ IsFiniteSet(T) /\ Cardinality(T) <= Cardinality(S)
                                 /\ Cardinality(T) = Cardinality(S) => T = S
          /\ \A x : x \notin S => IsFiniteSet(S \cup {x}) /\ Cardinality(S \cup {x}) = Cardinality(S) + 1
          /\ \A T : \A f \in [S -> T] :
                OneToOne(f, S, T) => IsFiniteSet(T) /\ Cardinality(T) = Cardinality(S)

InductionBasis == LeastElement /\ FiniteSizes

\* The functions on 0 .. n that begin with init and go on, at i, with what G[i] makes of
\* the value before: what a loop computes.
Runs(S, init, n, G) ==
    {f \in [0 .. n -> S] : f[0] = init /\ \A i \in 1 .. n : f[i] = G[i][f[i - 1]]}
=============================================================================
