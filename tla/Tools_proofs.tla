---------------------------- MODULE Tools_proofs ----------------------------
(***************************************************************************)
(* Proofs about Validator and Tools: what run_query's validator passes and *)
(* refuses, for any syntax tree; how rows are cut, for any limit; and that *)
(* the typed tools refuse what they should and answer what was asked, for  *)
(* any request and any tables.  A behaviour is one call, so each invariant *)
(* is a fact about the operators carried over one step.                    *)
(*                                                                         *)
(* Flattened sequences, matches of a pattern and rows put out one by one   *)
(* are recursive functions.  Facts about them are proved by induction over *)
(* the set of the numbers they hold of (Induction), which needs no more    *)
(* than that a set of numbers has a least one; that the functions exist at *)
(* all is a fact of the same kind (Recursion).                             *)
(***************************************************************************)
EXTENDS Tools, TLAPS, SequenceTheorems, FiniteSetTheorems, WellFoundedInduction

-----------------------------------------------------------------------------
(* Induction, with a set of numbers for the predicate, and the recursive     *)
(* functions it gives.                                                       *)

LEMMA LeastNumber ==
  ASSUME NEW S \in SUBSET Nat, S # {}
  PROVE \E n \in S : \A m \in S : n <= m
<1> DEFINE R == OpToRel(<, Nat)
<1>1. IsWellFoundedOn(R, Nat)
  BY NatLessThanWellFounded
<1>2. \A m, n \in Nat : m < n => <<m, n>> \in R
  BY DEF OpToRel
<1> HIDE DEF R
<1>3. PICK n \in S : \A m \in S : ~ (<<m, n>> \in R)
  BY <1>1, WFMin
<1>4. \A m \in S : ~ (m < n)
  BY <1>2, <1>3, Zenon
<1> QED
  BY <1>4

LEMMA Induction ==
  ASSUME NEW n \in Nat, NEW S, 0 \in S, \A k \in 1..n : k - 1 \in S => k \in S
  PROVE 0..n \subseteq S
<1> SUFFICES ASSUME (0..n) \ S # {} PROVE FALSE
  OBVIOUS
<1> DEFINE Missing == (0..n) \ S
<1>a. Missing \in SUBSET Nat /\ Missing # {}
  OBVIOUS
<1> HIDE DEF Missing
<1>b. PICK k \in Missing : \A m \in Missing : k <= m
  BY <1>a, LeastNumber
<1>1. k \in (0..n) \ S /\ \A m \in (0..n) \ S : k <= m
  BY <1>b DEF Missing
<1>2. k \in 1..n
  BY <1>1
<1>3. k - 1 \in S
  BY <1>1, <1>2
<1> QED
  BY <1>1, <1>2, <1>3

Steps(V, n) == [1..n -> [V -> V]]
Iterations(V, first, n, step) ==
  {f \in [0..n -> V] : f[0] = first /\ \A k \in 1..n : f[k] = step[k][f[k - 1]]}

(* There is a function each of whose values follows from the one before. *)
LEMMA Recursion ==
  ASSUME NEW V, NEW first \in V, NEW n \in Nat, NEW step \in Steps(V, n)
  PROVE \E f \in Iterations(V, first, n, step) : TRUE
<1> USE DEF Steps, Iterations
<1> DEFINE Upto(m, f) == f[0] = first /\ \A k \in 1..m : f[k] = step[k][f[k - 1]]
           S == {m \in 0..n : \E f \in [0..m -> V] : Upto(m, f)}
<1>1. 0 \in S
  <2>1. [i \in 0..0 |-> first] \in [0..0 -> V] /\ Upto(0, [i \in 0..0 |-> first])
    OBVIOUS
  <2> HIDE DEF Upto
  <2>2. \E f \in [0..0 -> V] : Upto(0, f)
    BY <2>1
  <2> QED
    BY <2>2
<1>2. ASSUME NEW m \in 1..n, m - 1 \in S PROVE m \in S
  <2>1. PICK f \in [0..(m - 1) -> V] : Upto(m - 1, f)
    BY <1>2
  <2> DEFINE g == [i \in 0..m |-> IF i = m THEN step[m][f[m - 1]] ELSE f[i]]
  <2>2. step[m][f[m - 1]] \in V
    BY <2>1
  <2>3. g \in [0..m -> V]
    BY <2>2
  <2>4. g[0] = first
    BY <2>1
  <2>5. \A k \in 1..(m - 1) : g[k] = f[k] /\ g[k - 1] = f[k - 1]
    OBVIOUS
  <2>6. g[m] = step[m][g[m - 1]]
    OBVIOUS
  <2>7. Upto(m, g)
    BY <2>1, <2>4, <2>5, <2>6
  <2> HIDE DEF g, Upto
  <2>8. \E f1 \in [0..m -> V] : Upto(m, f1)
    BY <2>3, <2>7
  <2> QED
    BY <2>8
<1> HIDE DEF S
<1>3. 0..n \subseteq S
  BY <1>1, <1>2, Induction
<1>4. n \in S
  BY <1>3
<1> QED
  BY <1>4 DEF S

-----------------------------------------------------------------------------
(* Flattening. *)

(* What the first k of some sequences make, one after another. *)
Runs(T, seqs) ==
  {run \in [0..Len(seqs) -> Seq(T)] :
     run[0] = <<>> /\ \A k \in 1..Len(seqs) : run[k] = run[k - 1] \o seqs[k]}

LEMMA FlattenedRun ==
  ASSUME NEW T, NEW seqs \in Seq(Seq(T))
  PROVE \E run \in Runs(T, seqs) : TRUE
<1> DEFINE n == Len(seqs)
           step == [k \in 1..n |-> [s \in Seq(T) |-> s \o seqs[k]]]
<1>1. step \in [1..n -> [Seq(T) -> Seq(T)]]
  OBVIOUS
<1>2. <<>> \in Seq(T) /\ n \in Nat
  OBVIOUS
<1>3. \A s \in Seq(T), k \in 1..n : step[k][s] = s \o seqs[k]
  OBVIOUS
<1> HIDE DEF step
<1> DEFINE V == Seq(T)
           empty == <<>>
<1> HIDE DEF V, empty
<1>a. step \in Steps(V, n) /\ empty \in V /\ n \in Nat
  BY <1>1, <1>2 DEF V, empty, Steps
<1> HIDE DEF n
<1>b. PICK run \in Iterations(V, empty, n, step) : TRUE
  BY <1>a, Recursion, Zenon
<1>4. run[0] = <<>> /\ \A k \in 1..n : run[k] = step[k][run[k - 1]]
  BY DEF Iterations, empty
<1>5. run \in [0..n -> V] /\ \A k \in 1..n : run[k - 1] \in V
  BY <1>a DEF Iterations
<1>6. run \in [0..n -> Seq(T)] /\ \A k \in 1..n : run[k - 1] \in Seq(T)
  BY <1>5 DEF V
<1>7. \A k \in 1..n : run[k] = run[k - 1] \o seqs[k]
  BY <1>3, <1>4, <1>6, Zenon
<1> QED
  BY <1>4, <1>6, <1>7, Zenon DEF Runs, n

LEMMA FlattenIsLast ==
  ASSUME NEW T, NEW seqs \in Seq(Seq(T)), NEW run \in Runs(T, seqs)
  PROVE FlattenSeq(seqs) = run[Len(seqs)]
<1> DEFINE n == Len(seqs)
           F(g) == [i \in 1..n |-> IF i = 1 THEN seqs[i] ELSE g[i - 1] \o seqs[i]]
           flatten == CHOOSE g : g = F(g)
           h == [i \in 1..n |-> run[i]]
<1>1. CASE n = 0
  BY <1>1 DEF FlattenSeq, Runs
<1>2. CASE n # 0
  <2>1. n \in Nat \ {0}
    BY <1>2
  <2>0. 1 \in 1..n /\ \A i \in 1..n : seqs[i] \in Seq(T)
    BY <2>1
  <2>2. run[1] = seqs[1]
    <3>1. run[1] = run[1 - 1] \o seqs[1]
      BY <2>0 DEF Runs
    <3>2. run[1 - 1] = <<>>
      BY DEF Runs
    <3> QED
      BY <2>0, <3>1, <3>2
  <2>3. ASSUME NEW i \in 1..n PROVE h[i] = F(h)[i]
    <3>1. CASE i = 1
      BY <2>2, <3>1
    <3>2. CASE i # 1
      <4>1. i - 1 \in 1..n /\ h[i - 1] = run[i - 1]
        BY <2>1, <3>2
      <4>2. run[i] = run[i - 1] \o seqs[i]
        BY DEF Runs
      <4> QED
        BY <3>2, <4>1, <4>2
    <3> QED
      BY <3>1, <3>2
  <2>4. h = F(h)
    BY <2>3
  <2> HIDE DEF h
  <2>5. flatten = F(flatten)
    BY <2>4, Zenon
  <2>6. FlattenSeq(seqs) = flatten[n]
    BY <1>2, Zenon DEF FlattenSeq
  <2> HIDE DEF flatten
  <2> DEFINE S == {k \in 0..n : k = 0 \/ flatten[k] = run[k]}
  <2>7. 0 \in S
    BY <2>1
  <2>8. ASSUME NEW k \in 1..n, k - 1 \in S PROVE k \in S
    <3>1. CASE k = 1
      BY <2>2, <2>5, <3>1
    <3>2. CASE k # 1
      <4>1. flatten[k - 1] = run[k - 1]
        BY <2>8, <3>2
      <4>2. flatten[k] = flatten[k - 1] \o seqs[k]
        BY <2>5, <3>2
      <4>3. run[k] = run[k - 1] \o seqs[k]
        BY DEF Runs
      <4>4. flatten[k] = run[k]
        BY <4>1, <4>2, <4>3, Zenon
      <4> QED
        BY <4>4
    <3> QED
      BY <3>1, <3>2
  <2> HIDE DEF S
  <2>9. 0..n \subseteq S
    BY <2>1, <2>7, <2>8, Induction
  <2>10. n \in S
    BY <2>1, <2>9
  <2> QED
    BY <2>1, <2>6, <2>10 DEF S
<1> QED
  BY <1>1, <1>2

LEMMA RunStep ==
  ASSUME NEW T, NEW seqs \in Seq(Seq(T)), NEW run \in Runs(T, seqs), NEW k \in 1..Len(seqs)
  PROVE /\ run[k] = run[k - 1] \o seqs[k]
        /\ run[k - 1] \in Seq(T) /\ seqs[k] \in Seq(T) /\ run[k] \in Seq(T)
<1>1. k - 1 \in 0..Len(seqs) /\ k \in 0..Len(seqs) /\ run \in [0..Len(seqs) -> Seq(T)]
  BY DEF Runs
<1>2. run[k] = run[k - 1] \o seqs[k]
  BY DEF Runs
<1>3. run[k - 1] \in Seq(T) /\ run[k] \in Seq(T)
  BY <1>1
<1>4. seqs[k] \in Seq(T)
  OBVIOUS
<1> QED
  BY <1>2, <1>3, <1>4, Zenon

(* The first of the sequences make what they make on the way to all. *)
LEMMA FlattenOfFirst ==
  ASSUME NEW T, NEW seqs \in Seq(Seq(T)), NEW run \in Runs(T, seqs), NEW m \in 0..Len(seqs)
  PROVE FlattenSeq([k \in 1..m |-> seqs[k]]) = run[m]
<1> DEFINE some == [k \in 1..m |-> seqs[k]]
           start == [k \in 0..m |-> run[k]]
<1>1. some \in Seq(Seq(T)) /\ Len(some) = m
  OBVIOUS
<1>2. start \in [0..m -> Seq(T)]
  BY SMTT(30) DEF Runs
<1>3. start \in Runs(T, some)
  <2>1. start[0] = <<>>
    BY DEF Runs
  <2>2. ASSUME NEW k \in 1..m PROVE start[k] = start[k - 1] \o some[k]
    <3>1. start[k] = run[k] /\ start[k - 1] = run[k - 1] /\ some[k] = seqs[k]
      OBVIOUS
    <3>0. k \in 1..Len(seqs)
      OBVIOUS
    <3>2. run[k] = run[k - 1] \o seqs[k]
      BY <3>0, RunStep, Zenon
    <3> QED
      BY <3>1, <3>2
  <2> HIDE DEF some, start
  <2> QED
    BY <1>1, <1>2, <2>1, <2>2 DEF Runs
<1> HIDE DEF some, start
<1>4. FlattenSeq(some) = start[m]
  BY <1>1, <1>3, FlattenIsLast
<1> QED
  BY <1>4 DEF some, start

IsPiece(s, before, piece) ==
  before + Len(piece) <= Len(s) /\ \A j \in 1..Len(piece) : s[before + j] = piece[j]

(* Each sequence is found in the flattened one, after those before it. *)
LEMMA PiecesInRun ==
  ASSUME NEW T, NEW seqs \in Seq(Seq(T)), NEW run \in Runs(T, seqs), NEW i \in 1..Len(seqs)
  PROVE /\ Len(run[i]) = Len(run[i - 1]) + Len(seqs[i])
        /\ IsPiece(run[Len(seqs)], Len(run[i - 1]), seqs[i])
<1> DEFINE n == Len(seqs)
           before == Len(run[i - 1])
           piece == seqs[i]
           Has(s) == IsPiece(s, before, piece)
           S == {k \in 0..n : k < i \/ Has(run[k])}
<1>1. n \in Nat /\ run[i - 1] \in Seq(T) /\ piece \in Seq(T) /\ run[i] = run[i - 1] \o piece
  <2>1. n \in Nat
    OBVIOUS
  <2> QED
    BY <2>1, RunStep, Zenon
<1>2. Has(run[i]) /\ Len(run[i]) = before + Len(piece)
  <2> HIDE DEF piece
  <2> QED
    BY <1>1 DEF IsPiece
<1>3. \A s, t \in Seq(T) : Has(s) => Has(s \o t)
  <2> HIDE DEF piece, before
  <2>1. before \in Nat /\ Len(piece) \in Nat
    BY <1>1 DEF before
  <2> QED
    BY <2>1 DEF IsPiece
<1> HIDE DEF Has
<1>4. 0 \in S
  BY <1>1
<1>5. ASSUME NEW k \in 1..n, k - 1 \in S PROVE k \in S
  <2>1. CASE k < i
    BY <2>1
  <2>2. CASE k = i
    BY <1>2, <2>2
  <2>3. CASE k > i
    <3>1. Has(run[k - 1])
      BY <1>5, <2>3
    <3>0. k \in 1..Len(seqs)
      OBVIOUS
    <3>2. run[k] = run[k - 1] \o seqs[k] /\ run[k - 1] \in Seq(T) /\ seqs[k] \in Seq(T)
      BY <3>0, RunStep, Zenon
    <3>3. Has(run[k])
      BY <1>3, <3>1, <3>2
    <3> QED
      BY <3>3
  <2> QED
    BY <2>1, <2>2, <2>3
<1> HIDE DEF S
<1>6. 0..n \subseteq S
  BY <1>1, <1>4, <1>5, Induction
<1>7. Has(run[n])
  <2>1. n \in S /\ ~ (n < i)
    BY <1>1, <1>6, SMTT(30)
  <2> QED
    BY <2>1 DEF S
<1> QED
  BY <1>2, <1>7, Zenon DEF Has

-----------------------------------------------------------------------------
(* Patterns. *)

Matches(s) == [escaped : BOOLEAN, at : SUBSET (1..(Len(s) + 1))]
Start == [escaped |-> FALSE, at |-> {1}]

IsLetter(match, c) == match.escaped \/ c \notin {"%", "_", "\\"}
OverLetter(s, at, c) == {i + 1 : i \in {n \in at : n <= Len(s) /\ Lower(s[n]) = Lower(c)}}

(* A letter, or what is escaped, takes a match over the same letter. *)
LEMMA NextLetter ==
  ASSUME NEW s, NEW match, NEW c, IsLetter(match, c)
  PROVE Matched(s, match, c) = [escaped |-> FALSE, at |-> OverLetter(s, match.at, c)]
BY DEF Matched, IsLetter, OverLetter

(* A percent sign takes it anywhere further on. *)
LEMMA NextAny ==
  ASSUME NEW s, NEW match, NEW c, ~ match.escaped, c = "%"
  PROVE Matched(s, match, c) = [match EXCEPT !.at = {i \in 1..(Len(s) + 1) : \E n \in match.at : n <= i}]
BY DEF Matched

(* An underscore takes it over one character. *)
LEMMA NextOne ==
  ASSUME NEW s, NEW match, NEW c, ~ match.escaped, c = "_"
  PROVE Matched(s, match, c) = [match EXCEPT !.at = {i + 1 : i \in match.at \ {Len(s) + 1}}]
BY DEF Matched

(* A backslash leaves it, and the next character is taken as it is. *)
LEMMA NextEscape ==
  ASSUME NEW s, NEW match, NEW c, ~ match.escaped, c = "\\"
  PROVE Matched(s, match, c) = [match EXCEPT !.escaped = TRUE]
BY DEF Matched

LEMMA MatchedType ==
  ASSUME NEW s, Len(s) \in Nat, NEW match \in Matches(s), NEW c
  PROVE Matched(s, match, c) \in Matches(s)
<1>1. match.at \subseteq 1..(Len(s) + 1) /\ match.escaped \in BOOLEAN
  BY DEF Matches
<1>2. CASE IsLetter(match, c)
  <2> DEFINE at == OverLetter(s, match.at, c)
  <2>1. at \in SUBSET (1..(Len(s) + 1))
    BY <1>1 DEF OverLetter
  <2>2. Matched(s, match, c) = [escaped |-> FALSE, at |-> at]
    BY <1>2, NextLetter, Zenon
  <2> HIDE DEF at
  <2> QED
    BY <2>1, <2>2 DEF Matches
<1>3. CASE ~ match.escaped /\ c = "%"
  <2> DEFINE at == {i \in 1..(Len(s) + 1) : \E n \in match.at : n <= i}
  <2>1. at \in SUBSET (1..(Len(s) + 1))
    OBVIOUS
  <2>2. Matched(s, match, c) = [match EXCEPT !.at = at]
    BY <1>3, NextAny
  <2> HIDE DEF at
  <2> QED
    BY <2>1, <2>2 DEF Matches
<1>4. CASE ~ match.escaped /\ c = "_"
  <2> DEFINE at == {i + 1 : i \in match.at \ {Len(s) + 1}}
  <2>1. at \in SUBSET (1..(Len(s) + 1))
    BY <1>1
  <2>2. Matched(s, match, c) = [match EXCEPT !.at = at]
    BY <1>4, NextOne
  <2> HIDE DEF at
  <2> QED
    BY <2>1, <2>2 DEF Matches
<1>5. CASE ~ match.escaped /\ c = "\\"
  <2>1. [match EXCEPT !.escaped = TRUE] \in Matches(s)
    BY DEF Matches
  <2> QED
    BY <1>5, <2>1, NextEscape
<1> QED
  BY <1>2, <1>3, <1>4, <1>5 DEF IsLetter

(* The matches of a pattern, character by character. *)
MatchRuns(s, p) ==
  {match \in [0..Len(p) -> Matches(s)] :
     match[0] = Start /\ \A k \in 1..Len(p) : match[k] = Matched(s, match[k - 1], p[k])}

LEMMA LikeByRun ==
  ASSUME NEW s, Len(s) \in Nat, NEW p, Len(p) \in Nat
  PROVE \E match \in MatchRuns(s, p) :
          Like(s, p) <=> ~ match[Len(p)].escaped /\ Len(s) + 1 \in match[Len(p)].at
<1> DEFINE n == Len(p)
           V == Matches(s)
           step == [k \in 1..n |-> [m \in V |-> Matched(s, m, p[k])]]
           F(g) == [k \in 0..n |-> IF k = 0 THEN [escaped |-> FALSE, at |-> {1}]
                                   ELSE Matched(s, g[k - 1], p[k])]
           match == CHOOSE g : g = F(g)
<1>1. step \in Steps(V, n)
  BY MatchedType DEF Steps
<1>2. Start \in V
  BY DEF Matches, Start
<1>3. \A k \in 1..n, m \in V : step[k][m] = Matched(s, m, p[k])
  OBVIOUS
<1> HIDE DEF step, V
<1>0. n \in Nat
  OBVIOUS
<1> HIDE DEF n, F, match
<1>a. PICK g \in Iterations(V, Start, n, step) : TRUE
  BY <1>0, <1>1, <1>2, Recursion, Zenon
<1>4. g \in [0..n -> V] /\ g[0] = Start /\ \A k \in 1..n : g[k] = step[k][g[k - 1]]
  BY DEF Iterations
<1> USE DEF n, F, match
<1>5. \A k \in 1..n : g[k - 1] \in V /\ k - 1 \in 0..n /\ k # 0
  BY <1>4
<1>6. \A k \in 1..n : g[k] = Matched(s, g[k - 1], p[k])
  BY <1>3, <1>4, <1>5, Zenon
<1>7. g = F(g)
  <2>1. \A k \in 0..n : g[k] = F(g)[k]
    <3>1. ASSUME NEW k \in 0..n PROVE g[k] = F(g)[k]
      <4>1. CASE k = 0
        BY <1>4, <4>1 DEF Start
      <4>2. CASE k # 0
        <5>1. k \in 1..n
          BY <4>2
        <5> QED
          BY <1>6, <5>1, <4>2
      <4> QED
        BY <4>1, <4>2
    <3> QED
      BY <3>1
  <2> QED
    BY <1>4, <2>1
<1>8. match = F(match)
  BY <1>7, Zenon
<1>9. Like(s, p) <=> ~ match[n].escaped /\ Len(s) + 1 \in match[n].at
  BY Zenon DEF Like
<1> HIDE DEF match
<1>10. match[0] = Start
  BY <1>8 DEF Start
<1>11. ASSUME NEW k \in 1..n PROVE match[k] = Matched(s, match[k - 1], p[k])
  <2>1. k \in 0..n /\ k # 0
    BY <1>0
  <2>2. match[k] = F(match)[k]
    BY <1>8, Zenon
  <2>3. F(match)[k] = Matched(s, match[k - 1], p[k])
    BY <2>1, Zenon
  <2> QED
    BY <2>2, <2>3, Zenon
<1> DEFINE S == {k \in 0..n : match[k] \in V}
<1>12. 0 \in S
  BY <1>2, <1>10
<1>13. ASSUME NEW k \in 1..n, k - 1 \in S PROVE k \in S
  <2>1. match[k] \in Matches(s)
    BY <1>11, <1>13, MatchedType DEF V
  <2> QED
    BY <2>1 DEF V
<1> HIDE DEF S
<1>14. 0..n \subseteq S
  BY <1>12, <1>13, Induction
<1>15. \A k \in 0..n : match[k] \in V
  BY <1>14 DEF S
<1>16. match \in [0..n -> V]
  <2>1. match = [k \in 0..n |-> match[k]]
    BY <1>8
  <2> QED
    BY <1>15, <2>1
<1>17. match \in MatchRuns(s, p)
  BY <1>10, <1>11, <1>16, Zenon DEF MatchRuns, V
<1> QED
  BY <1>9, <1>17, Zenon

LEMMA FunctionIsSeq ==
  ASSUME NEW V, NEW n \in Nat, NEW f, f = [i \in 1..n |-> f[i]], \A i \in 1..n : f[i] \in V
  PROVE f \in Seq(V) /\ Len(f) = n
OBVIOUS

(* Where in s a place may be that follows the first k characters of q. *)
After(s, q, k) ==
  {i \in 1..(Len(s) + 1) : i > k /\ \A x \in 1..k : Lower(s[i - k - 1 + x]) = Lower(q[x])}

LEMMA OneMoreLetter ==
  ASSUME NEW s, Len(s) \in Nat, NEW q, NEW k \in Nat \ {0}
  PROVE OverLetter(s, After(s, q, k - 1), q[k]) = After(s, q, k)
<1>1. ASSUME NEW i \in OverLetter(s, After(s, q, k - 1), q[k]) PROVE i \in After(s, q, k)
  <2>1. PICK n \in After(s, q, k - 1) : i = n + 1 /\ n <= Len(s) /\ Lower(s[n]) = Lower(q[k])
    BY <1>1 DEF OverLetter
  <2>2. n \in 1..(Len(s) + 1) /\ n > k - 1
    BY <2>1 DEF After
  <2>3. i \in 1..(Len(s) + 1) /\ i > k /\ n = i - 1
    BY <2>1, <2>2
  <2>4. ASSUME NEW x \in 1..k PROVE Lower(s[i - k - 1 + x]) = Lower(q[x])
    <3>1. CASE x = k
      <4>1. i - k - 1 + x = n
        BY <2>3, <3>1
      <4> QED
        BY <2>1, <3>1, <4>1, Zenon
    <3>2. CASE x # k
      <4>1. x \in 1..(k - 1) /\ i - k - 1 + x = n - (k - 1) - 1 + x
        BY <2>3, <3>2
      <4>2. Lower(s[n - (k - 1) - 1 + x]) = Lower(q[x])
        BY <4>1 DEF After
      <4> QED
        BY <4>1, <4>2, Zenon
    <3> QED
      BY <3>1, <3>2
  <2> QED
    BY <2>3, <2>4, Zenon DEF After
<1>2. ASSUME NEW i \in After(s, q, k) PROVE i \in OverLetter(s, After(s, q, k - 1), q[k])
  <2> DEFINE n == i - 1
  <2>1. i \in 1..(Len(s) + 1) /\ i > k
    BY <1>2, Zenon DEF After
  <2>2. n \in 1..(Len(s) + 1) /\ n > k - 1 /\ n <= Len(s) /\ i = n + 1
    BY <2>1
  <2>3. \A x \in 1..k : Lower(s[i - k - 1 + x]) = Lower(q[x])
    BY <1>2, Zenon DEF After
  <2>4. Lower(s[n]) = Lower(q[k])
    <3>1. k \in 1..k /\ i - k - 1 + k = n
      BY <2>1
    <3> QED
      BY <2>3, <3>1, Zenon
  <2>5. ASSUME NEW x \in 1..(k - 1) PROVE Lower(s[n - (k - 1) - 1 + x]) = Lower(q[x])
    <3>1. x \in 1..k /\ n - (k - 1) - 1 + x = i - k - 1 + x
      BY <2>1
    <3> QED
      BY <2>3, <3>1, Zenon
  <2> HIDE DEF n
  <2>6. n \in After(s, q, k - 1)
    BY <2>2, <2>5, Zenon DEF After
  <2> QED
    BY <2>2, <2>4, <2>6 DEF OverLetter
<1> QED
  BY <1>1, <1>2

(* A text is matched by the pattern made of an escaped one, between percent  *)
(* signs, exactly when the other occurs in it, whatever the case of letters. *)
THEOREM EscapedTextsMatchLiterally ==
  ASSUME NEW s, s # Null, Len(s) \in Nat, NEW q, IsSeq(q)
  PROVE Like(s, <<"%">> \o escape_like(q) \o <<"%">>) <=> Contained(q, s)
<1> DEFINE m == Len(q)
           special == {"%", "_", "\\"}
           T == {"%", "\\"} \cup {q[i] : i \in 1..m}
           pieces == [i \in 1..m |-> IF q[i] \in special THEN <<"\\", q[i]>> ELSE <<q[i]>>]
           e == escape_like(q)
           p == <<"%">> \o e \o <<"%">>
<1>1. m \in Nat /\ DOMAIN q = 1..m
  BY DEF IsSeq
<1>2. pieces \in Seq(Seq(T)) /\ Len(pieces) = m
  <2>1. \A i \in 1..m : q[i] \in T /\ "\\" \in T
    OBVIOUS
  <2> HIDE DEF T
  <2>2. \A i \in 1..m : <<"\\", q[i]>> \in Seq(T) /\ <<q[i]>> \in Seq(T)
    BY <2>1
  <2>3. \A i \in 1..m : pieces[i] \in Seq(T)
    BY <2>2
  <2>4. pieces = [i \in 1..m |-> pieces[i]]
    OBVIOUS
  <2> HIDE DEF pieces
  <2> QED
    BY <1>1, <2>3, <2>4, FunctionIsSeq
<1>3. \A i \in 1..m : pieces[i] = IF q[i] \in special THEN <<"\\", q[i]>> ELSE <<q[i]>>
  OBVIOUS
<1>4. e = FlattenSeq(pieces)
  BY <1>1 DEF escape_like
<1> HIDE DEF pieces, T, e
<1>5. PICK run \in Runs(T, pieces) : TRUE
  BY <1>2, FlattenedRun
<1>6. e = run[m]
  BY <1>2, <1>4, FlattenIsLast
<1>7. run[0] = <<>> /\ \A k \in 0..m : run[k] \in Seq(T)
  BY <1>2 DEF Runs
<1>8. e \in Seq(T) /\ Len(e) \in Nat
  BY <1>1, <1>6, <1>7
<1>9. /\ Len(p) = Len(e) + 2 /\ p[1] = "%" /\ p[Len(e) + 2] = "%"
      /\ \A j \in 1..Len(e) : p[1 + j] = e[j]
  <2>1. "%" \in T
    BY DEF T
  <2> QED
    BY <1>8, <2>1
<1> HIDE DEF p, special
<1>10. PICK match \in MatchRuns(s, p) :
         Like(s, p) <=> ~ match[Len(p)].escaped /\ Len(s) + 1 \in match[Len(p)].at
  BY <1>8, <1>9, LikeByRun
<1>11. /\ match[0] = Start
       /\ \A k \in 1..(Len(e) + 2) : match[k] = Matched(s, match[k - 1], p[k])
       /\ \A k \in 0..(Len(e) + 2) : match[k] \in Matches(s)
  BY <1>9 DEF MatchRuns
<1> DEFINE Found(k) == [escaped |-> FALSE, at |-> After(s, q, k)]
           S == {k \in 0..m : match[1 + Len(run[k])] = Found(k)}
<1>12. 0 \in S
  <2>1. match[1] = Matched(s, Start, "%")
    <3>1. 1 \in 1..(Len(e) + 2) /\ 1 - 1 = 0
      BY <1>8
    <3> QED
      BY <1>9, <1>11, <3>1, Zenon
  <2>2. Matched(s, Start, "%") =
          [Start EXCEPT !.at = {i \in 1..(Len(s) + 1) : \E n \in Start.at : n <= i}]
    BY NextAny, ZenonT(40) DEF Start
  <2>3. {i \in 1..(Len(s) + 1) : \E n \in Start.at : n <= i} = 1..(Len(s) + 1)
    BY DEF Start
  <2>4. After(s, q, 0) = 1..(Len(s) + 1)
    BY DEF After
  <2>5. match[1] = Found(0)
    BY <2>1, <2>2, <2>3, <2>4 DEF Start
  <2>6. 1 + Len(run[0]) = 1
    BY <1>7
  <2> QED
    BY <1>1, <2>5, <2>6
<1>13. ASSUME NEW k \in 1..m, k - 1 \in S PROVE k \in S
  <2> DEFINE b == Len(run[k - 1])
             c == q[k]
  <2>1. match[1 + b] = Found(k - 1) /\ b \in Nat
    <3>1. k - 1 \in 0..m
      BY <1>1
    <3> QED
      BY <1>7, <1>13, <3>1
  <2>2. /\ Len(run[k]) = b + Len(pieces[k]) /\ Len(run[k]) <= Len(e)
        /\ \A j \in 1..Len(pieces[k]) : e[b + j] = pieces[k][j]
    <3>1. k \in 1..Len(pieces)
      BY <1>2
    <3>2. Len(run[k]) = Len(run[k - 1]) + Len(pieces[k]) /\ IsPiece(run[Len(pieces)], Len(run[k - 1]), pieces[k])
      BY <1>2, <3>1, PiecesInRun, Zenon
    <3> QED
      BY <1>2, <1>6, <3>2 DEF IsPiece
  <2>3. OverLetter(s, After(s, q, k - 1), c) = After(s, q, k)
    BY <1>1, OneMoreLetter
  <2>a. ~ Found(k - 1).escaped /\ Found(k - 1).at = After(s, q, k - 1)
    OBVIOUS
  <2>4. IsLetter(Found(k - 1), c) => Matched(s, Found(k - 1), c) = Found(k)
    <3> HIDE DEF Found, c
    <3>1. IsLetter(Found(k - 1), c) =>
            Matched(s, Found(k - 1), c) = [escaped |-> FALSE, at |-> OverLetter(s, Found(k - 1).at, c)]
      BY NextLetter, Zenon
    <3> QED
      BY <2>3, <2>a, <3>1 DEF Found, c
  <2> HIDE DEF b, c, Found
  <2>5. CASE c \in special
    <3>1. pieces[k] = <<"\\", c>>
      BY <1>3, <2>5 DEF c
    <3>2. Len(run[k]) = b + 2 /\ b + 2 <= Len(e) /\ e[b + 1] = "\\" /\ e[b + 2] = c
      BY <2>2, <3>1
    <3>3. p[1 + (b + 1)] = "\\" /\ p[1 + (b + 2)] = c
      BY <1>8, <1>9, <2>1, <3>2
    <3>4. match[b + 2] = Matched(s, match[b + 1], p[b + 2]) /\ match[b + 3] = Matched(s, match[b + 2], p[b + 3])
      BY <1>8, <1>11, <2>1, <3>2
    <3>5. match[b + 2] = [Found(k - 1) EXCEPT !.escaped = TRUE]
      <4>1. match[b + 2] = Matched(s, match[b + 1], p[b + 2]) /\ match[b + 1] = Found(k - 1) /\ p[b + 2] = "\\"
        BY <2>1, <3>3, <3>4
      <4>2. Matched(s, Found(k - 1), "\\") = [Found(k - 1) EXCEPT !.escaped = TRUE]
        BY <2>a, NextEscape, ZenonT(40)
      <4> QED
        BY <4>1, <4>2, Zenon
    <3>6. match[b + 3] = Matched(s, match[b + 2], c)
      BY <2>1, <3>3, <3>4
    <3>7. match[b + 2].escaped /\ match[b + 2].at = After(s, q, k - 1)
      BY <3>5 DEF Found
    <3>8. match[b + 3] = [escaped |-> FALSE, at |-> OverLetter(s, After(s, q, k - 1), c)]
      <4>1. IsLetter(match[b + 2], c)
        BY <3>7 DEF IsLetter
      <4>2. Matched(s, match[b + 2], c) = [escaped |-> FALSE, at |-> OverLetter(s, match[b + 2].at, c)]
        BY <4>1, NextLetter, Zenon
      <4> QED
        BY <3>6, <3>7, <4>2
    <3>9. 1 + Len(run[k]) = b + 3
      BY <2>1, <3>2
    <3>10. match[b + 3] = Found(k)
      BY <2>3, <3>8 DEF Found, c
    <3>11. match[1 + Len(run[k])] = Found(k) /\ k \in 0..m
      BY <3>9, <3>10
    <3> QED
      BY <3>11
  <2>6. CASE c \notin special
    <3>1. pieces[k] = <<c>>
      BY <1>3, <2>6 DEF c
    <3>2. Len(run[k]) = b + 1 /\ b + 1 <= Len(e) /\ e[b + 1] = c
      BY <2>2, <3>1
    <3>3. p[1 + (b + 1)] = c
      BY <1>8, <1>9, <2>1, <3>2
    <3>4. match[b + 2] = Matched(s, match[b + 1], p[b + 2])
      BY <1>8, <1>11, <2>1, <3>2
    <3>5. match[b + 2] = Matched(s, Found(k - 1), c)
      BY <2>1, <3>3, <3>4
    <3>6. match[b + 2] = Found(k)
      BY <2>4, <2>6, <3>5 DEF IsLetter, special
    <3>7. 1 + Len(run[k]) = b + 2
      BY <2>1, <3>2
    <3>8. match[1 + Len(run[k])] = Found(k) /\ k \in 0..m
      BY <3>6, <3>7
    <3> QED
      BY <3>8
  <2> QED
    BY <2>5, <2>6
<1> HIDE DEF S
<1>14. m \in S
  <2>1. 0..m \subseteq S
    BY <1>1, <1>12, <1>13, Induction
  <2> QED
    BY <1>1, <2>1
<1>15. match[1 + Len(e)] = Found(m)
  BY <1>6, <1>14 DEF S
<1>16. match[Len(p)] = Matched(s, Found(m), "%")
  <2>1. Len(e) + 2 \in 1..(Len(e) + 2) /\ (Len(e) + 2) - 1 = 1 + Len(e)
    BY <1>8
  <2> QED
    BY <1>9, <1>11, <1>15, <2>1, ZenonT(40)
<1>17. Matched(s, Found(m), "%") =
         [Found(m) EXCEPT !.at = {i \in 1..(Len(s) + 1) : \E n \in After(s, q, m) : n <= i}]
  <2>1. ~ Found(m).escaped /\ Found(m).at = After(s, q, m)
    OBVIOUS
  <2> HIDE DEF Found
  <2>2. Matched(s, Found(m), "%") =
         [Found(m) EXCEPT !.at = {i \in 1..(Len(s) + 1) : \E n \in Found(m).at : n <= i}]
    BY <2>1, NextAny
  <2> QED
    BY <2>1, <2>2, Zenon
<1>18. Like(s, p) <=> After(s, q, m) # {}
  <2>1. ~ match[Len(p)].escaped
    BY <1>16, <1>17
  <2>2. match[Len(p)].at = {i \in 1..(Len(s) + 1) : \E n \in After(s, q, m) : n <= i}
    BY <1>16, <1>17
  <2>3. Like(s, p) <=> Len(s) + 1 \in match[Len(p)].at
    BY <1>10, <2>1, Zenon
  <2>4. \A n \in After(s, q, m) : n <= Len(s) + 1
    BY DEF After
  <2>5. Len(s) + 1 \in match[Len(p)].at <=> After(s, q, m) # {}
    BY <2>2, <2>4
  <2> QED
    BY <2>3, <2>5, Zenon
<1> DEFINE Occurs == \E i \in 0..(Len(s) - m) : \A k \in 1..m : Lower(s[i + k]) = Lower(q[k])
<1>19. ASSUME After(s, q, m) # {} PROVE Occurs
  <2>1. PICK n \in 1..(Len(s) + 1) : n > m /\ \A x \in 1..m : Lower(s[n - m - 1 + x]) = Lower(q[x])
    BY <1>19 DEF After
  <2>2. n - m - 1 \in 0..(Len(s) - m)
    BY <1>1, <2>1
  <2> QED
    BY <2>1, <2>2, Zenon
<1>20. ASSUME Occurs PROVE After(s, q, m) # {}
  <2>1. PICK i \in 0..(Len(s) - m) : \A k \in 1..m : Lower(s[i + k]) = Lower(q[k])
    BY <1>20
  <2>2. /\ i + m + 1 \in 1..(Len(s) + 1) /\ i + m + 1 > m
        /\ \A x \in 1..m : (i + m + 1) - m - 1 + x = i + x
    BY <1>1, <2>1
  <2>3. \A x \in 1..m : Lower(s[(i + m + 1) - m - 1 + x]) = Lower(q[x])
    BY <2>1, <2>2, Zenon
  <2>4. i + m + 1 \in After(s, q, m)
    BY <2>2, <2>3, Zenon DEF After
  <2> QED
    BY <2>4
<1>21. Like(s, p) <=> Occurs
  BY <1>18, <1>19, <1>20
<1> QED
  BY <1>1, <1>21, Zenon DEF Contained, p, e

-----------------------------------------------------------------------------

USE LowerCaseAssumption, LimitsAssumption, FieldsAssumption

-----------------------------------------------------------------------------
(* Spellings. *)

LEMMA LowerOnce == \A name : Lower(Lower(name)) = Lower(name)
BY DEF Lower, Range

LEMMA LowerOfCatalog == \A name \in Catalog : Lower(name) = name
BY DEF Lower

-----------------------------------------------------------------------------
(* The validator. *)

(* What is in scope somewhere is introduced somewhere. *)
LEMMA ScopeIsIntroduced ==
  ASSUME NEW tree, SyntaxTree(tree), NEW path \in DOMAIN tree
  PROVE Scope(tree, path) \subseteq Walk(tree).ctes
<1> SUFFICES ASSUME NEW k \in DOMAIN path,
                    NEW key \in LET node == tree[Above(path, k)] IN
                                  IF path[k].into = "ctes"
                                  THEN {Lower(node.ctes[i]) : i \in 1..path[k].at}
                                  ELSE Keys(node)
             PROVE key \in Walk(tree).ctes
  BY DEF Scope
<1>1. Above(path, k) \in DOMAIN tree
  BY DEF SyntaxTree
<1>2. key \in Keys(tree[Above(path, k)])
  <2> DEFINE node == tree[Above(path, k)]
  <2>1. CASE path[k].into = "ctes"
    <3>1. PICK i \in 1..path[k].at : key = Lower(node.ctes[i])
      BY <2>1
    <3>2. i \in DOMAIN node.ctes
      BY <2>1, <3>1 DEF SyntaxTree
    <3> QED
      BY <3>1, <3>2 DEF Keys, ToSet
  <2>2. CASE path[k].into # "ctes"
    BY <2>2
  <2> QED
    BY <2>1, <2>2
<1> QED
  BY <1>1, <1>2 DEF Walk, Visited

(* A single SELECT of its own expressions and of catalog tables passes. *)
LEMMA ResolvingPasses ==
  ASSUME NEW statements, Len(statements) = 1, NotSelect \notin ToSet(statements),
         SyntaxTree(statements[1]), OnlySafeFunctions(statements[1]),
         \A path \in BaseTables(statements[1]) :
           IsCte(statements[1], path) \/ IsServed(statements[1][path], Catalog)
  PROVE Validate(statements)
<1> DEFINE tree == statements[1]
           w == Walk(tree)
<1>1. w.bad = {}
  BY DEF OnlySafeFunctions, Walk, Visited
<1>2. ASSUME NEW table \in w.bases \ w.ctes PROVE IsAllowedTable(table)
  <2>1. PICK path \in BaseTables(tree) : table = Lower(tree[path].name)
    BY <1>2 DEF Walk, Visited, BaseTables
  <2>2. ~ IsCte(tree, path)
    BY <1>2, <2>1, ScopeIsIntroduced DEF IsCte, BaseTables
  <2>3. table \in Catalog
    BY <2>1, <2>2 DEF IsServed
  <2> QED
    BY <2>3, LowerOfCatalog DEF IsAllowedTable
<1> QED
  BY <1>1, <1>2 DEF Validate

(* What passes is a single SELECT whose tables bear a name of the catalog or *)
(* one that the query introduces somewhere.                                  *)
LEMMA PassingIsVetted ==
  ASSUME NEW statements, Validate(statements)
  PROVE /\ Len(statements) = 1 /\ NotSelect \notin ToSet(statements)
        /\ OnlySafeFunctions(statements[1])
        /\ \A path \in BaseTables(statements[1]) : LET name == statements[1][path].name IN
             Lower(name) \in Catalog \/ IsNameOfCte(statements[1], name)
<1> DEFINE tree == statements[1]
           w == Walk(tree)
<1>1. w.bad = {} /\ \A table \in w.bases \ w.ctes : IsAllowedTable(table)
  BY DEF Validate
<1>2. \A name : Lower(name) \in w.ctes => IsNameOfCte(tree, name)
  BY DEF Walk, Visited, Range, IsNameOfCte
<1>3. OnlySafeFunctions(tree)
  BY <1>1 DEF Walk, Visited, OnlySafeFunctions
<1>4. ASSUME NEW path \in BaseTables(tree)
      PROVE Lower(tree[path].name) \in Catalog \/ IsNameOfCte(tree, tree[path].name)
  <2>1. Lower(tree[path].name) \in w.bases
    BY DEF Walk, Visited, BaseTables
  <2> QED
    BY <1>1, <1>2, <2>1, LowerOnce DEF IsAllowedTable
<1> QED
  BY <1>3, <1>4 DEF Validate

(* No table of DuckDB's own bears a name of the catalog: what passes and     *)
(* binds is loaded, in scope, or bears a name the query introduces.          *)
LEMMA BoundIsVetted ==
  ASSUME NEW statements, Validate(statements), NEW loaded, Binds(statements[1], loaded),
         NEW path \in BaseTables(statements[1])
  PROVE LET tree == statements[1] IN
          IsCte(tree, path) \/ IsServed(tree[path], loaded) \/ IsNameOfCte(tree, tree[path].name)
<1> DEFINE tree == statements[1]
<1>1. IsSystem(tree[path]) => Lower(tree[path].name) \notin Catalog
  BY SystemAssumption DEF IsSystem
<1>2. Lower(tree[path].name) \in Catalog \/ IsNameOfCte(tree, tree[path].name)
  BY PassingIsVetted
<1>3. IsCte(tree, path) \/ IsServed(tree[path], loaded) \/ IsSystem(tree[path])
  BY Zenon DEF Binds
<1> QED
  BY <1>1, <1>2, <1>3

-----------------------------------------------------------------------------
(* Limits. *)

LEMMA TwoNumbers ==
  ASSUME NEW m \in Int, NEW n \in Int
  PROVE /\ Min({m, n}) = IF m <= n THEN m ELSE n
        /\ Max({m, n}) = IF m >= n THEN m ELSE n
<1>1. \E x \in {m, n} : \A y \in {m, n} : x <= y
  OBVIOUS
<1>2. \E x \in {m, n} : \A y \in {m, n} : x >= y
  OBVIOUS
<1>3. Min({m, n}) \in {m, n} /\ \A y \in {m, n} : Min({m, n}) <= y
  BY <1>1 DEF Min
<1>4. Max({m, n}) \in {m, n} /\ \A y \in {m, n} : Max({m, n}) >= y
  BY <1>2 DEF Max
<1> QED
  BY <1>3, <1>4

(* The cap is the limit asked for, at least 1 and at most MAX_ROWS. *)
LEMMA CapIsBetween ==
  ASSUME NEW limit \in Seq(Nat)
  PROVE LET asked == IF limit = <<>> THEN MaxRows ELSE limit[1] IN
          /\ Cap(limit) \in 1..MaxRows
          /\ Cap(limit) = IF asked = 0 THEN 1 ELSE IF asked <= MaxRows THEN asked ELSE MaxRows
<1> DEFINE asked == IF limit = <<>> THEN MaxRows ELSE limit[1]
<1>1. asked \in Nat /\ MaxRows \in Nat \ {0}
  OBVIOUS
<1>2. Cap(limit) = Max({1, Min({asked, MaxRows})})
  BY DEF Cap
<1> HIDE DEF asked
<1> DEFINE least == Min({asked, MaxRows})
<1>3. least = IF asked <= MaxRows THEN asked ELSE MaxRows
  BY <1>1, TwoNumbers
<1>4. least \in Int
  BY <1>1, <1>3
<1> HIDE DEF least
<1>5. Max({1, least}) = IF 1 >= least THEN 1 ELSE least
  <2>1. 1 \in Int
    OBVIOUS
  <2> QED
    BY <1>4, <2>1, TwoNumbers, Zenon
<1>6. /\ Cap(limit) \in 1..MaxRows
      /\ Cap(limit) = IF asked = 0 THEN 1 ELSE IF asked <= MaxRows THEN asked ELSE MaxRows
  BY <1>1, <1>2, <1>3, <1>5 DEF least
<1> QED
  BY <1>6 DEF asked

(* One row more than the cap is enough to tell. *)
LEMMA CutsAreTold ==
  ASSUME NEW result \in Nat, NEW cap \in Nat
  PROVE /\ Capped(result, cap).status = "rows"
        /\ Len(Capped(result, cap).rows) = IF result <= cap THEN result ELSE cap
        /\ Capped(result, cap).truncated <=> cap < result
<1> DEFINE fetched == Min({result, cap + 1})
<1>1. fetched = IF result <= cap + 1 THEN result ELSE cap + 1
  BY TwoNumbers
<1>2. fetched \in Nat
  BY <1>1
<1>3. Capped(result, cap) = [status |-> "rows", rows |-> [i \in 1..Min({fetched, cap}) |-> i],
                             truncated |-> fetched > cap]
  BY DEF Capped
<1> HIDE DEF fetched
<1>4. Min({fetched, cap}) = IF result <= cap THEN result ELSE cap
  BY <1>1, <1>2, TwoNumbers
<1>5. Min({fetched, cap}) \in Nat
  BY <1>4
<1>6. Len([i \in 1..Min({fetched, cap}) |-> i]) = Min({fetched, cap})
  BY <1>5
<1>7. fetched > cap <=> cap < result
  BY <1>1
<1>8. /\ Capped(result, cap).status = "rows"
      /\ Capped(result, cap).rows = [i \in 1..Min({fetched, cap}) |-> i]
      /\ Capped(result, cap).truncated = (fetched > cap)
  BY <1>3
<1>9. Len(Capped(result, cap).rows) = IF result <= cap THEN result ELSE cap
  BY <1>4, <1>6, <1>8
<1> QED
  BY <1>7, <1>8, <1>9, Zenon

-----------------------------------------------------------------------------
(* Dates. *)

\* The day number of the last of February.
BeforeMarch(y) ==
  (y \div 400) * 146097 + (y % 400) * 365 + (y % 400) \div 4 - (y % 400) \div 100

LEMMA LeapYears ==
  ASSUME NEW y \in Nat
  PROVE BeforeMarch(y) - BeforeMarch(y - 1) = IF IsLeapYear(y) THEN 366 ELSE 365
<1>1. PICK e \in Int, r \in 0..399 : y = 400 * e + r
  <2>1. y = 400 * (y \div 400) + (y % 400) /\ y % 400 \in 0..399 /\ y \div 400 \in Int
    OBVIOUS
  <2> QED
    BY <2>1
<1>2. y \div 400 = e /\ y % 400 = r
  BY <1>1
<1>3. y % 4 = r % 4 /\ y % 100 = r % 100
  BY <1>1
<1>4. CASE r = 0
  <2>1. (y - 1) \div 400 = e - 1 /\ (y - 1) % 400 = 399
    BY <1>1, <1>4
  <2>2. /\ r \div 4 = 0 /\ r \div 100 = 0 /\ r % 4 = 0 /\ r % 100 = 0
        /\ 399 \div 4 = 99 /\ 399 \div 100 = 3
    BY <1>4
  <2> QED
    BY <1>1, <1>2, <1>3, <1>4, <2>1, <2>2 DEF BeforeMarch, IsLeapYear
<1>5. CASE r > 0
  <2>1. (y - 1) \div 400 = e /\ (y - 1) % 400 = r - 1
    BY <1>1, <1>5
  <2>2. r \div 4 - (r - 1) \div 4 = IF r % 4 = 0 THEN 1 ELSE 0
    BY <1>1, <1>5
  <2>3. r \div 100 - (r - 1) \div 100 = IF r % 100 = 0 THEN 1 ELSE 0
    BY <1>1, <1>5
  <2>4. r % 100 = 0 => r % 4 = 0
    BY <1>1
  <2>5. /\ r \div 4 \in Int /\ (r - 1) \div 4 \in Int
        /\ r \div 100 \in Int /\ (r - 1) \div 100 \in Int
    OBVIOUS
  <2> QED
    BY <1>1, <1>2, <1>3, <1>5, <2>1, <2>2, <2>3, <2>4, <2>5 DEF BeforeMarch, IsLeapYear
<1> QED
  BY <1>1, <1>4, <1>5

(* days_in_month gives the distance from each month to the next. *)
LEMMA MonthsEnd ==
  ASSUME NEW y \in Nat, NEW m \in 1..12, NEW d \in Nat
  PROVE d <= DaysInMonth(y, m) <=>
          DayNumber(y, m, d) < IF m = 12 THEN DayNumber(y + 1, 1, 1) ELSE DayNumber(y, m + 1, 1)
<1> DEFINE Days(k) == (153 * k + 2) \div 5
<1>1. ASSUME NEW year \in Int, NEW month \in 3..12, NEW day \in Int
      PROVE DayNumber(year, month, day) = BeforeMarch(year) + Days(month - 3) + day - 1
  <2>1. month > 2
    BY <1>1
  <2>2. DayNumber(year, month, day) =
          (year \div 400) * 146097 + (year % 400) * 365 + (year % 400) \div 4
            - (year % 400) \div 100 + (Days(month - 3) + day - 1)
    BY <2>1 DEF DayNumber
  <2>3. Days(month - 3) \in Int
    OBVIOUS
  <2> HIDE DEF Days
  <2>4. BeforeMarch(year) \in Int
    BY DEF BeforeMarch
  <2> QED
    BY <2>2, <2>3, <2>4 DEF BeforeMarch
<1>2. ASSUME NEW year \in Int, NEW month \in 1..2, NEW day \in Int
      PROVE DayNumber(year, month, day) = BeforeMarch(year - 1) + Days(month + 9) + day - 1
  <2>1. ~ (month > 2)
    BY <1>2
  <2>2. DayNumber(year, month, day) =
          ((year - 1) \div 400) * 146097 + ((year - 1) % 400) * 365 + ((year - 1) % 400) \div 4
            - ((year - 1) % 400) \div 100 + (Days(month + 9) + day - 1)
    BY <2>1 DEF DayNumber
  <2>3. Days(month + 9) \in Int
    OBVIOUS
  <2> HIDE DEF Days
  <2>4. BeforeMarch(year - 1) \in Int
    BY DEF BeforeMarch
  <2> QED
    BY <2>2, <2>3, <2>4 DEF BeforeMarch
<1>3. BeforeMarch(y) \in Int /\ BeforeMarch(y - 1) \in Int
  BY DEF BeforeMarch
<1>4. BeforeMarch(y) - BeforeMarch(y - 1) = IF IsLeapYear(y) THEN 366 ELSE 365
  BY LeapYears
<1>5. CASE m = 12
  <2>1. DayNumber(y, 12, d) = BeforeMarch(y) + Days(12 - 3) + d - 1
    BY <1>1
  <2>2. DayNumber(y + 1, 1, 1) = BeforeMarch((y + 1) - 1) + Days(1 + 9) + 1 - 1
    BY <1>2
  <2>3. (y + 1) - 1 = y /\ Days(12 - 3) = 275 /\ Days(1 + 9) = 306
    OBVIOUS
  <2>4. DaysInMonth(y, 12) = 31
    BY DEF DaysInMonth
  <2> HIDE DEF Days
  <2>5. DayNumber(y, 12, d) = BeforeMarch(y) + 275 + d - 1 /\ DayNumber(y + 1, 1, 1) = BeforeMarch(y) + 306
    BY <1>3, <2>1, <2>2, <2>3
  <2> QED
    BY <1>3, <1>5, <2>4, <2>5
<1>6. CASE m = 2
  <2>1. /\ DayNumber(y, 2, d) = BeforeMarch(y - 1) + Days(2 + 9) + d - 1
        /\ DayNumber(y, 3, 1) = BeforeMarch(y) + Days(3 - 3) + 1 - 1
    BY <1>1, <1>2, SMTT(30)
  <2>2. Days(2 + 9) = 337 /\ Days(3 - 3) = 0
    OBVIOUS
  <2>3. DaysInMonth(y, 2) = IF IsLeapYear(y) THEN 29 ELSE 28
    BY DEF DaysInMonth
  <2> HIDE DEF Days
  <2>4. DayNumber(y, 2, d) = BeforeMarch(y - 1) + 337 + d - 1 /\ DayNumber(y, 3, 1) = BeforeMarch(y)
    BY <1>3, <2>1, <2>2
  <2> QED
    BY <1>3, <1>4, <1>6, <2>3, <2>4
<1>7. CASE m = 1
  <2>1. /\ DayNumber(y, 1, d) = BeforeMarch(y - 1) + Days(1 + 9) + d - 1
        /\ DayNumber(y, 2, 1) = BeforeMarch(y - 1) + Days(2 + 9) + 1 - 1
    BY <1>2
  <2>2. Days(2 + 9) = 337 /\ Days(1 + 9) = 306
    OBVIOUS
  <2>3. DaysInMonth(y, 1) = 31
    BY DEF DaysInMonth
  <2> HIDE DEF Days
  <2>4. /\ DayNumber(y, 1, d) = BeforeMarch(y - 1) + 306 + d - 1
        /\ DayNumber(y, 2, 1) = BeforeMarch(y - 1) + 337
    BY <1>3, <2>1, <2>2
  <2> QED
    BY <1>3, <1>7, <2>3, <2>4
<1>8. CASE m \in 3..11
  <2>1. /\ DayNumber(y, m, d) = BeforeMarch(y) + Days(m - 3) + d - 1
        /\ DayNumber(y, m + 1, 1) = BeforeMarch(y) + Days((m + 1) - 3) + 1 - 1
    <3>1. m + 1 \in 3..12 /\ m \in 3..12 /\ m + 1 \in Int /\ d \in Int /\ y \in Int /\ 1 \in Int
      BY <1>8
    <3> HIDE DEF Days
    <3>2. DayNumber(y, m, d) = BeforeMarch(y) + Days(m - 3) + d - 1
      BY <1>1, <3>1, Zenon
    <3>3. DayNumber(y, m + 1, 1) = BeforeMarch(y) + Days((m + 1) - 3) + 1 - 1
      BY <1>1, <3>1, Zenon
    <3> QED
      BY <3>2, <3>3
  <2>2. /\ Days((m + 1) - 3) - Days(m - 3) = DaysInMonth(y, m)
        /\ Days((m + 1) - 3) \in Int /\ Days(m - 3) \in Int /\ DaysInMonth(y, m) \in Int
    <3>1. \A k \in 3..11 : DaysInMonth(y, k) = IF k \in {4, 6, 9, 11} THEN 30 ELSE 31
      BY DEF DaysInMonth
    <3>2. m = 3 \/ m = 4 \/ m = 5 \/ m = 6 \/ m = 7 \/ m = 8 \/ m = 9 \/ m = 10 \/ m = 11
      BY <1>8
    <3> QED
      BY <3>1, <3>2
  <2> HIDE DEF Days
  <2> QED
    BY <1>3, <1>8, <2>1, <2>2
<1> QED
  BY <1>5, <1>6, <1>7, <1>8

(* ensure_date accepts a text exactly when it is a day of the calendar. *)
THEOREM EnsureDateIsExact == \A s : EnsureDate(s) <=> IsRealDate(s)
<1> SUFFICES ASSUME NEW s PROVE EnsureDate(s) <=> IsRealDate(s)
  OBVIOUS
<1> DEFINE Shape == /\ Len(s) = 10 /\ s[5] = Dash /\ s[8] = Dash
                    /\ \A i \in 1..10 \ {5, 8} : s[i] \in 0..9
<1>1. (Len(s) = 10 /\ \A i \in 1..10 : IF i \in {5, 8} THEN s[i] = Dash ELSE s[i] \in 0..9) <=> Shape
  <2>1. 5 \in 1..10 /\ 8 \in 1..10
    OBVIOUS
  <2> QED
    BY <2>1, Zenon
<1>2. ASSUME Shape PROVE Year(s) \in Nat /\ Month(s) \in Nat /\ Day(s) \in Nat
  <2>1. {1, 2, 3, 4, 6, 7, 9, 10} \subseteq 1..10 \ {5, 8}
    OBVIOUS
  <2>2. 0..9 \subseteq Nat
    OBVIOUS
  <2>3. /\ s[1] \in Nat /\ s[2] \in Nat /\ s[3] \in Nat /\ s[4] \in Nat
        /\ s[6] \in Nat /\ s[7] \in Nat /\ s[9] \in Nat /\ s[10] \in Nat
    BY <1>2, <2>1, <2>2, Zenon
  <2> HIDE DEF Shape
  <2> QED
    BY <2>3 DEF Year, Month, Day
<1>3. ASSUME Shape, Month(s) \in 1..12
      PROVE Day(s) <= DaysInMonth(Year(s), Month(s)) <=>
              DayNumber(Year(s), Month(s), Day(s)) <
                (IF Month(s) = 12 THEN DayNumber(Year(s) + 1, 1, 1)
                 ELSE DayNumber(Year(s), Month(s) + 1, 1))
  BY <1>2, <1>3, MonthsEnd
<1>4. EnsureDate(s) <=> /\ Shape /\ Month(s) \in 1..12 /\ Day(s) >= 1
                        /\ Day(s) <= DaysInMonth(Year(s), Month(s))
  BY <1>1 DEF EnsureDate
<1>5. IsRealDate(s) <=> /\ Shape /\ Month(s) \in 1..12 /\ Day(s) > 0
                        /\ DayNumber(Year(s), Month(s), Day(s)) <
                             (IF Month(s) = 12 THEN DayNumber(Year(s) + 1, 1, 1)
                              ELSE DayNumber(Year(s), Month(s) + 1, 1))
  BY Zenon DEF IsRealDate
<1>6. Shape => (Day(s) >= 1 <=> Day(s) > 0)
  BY <1>2
<1> HIDE DEF Shape
<1> QED
  BY <1>3, <1>4, <1>5, <1>6

-----------------------------------------------------------------------------
(* Queries. *)

(* rows are k different ones of S, none of which a row of S that is not    *)
(* among those up to it comes before.                                      *)
Leading(rows, S, order, k) ==
  /\ rows \in Seq(S) /\ Len(rows) = k
  /\ \A i, j \in 1..k : i < j => rows[i] # rows[j]
  /\ \A i \in 1..k, r \in S : Before(order, r, rows[i]) => \E j \in 1..i : r = rows[j]

Coming(S, order, rows) ==
  {row \in S \ ToSet(rows) : \A other \in S \ ToSet(rows) : ~ Before(order, other, row)}

LEMMA OneMoreRow ==
  ASSUME NEW S, NEW order, NEW k \in Nat \ {0}, NEW rows, Leading(rows, S, order, k - 1),
         NEW row \in Coming(S, order, rows)
  PROVE Leading(Append(rows, row), S, order, k)
<1> DEFINE longer == Append(rows, row)
<1>1. rows \in Seq(S) /\ Len(rows) = k - 1
  BY DEF Leading
<1>2. ToSet(rows) = {rows[i] : i \in 1..(k - 1)}
  BY <1>1 DEF ToSet
<1>3. /\ row \in S /\ \A i \in 1..(k - 1) : rows[i] # row
      /\ \A r \in S : Before(order, r, row) => \E i \in 1..(k - 1) : r = rows[i]
  BY <1>2 DEF Coming
<1>4. /\ longer \in Seq(S) /\ Len(longer) = k /\ longer[k] = row
      /\ \A i \in 1..(k - 1) : longer[i] = rows[i]
  BY <1>1, <1>3
<1> HIDE DEF longer
<1>5. ASSUME NEW i \in 1..k, NEW j \in 1..k, i < j PROVE longer[i] # longer[j]
  <2>1. i \in 1..(k - 1)
    BY <1>5
  <2>2. CASE j = k
    BY <1>3, <1>4, <2>1, <2>2
  <2>3. CASE j # k
    <3>1. j \in 1..(k - 1)
      BY <2>3
    <3>2. rows[i] # rows[j]
      BY <1>5, <2>1, <3>1, Zenon DEF Leading
    <3> QED
      BY <1>4, <2>1, <3>1, <3>2
  <2> QED
    BY <2>2, <2>3
<1>6. ASSUME NEW i \in 1..k, NEW r \in S, Before(order, r, longer[i])
      PROVE \E j \in 1..i : r = longer[j]
  <2>1. CASE i = k
    <3>1. PICK j \in 1..(k - 1) : r = rows[j]
      BY <1>3, <1>4, <1>6, <2>1
    <3> QED
      BY <1>4, <2>1, <3>1
  <2>2. CASE i # k
    <3>1. i \in 1..(k - 1)
      BY <2>2
    <3>2. PICK j \in 1..i : r = rows[j]
      BY <1>4, <1>6, <3>1, Zenon DEF Leading
    <3> QED
      BY <1>4, <3>1, <3>2
  <2> QED
    BY <2>1, <2>2
<1> QED
  BY <1>4, <1>5, <1>6, Zenon DEF Leading, longer

(* Rows that lead and are as many as the least bound lets through, or all. *)
LEMMA LeadingIsFirst ==
  ASSUME NEW S, IsFiniteSet(S), NEW order, NEW n \in Nat, NEW rows,
         Leading(rows, S, order, Min({n, Cardinality(S)})),
         NEW bounds, n \in bounds, \A m \in bounds : m \in Nat /\ n <= m
  PROVE FirstOf(rows, S, order, bounds)
<1> DEFINE k == Min({n, Cardinality(S)})
           size == Cardinality(S)
<1>0. k \in Nat /\ k <= n /\ (k = n \/ k = size)
  <2>1. size \in Nat
    BY FS_CardinalityType
  <2>2. k = IF n <= size THEN n ELSE size
    BY <2>1, TwoNumbers
  <2> QED
    BY <2>1, <2>2
<1> HIDE DEF k
<1>1. /\ rows \in Seq(S) /\ Len(rows) = k
      /\ \A i, j \in 1..k : i < j => rows[i] # rows[j]
      /\ \A i \in 1..k, r \in S : Before(order, r, rows[i]) => \E j \in 1..i : r = rows[j]
  BY Zenon DEF Leading, k
<1>2. DOMAIN rows = 1..k /\ ToSet(rows) = {rows[i] : i \in 1..k} /\ \A i \in 1..k : rows[i] \in S
  BY <1>1 DEF ToSet
<1>3. IsInjective(rows)
  <2>1. ASSUME NEW i \in 1..k, NEW j \in 1..k, rows[i] = rows[j] PROVE i = j
    <3>1. ~ (i < j) /\ ~ (j < i)
      BY <1>1, <2>1
    <3> QED
      BY <3>1
  <2> QED
    BY <1>2, <2>1, Zenon DEF IsInjective
<1>4. ToSet(rows) \subseteq S
  BY <1>2
<1>5. ASSUME NEW i \in 1..k, NEW j \in 1..k, i < j PROVE ~ Before(order, rows[j], rows[i])
  <2>1. SUFFICES ASSUME Before(order, rows[j], rows[i]) PROVE FALSE
    OBVIOUS
  <2>2. PICK x \in 1..i : rows[j] = rows[x]
    BY <1>1, <1>2, <2>1
  <2>3. x \in 1..k /\ x < j
    BY <1>0, <1>5, <2>2
  <2> QED
    BY <1>1, <2>2, <2>3
<1>6. ASSUME NEW r \in S \ ToSet(rows), NEW i \in 1..k PROVE ~ Before(order, r, rows[i])
  <2>1. SUFFICES ASSUME Before(order, r, rows[i]) PROVE FALSE
    OBVIOUS
  <2>2. PICK x \in 1..i : r = rows[x]
    BY <1>1, <2>1
  <2>3. x \in 1..k
    BY <1>0, <2>2
  <2> QED
    BY <1>2, <2>2, <2>3
<1>7. \A m \in bounds : Len(rows) <= m
  BY <1>0, <1>1
<1>8. S \subseteq ToSet(rows) \/ Len(rows) \in bounds
  <2>1. CASE k = n
    BY <1>1, <2>1
  <2>2. CASE k = size
    <3>1. rows \in Injection(1..k, S)
      BY <1>1, <1>2, <1>3 DEF Injection
    <3>2. IsFiniteSet(1..k) /\ Cardinality(1..k) = size
      BY <1>0, <2>2, FS_Interval
    <3>3. rows \in Surjection(1..k, S)
      BY <3>1, <3>2, FS_Injection
    <3> QED
      BY <1>2, <3>3 DEF Surjection
  <2> QED
    BY <1>0, <2>1, <2>2
<1> QED
  BY <1>2, <1>3, <1>4, <1>5, <1>6, <1>7, <1>8, Zenon DEF FirstOf

(* The lists of the first k rows, for each k up to n, made from the shorter ones. *)
Lists(S, order, n, first) ==
  [k \in 0..n |->
     IF k = 0 THEN {<<>>}
     ELSE UNION {{Append(some, row) : row \in Coming(S, order, some)} : some \in first[k - 1]}]

LEMMA ExecuteByRow ==
  ASSUME NEW relation, NEW where, NEW params, NEW order, NEW limit \in Nat,
         IsFiniteSet(Tables[relation])
  PROVE LET selected == Selected(relation, where, params)
            n == Min({limit, Cardinality(selected)})
        IN /\ IsFiniteSet(selected) /\ Cardinality(selected) \in Nat
           /\ n \in Nat /\ n <= Cardinality(selected)
           /\ \E first : /\ first = Lists(selected, order, n, first)
                         /\ Execute(relation, where, params, order, limit) = first[n]
<1> DEFINE selected == Selected(relation, where, params)
           n == Min({limit, Cardinality(selected)})
<1>1. IsFiniteSet(selected) /\ Cardinality(selected) \in Nat
  <2>1. IsFiniteSet(selected)
    BY FS_Subset DEF Selected
  <2> QED
    BY <2>1, FS_CardinalityType
<1>2. n \in Nat /\ n <= Cardinality(selected)
  <2> HIDE DEF selected
  <2>1. n = IF limit <= Cardinality(selected) THEN limit ELSE Cardinality(selected)
    BY <1>1, TwoNumbers
  <2> HIDE DEF n
  <2> QED
    BY <1>1, <2>1
<1> DEFINE first == CHOOSE g : g = Lists(selected, order, n, g)
<1>3. Execute(relation, where, params, order, limit) = first[n]
  BY Zenon DEF Execute, Coming, Lists
<1> DEFINE V == SUBSET Seq(selected)
           empty == {<<>>}
           longer(some) == {Append(some, row) : row \in Coming(selected, order, some)}
           step == [k \in 1..n |-> [all \in V |-> UNION {longer(some) : some \in all}]]
<1>4. \A k \in 1..n, all \in V : step[k][all] = UNION {longer(some) : some \in all}
  OBVIOUS
<1>5. step \in Steps(V, n)
  <2>1. \A some \in Seq(selected) : longer(some) \subseteq Seq(selected)
    BY DEF Coming
  <2> HIDE DEF longer
  <2>2. \A all \in V : UNION {longer(some) : some \in all} \in V
    BY <2>1
  <2> HIDE DEF V
  <2> QED
    BY <2>2 DEF Steps
<1>6. empty \in V
  OBVIOUS
<1> HIDE DEF selected, n, V, first, step, empty
<1>7. PICK g \in Iterations(V, empty, n, step) : TRUE
  BY <1>2, <1>5, <1>6, Recursion, Zenon
<1>8. g \in [0..n -> V] /\ g[0] = empty /\ \A k \in 1..n : g[k] = step[k][g[k - 1]]
  BY DEF Iterations
<1>9. g = Lists(selected, order, n, g)
  <2>1. ASSUME NEW k \in 1..n PROVE g[k] = UNION {longer(some) : some \in g[k - 1]}
    <3>1. k - 1 \in 0..n
      BY <1>2
    <3>2. g[k - 1] \in V
      BY <1>8, <3>1
    <3> QED
      BY <1>4, <1>8, <3>2, Zenon
  <2>2. ASSUME NEW k \in 0..n PROVE g[k] = Lists(selected, order, n, g)[k]
    <3>1. CASE k = 0
      BY <1>8, <3>1 DEF Lists, empty
    <3>2. CASE k # 0
      <4>1. k \in 1..n
        BY <3>2
      <4> QED
        BY <2>1, <3>2, <4>1 DEF Lists
    <3> QED
      BY <3>1, <3>2
  <2> QED
    BY <1>8, <2>2 DEF Lists
<1>10. first = Lists(selected, order, n, first)
  BY <1>9, Zenon DEF first
<1> QED
  BY <1>1, <1>2, <1>3, <1>10, Zenon DEF selected, n

(* Every list of k rows made this way leads, and a longer one is made of it. *)
LEMMA ListsLead ==
  ASSUME NEW selected, NEW order, NEW n \in Nat, NEW first, first = Lists(selected, order, n, first)
  PROVE /\ first[0] = {<<>>}
        /\ \A k \in 1..n : first[k] =
              UNION {{Append(some, row) : row \in Coming(selected, order, some)} : some \in first[k - 1]}
        /\ \A k \in 0..n : \A some \in first[k] : Leading(some, selected, order, k)
<1>1. first[0] = {<<>>}
  BY DEF Lists
<1>2. \A k \in 1..n : first[k] =
        UNION {{Append(some, row) : row \in Coming(selected, order, some)} : some \in first[k - 1]}
  <2>1. ASSUME NEW k \in 1..n
        PROVE first[k] = UNION {{Append(some, row) : row \in Coming(selected, order, some)} : some \in first[k - 1]}
    <3>1. k \in 0..n /\ k # 0
      OBVIOUS
    <3>2. first[k] = Lists(selected, order, n, first)[k]
      OBVIOUS
    <3> QED
      BY <3>1, <3>2, Zenon DEF Lists
  <2> QED
    BY <2>1
<1> DEFINE S == {k \in 0..n : \A some \in first[k] : Leading(some, selected, order, k)}
<1>3. 0 \in S
  <2>1. Leading(<<>>, selected, order, 0)
    BY DEF Leading
  <2> QED
    BY <1>1, <2>1
<1>4. ASSUME NEW k \in 1..n, k - 1 \in S PROVE k \in S
  <2>1. ASSUME NEW some \in first[k] PROVE Leading(some, selected, order, k)
    <3>1. PICK shorter \in first[k - 1] : some \in {Append(shorter, row) : row \in Coming(selected, order, shorter)}
      BY <1>2
    <3>2. PICK row \in Coming(selected, order, shorter) : some = Append(shorter, row)
      BY <3>1
    <3>3. Leading(shorter, selected, order, k - 1)
      BY <1>4, <3>1
    <3> QED
      BY <3>2, <3>3, OneMoreRow
  <2> QED
    BY <2>1
<1> HIDE DEF S
<1>5. 0..n \subseteq S
  BY <1>3, <1>4, Induction
<1> QED
  BY <1>1, <1>2, <1>5, Zenon DEF S

(* What a query returns are the first of the rows that all its clauses hold  *)
(* of, as many as the limit lets through, whichever order ties come in.      *)
LEMMA QueriesReturnTheFirst ==
  ASSUME NEW relation, NEW where, NEW params, NEW order, NEW limit \in Nat,
         IsFiniteSet(Tables[relation]), NEW rows \in Execute(relation, where, params, order, limit),
         NEW bounds, limit \in bounds, \A m \in bounds : m \in Nat /\ limit <= m
  PROVE FirstOf(rows, Selected(relation, where, params), order, bounds)
<1> DEFINE selected == Selected(relation, where, params)
           n == Min({limit, Cardinality(selected)})
<1>1. /\ n \in Nat /\ IsFiniteSet(selected)
      /\ \E first : /\ first = Lists(selected, order, n, first)
                    /\ Execute(relation, where, params, order, limit) = first[n]
  BY ExecuteByRow
<1> HIDE DEF selected, n
<1>2. PICK first : /\ first = Lists(selected, order, n, first)
                   /\ Execute(relation, where, params, order, limit) = first[n]
  BY <1>1
<1>3. \A k \in 0..n : \A some \in first[k] : Leading(some, selected, order, k)
  BY <1>1, <1>2, ListsLead, Zenon
<1>4. Leading(rows, selected, order, n)
  BY <1>1, <1>2, <1>3
<1>5. FirstOf(rows, selected, order, bounds)
  BY <1>1, <1>4, LeadingIsFirst DEF n
<1> QED
  BY <1>5 DEF selected

-----------------------------------------------------------------------------
(* Filters. *)

(* build_screen makes a clause of exactly the filters documented, and of those *)
(* whose numbers are written as strings.                                       *)
LEMMA ClausesOfFilters ==
  ASSUME NEW f, IsValue(f.value)
  PROVE ScreenClause(f).ok <=> IsFilter(f, {"num", "numstr"})
<1> DEFINE field == Lower(f.field)
           op == Lower(f.op)
           v == f.value
<1>1. \A fld, o, n, w : Clause(fld, o, n, w).ok = TRUE
  BY DEF Clause
<1>2. Rejected.ok = FALSE
  BY DEF Rejected
<1> HIDE DEF field, op, v
<1>3. v.kind = "arr" /\ Len(v.items) = 2 =>
        (IsNum(v.items[1]) /\ IsNum(v.items[2]) <=> \A x \in ToSet(v.items) : IsNum(x))
  <2>1. v.kind = "arr" => DOMAIN v.items = 1..Len(v.items)
    BY DEF v, IsValue, IsSeq
  <2> QED
    BY <2>1 DEF ToSet
<1>4. NumericClause(field, op, v).ok <=>
        IF op = "between"
        THEN v.kind = "arr" /\ Len(v.items) = 2 /\ \A x \in ToSet(v.items) : IsNum(x)
        ELSE op \in {"=", "!=", "<", "<=", ">", ">="} /\ IsNum(v)
  BY <1>1, <1>2, <1>3 DEF NumericClause
<1>5. TextClause(field, op, v).ok <=>
        \/ op = "=" /\ IsText(v)
        \/ /\ op = "in" /\ v.kind = "arr" /\ v.items # <<>>
           /\ \A x \in ToSet(v.items) : IsText(x)
  BY <1>1, <1>2 DEF TextClause
<1>6. ScreenClause(f) = IF field \in NumFields THEN NumericClause(field, op, v)
                        ELSE IF field \in TextFields THEN TextClause(field, op, v)
                        ELSE Rejected
  BY DEF ScreenClause, field, op, v
<1>7. IsFilter(f, {"num", "numstr"}) <=>
        \/ /\ field \in NumFields
           /\ IF op = "between"
              THEN v.kind = "arr" /\ Len(v.items) = 2 /\ \A x \in ToSet(v.items) : IsNum(x)
              ELSE op \in {"=", "!=", "<", "<=", ">", ">="} /\ IsNum(v)
        \/ /\ field \in TextFields
           /\ \/ op = "=" /\ IsText(v)
              \/ /\ op = "in" /\ v.kind = "arr" /\ v.items # <<>>
                 /\ \A x \in ToSet(v.items) : IsText(x)
  BY Zenon DEF IsFilter, IsNum, IsText, field, op, v
<1> QED
  BY <1>2, <1>4, <1>5, <1>6, <1>7

(* A filter build_screen accepts becomes a clause that holds, with its        *)
(* parameters, of exactly the rows the filter describes, NULLs included.      *)
THEOREM FiltersMeanWhatTheySay ==
  ASSUME NEW f, IsValue(f.value), ScreenClause(f).ok,
         NEW row, Lower(f.field) \in NumFields => row[Lower(f.field)] \in Int \cup {Null}
  PROVE Holds(row, ScreenClause(f).clause, ScreenClause(f).params) <=> Passes(row, f)
<1> DEFINE field == Lower(f.field)
           op == Lower(f.op)
           v == f.value
           x == row[field]
<1>1. ~ Rejected.ok
  BY DEF Rejected
<1>2. \A fld, o, n, w : /\ Clause(fld, o, n, w).clause = Hole(fld, o, n)
                        /\ Clause(fld, o, n, w).params = w
  BY DEF Clause
<1>3. \A o, n, w : o # "like" => (Holds(row, Hole(field, o, n), w) <=> Compare(x, o, w))
  BY DEF Holds, Hole
<1> HIDE DEF field, op, v, x
<1>4. CASE field \in NumFields
  <2>1. field \notin TextFields
    BY <1>4
  <2>2. x \in Int \cup {Null}
    BY <1>4 DEF field, x
  <2>3. ScreenClause(f) = NumericClause(field, op, v)
    BY <1>4 DEF ScreenClause, field, op, v
  <2>4. Passes(row, f) <=>
          /\ x # Null
          /\ CASE op = "between" -> v.items[1].n <= x /\ x <= v.items[2].n
               [] op = "="  -> x = v.n  [] op = "!=" -> x # v.n
               [] op = "<"  -> x < v.n  [] op = "<=" -> x <= v.n
               [] op = ">"  -> x > v.n  [] op = ">=" -> x >= v.n
    BY <2>1 DEF Passes, field, op, v, x
  <2>5. CASE op \in {"=", "!=", "<", "<=", ">", ">="} /\ IsNum(v)
    <3>1. v.n \in Int
      BY <2>5 DEF IsValue, IsScalar, v
    <3>2. ScreenClause(f) = Clause(field, op, 1, <<v.n>>)
      BY <2>3, <2>5 DEF NumericClause
    <3>3. Holds(row, ScreenClause(f).clause, ScreenClause(f).params) <=> Compare(x, op, <<v.n>>)
      BY <1>2, <1>3, <2>5, <3>2
    <3> QED
      BY <2>2, <2>4, <2>5, <3>1, <3>3 DEF Compare
  <2>6. CASE /\ op = "between" /\ v.kind = "arr" /\ Len(v.items) = 2
             /\ IsNum(v.items[1]) /\ IsNum(v.items[2])
    <3>1. v.items[1].n \in Int /\ v.items[2].n \in Int
      BY <2>6 DEF IsValue, IsScalar, v, ToSet
    <3>2. ScreenClause(f) = Clause(field, op, 2, <<v.items[1].n, v.items[2].n>>)
      BY <2>3, <2>6 DEF NumericClause
    <3>3. Holds(row, ScreenClause(f).clause, ScreenClause(f).params) <=>
            Compare(x, op, <<v.items[1].n, v.items[2].n>>)
      BY <1>2, <1>3, <2>6, <3>2
    <3> QED
      BY <2>2, <2>4, <2>6, <3>1, <3>3 DEF Compare
  <2> QED
    BY <1>1, <2>3, <2>5, <2>6 DEF NumericClause
<1>5. CASE field \notin NumFields /\ field \in TextFields
  <2>1. ScreenClause(f) = TextClause(field, op, v)
    BY <1>5 DEF ScreenClause, field, op, v
  <2>2. Passes(row, f) <=> x \in {w.text : w \in IF op = "in" THEN ToSet(v.items) ELSE {v}}
    BY <1>5 DEF Passes, field, op, v, x
  <2>3. CASE op = "=" /\ IsText(v)
    <3>1. v.text # Null
      BY <2>3 DEF IsValue, IsScalar, v
    <3>2. ScreenClause(f) = Clause(field, "is", 1, <<v.text>>)
      BY <2>1, <2>3 DEF TextClause
    <3>3. Holds(row, ScreenClause(f).clause, ScreenClause(f).params) <=> Compare(x, "is", <<v.text>>)
      BY <1>2, <1>3, <3>2
    <3>4. Compare(x, "is", <<v.text>>) <=> x # Null /\ x = v.text
      BY DEF Compare
    <3> QED
      BY <2>2, <2>3, <3>1, <3>3, <3>4
  <2>4. CASE op = "in" /\ v.kind = "arr" /\ v.items # <<>> /\ \A w \in ToSet(v.items) : IsText(w)
    <3> DEFINE texts == [i \in DOMAIN v.items |-> v.items[i].text]
    <3>1. \A w \in ToSet(v.items) : w.text # Null
      BY <2>4 DEF IsValue, IsScalar, v
    <3>2. ScreenClause(f) = Clause(field, "in", Len(v.items), texts)
      BY <2>1, <2>4 DEF TextClause
    <3>3. Holds(row, ScreenClause(f).clause, ScreenClause(f).params) <=> Compare(x, "in", texts)
      BY <1>2, <1>3, <3>2
    <3>4. ToSet(texts) = {w.text : w \in ToSet(v.items)}
      BY DEF ToSet
    <3> HIDE DEF texts
    <3>5. Compare(x, "in", texts) <=> x # Null /\ x \in ToSet(texts)
      BY DEF Compare
    <3> QED
      BY <2>2, <2>4, <3>1, <3>3, <3>4, <3>5
  <2> QED
    BY <1>1, <2>1, <2>3, <2>4 DEF TextClause
<1>6. CASE field \notin NumFields \cup TextFields
  BY <1>1, <1>6 DEF ScreenClause, field
<1> QED
  BY <1>4, <1>5, <1>6

-----------------------------------------------------------------------------
(* Date ranges. *)

Number(s) == 10000 * Year(s) + 100 * Month(s) + Day(s)
OnItsSide(row, op, s) ==
  row.date # Null /\ IF op = ">=" THEN row.date >= Number(s) ELSE row.date <= Number(s)

(* A clause with its value inlined, and a sequence of those. *)
IsInlined(clauses) == IsSeq(clauses) /\ \A i \in 1..Len(clauses) : clauses[i].holes = 0
AllKeep(row, clauses) == \A i \in 1..Len(clauses) : Holds(row, clauses[i], clauses[i].inline)

(* An end that is given becomes one clause that bounds the row's date. *)
LEMMA EndsOfRanges ==
  ASSUME NEW date, IsOptional(date), NEW op \in {">=", "<="}, NEW row
  PROVE /\ IsInlined(DateClause(op, date))
        /\ AllKeep(row, DateClause(op, date)) <=> \A s \in ToSet(date) : OnItsSide(row, op, s)
<1>1. CASE date = <<>>
  <2>1. DateClause(op, date) = <<>> /\ ToSet(date) = {}
    BY <1>1 DEF ToSet, DateClause
  <2> QED
    BY <2>1 DEF IsInlined, IsSeq, AllKeep
<1>2. CASE date # <<>>
  <2> DEFINE s == date[1]
             n == Number(s)
             clause == [field |-> "date", op |-> op, holes |-> 0, inline |-> <<n>>]
  <2>1. ToSet(date) = {s}
    <3>1. date = <<s>>
      BY <1>2 DEF IsOptional
    <3> QED
      BY <3>1 DEF ToSet
  <2>2. DateClause(op, date) = <<clause>>
    BY <1>2 DEF DateClause, Number
  <2>3. clause.field = "date" /\ clause.op = op /\ clause.inline[1] = n /\ clause.holes = 0
    OBVIOUS
  <2> HIDE DEF clause, n, s
  <2>4. Holds(row, clause, clause.inline) <=> Compare(row.date, op, clause.inline)
    BY <2>3 DEF Holds
  <2>5. Compare(row.date, op, clause.inline) <=>
          row.date # Null /\ IF op = ">=" THEN row.date >= n ELSE row.date <= n
    BY <2>3 DEF Compare
  <2>6. OnItsSide(row, op, s) <=>
          row.date # Null /\ IF op = ">=" THEN row.date >= n ELSE row.date <= n
    BY Zenon DEF OnItsSide, n
  <2>7. AllKeep(row, <<clause>>) <=> Holds(row, clause, clause.inline)
    BY DEF AllKeep
  <2>8. IsInlined(<<clause>>)
    BY <2>3 DEF IsInlined, IsSeq
  <2>9. AllKeep(row, DateClause(op, date)) <=> \A t \in ToSet(date) : OnItsSide(row, op, t)
    BY <2>1, <2>2, <2>4, <2>5, <2>6, <2>7, Zenon
  <2> QED
    BY <2>2, <2>8, <2>9, Zenon
<1> QED
  BY <1>1, <1>2

LEMMA Joined ==
  ASSUME NEW a, NEW b, IsSeq(a), IsSeq(b)
  PROVE /\ IsSeq(a \o b) /\ Len(a \o b) = Len(a) + Len(b)
        /\ \A i \in 1..Len(a) : (a \o b)[i] = a[i]
        /\ \A i \in 1..Len(b) : (a \o b)[Len(a) + i] = b[i]
<1> DEFINE S == {a[i] : i \in 1..Len(a)} \cup {b[i] : i \in 1..Len(b)}
<1>1. a \in Seq(S) /\ b \in Seq(S)
  <2>1. /\ \A i \in 1..Len(a) : a[i] \in S
        /\ \A i \in 1..Len(b) : b[i] \in S
    OBVIOUS
  <2> HIDE DEF S
  <2> QED
    BY <2>1, FunctionIsSeq DEF IsSeq
<1> HIDE DEF S
<1>2. a \o b \in Seq(S) /\ Len(a \o b) = Len(a) + Len(b)
  BY <1>1
<1>3. \A s \in Seq(S) : IsSeq(s)
  BY DEF IsSeq
<1>4. /\ \A i \in 1..Len(a) : (a \o b)[i] = a[i]
      /\ \A i \in 1..Len(b) : (a \o b)[Len(a) + i] = b[i]
  BY <1>1
<1> QED
  BY <1>2, <1>3, <1>4, Zenon

LEMMA JoinedClauses ==
  ASSUME NEW a, NEW b, IsInlined(a), IsInlined(b), NEW row
  PROVE IsInlined(a \o b) /\ (AllKeep(row, a \o b) <=> AllKeep(row, a) /\ AllKeep(row, b))
<1> DEFINE both == a \o b
<1>1. /\ IsSeq(both) /\ Len(both) = Len(a) + Len(b) /\ Len(a) \in Nat /\ Len(b) \in Nat
      /\ \A i \in 1..Len(a) : both[i] = a[i]
      /\ \A i \in 1..Len(b) : both[Len(a) + i] = b[i]
  <2>1. IsSeq(a) /\ IsSeq(b) /\ Len(a) \in Nat /\ Len(b) \in Nat
    BY DEF IsInlined, IsSeq
  <2> QED
    BY <2>1, Joined
<1> HIDE DEF both
<1>2. \A i \in 1..Len(both) :
        i \in 1..Len(a) \/ (i - Len(a) \in 1..Len(b) /\ i = Len(a) + (i - Len(a)))
  BY <1>1
<1>3. \A i \in 1..Len(a) : i \in 1..Len(both)
  BY <1>1
<1>4. \A i \in 1..Len(b) : Len(a) + i \in 1..Len(both)
  BY <1>1
<1>5. IsInlined(both)
  <2>1. ASSUME NEW i \in 1..Len(both) PROVE both[i].holes = 0
    <3>1. CASE i \in 1..Len(a)
      BY <1>1, <3>1, Zenon DEF IsInlined
    <3>2. CASE i - Len(a) \in 1..Len(b) /\ i = Len(a) + (i - Len(a))
      BY <1>1, <3>2, Zenon DEF IsInlined
    <3> QED
      BY <1>2, <3>1, <3>2, Zenon
  <2> QED
    BY <1>1, <2>1, Zenon DEF IsInlined
<1>6. ASSUME AllKeep(row, both) PROVE AllKeep(row, a) /\ AllKeep(row, b)
  BY <1>1, <1>3, <1>4, <1>6, Zenon DEF AllKeep
<1>7. ASSUME AllKeep(row, a), AllKeep(row, b), NEW i \in 1..Len(both)
      PROVE Holds(row, both[i], both[i].inline)
  <2>1. CASE i \in 1..Len(a)
    BY <1>1, <1>7, <2>1, Zenon DEF AllKeep
  <2>2. CASE i - Len(a) \in 1..Len(b) /\ i = Len(a) + (i - Len(a))
    BY <1>1, <1>7, <2>2, Zenon DEF AllKeep
  <2> QED
    BY <1>2, <2>1, <2>2, Zenon
<1>8. AllKeep(row, both) <=> AllKeep(row, a) /\ AllKeep(row, b)
  BY <1>6, <1>7, Zenon DEF AllKeep
<1> QED
  BY <1>5, <1>8, Zenon DEF both

(* push_date_range's clauses, with the dates inlined, hold of exactly the     *)
(* rows between the dates; an end that is not given is open, and a row        *)
(* without a date is in no range that has an end.                             *)
THEOREM DateRangesMeanWhatTheySay ==
  ASSUME NEW req, IsOptional(req.from), IsOptional(req.to), NEW row
  PROVE /\ IsInlined(DateRange(req))
        /\ (\A i \in 1..Len(DateRange(req)) :
              Holds(row, DateRange(req)[i], DateRange(req)[i].inline)) <=> InRange(row, req)
<1>1. /\ IsInlined(DateClause(">=", req.from))
      /\ AllKeep(row, DateClause(">=", req.from)) <=> \A s \in ToSet(req.from) : OnItsSide(row, ">=", s)
  BY EndsOfRanges
<1>2. /\ IsInlined(DateClause("<=", req.to))
      /\ AllKeep(row, DateClause("<=", req.to)) <=> \A s \in ToSet(req.to) : OnItsSide(row, "<=", s)
  BY EndsOfRanges
<1>3. /\ IsInlined(DateRange(req))
      /\ AllKeep(row, DateRange(req)) <=>
           AllKeep(row, DateClause(">=", req.from)) /\ AllKeep(row, DateClause("<=", req.to))
  BY <1>1, <1>2, JoinedClauses, Zenon DEF DateRange
<1>4. InRange(row, req) <=>
        /\ \A s \in ToSet(req.from) : OnItsSide(row, ">=", s)
        /\ \A s \in ToSet(req.to) : OnItsSide(row, "<=", s)
  <2>1. InRange(row, req) <=>
          /\ \A s \in ToSet(req.from) : row.date # Null /\ row.date >= Number(s)
          /\ \A s \in ToSet(req.to) : row.date # Null /\ row.date <= Number(s)
    BY DEF InRange, Number
  <2>2. \A s : /\ OnItsSide(row, ">=", s) <=> row.date # Null /\ row.date >= Number(s)
               /\ OnItsSide(row, "<=", s) <=> row.date # Null /\ row.date <= Number(s)
    BY DEF OnItsSide
  <2> QED
    BY <2>1, <2>2, Zenon
<1> QED
  BY <1>1, <1>2, <1>3, <1>4, Zenon DEF AllKeep

-----------------------------------------------------------------------------
(* Parameters. *)

LEMMA NothingFlattened == FlattenSeq(<<>>) = <<>>
BY DEF FlattenSeq

LEMMA SubSeqIsPiece ==
  ASSUME NEW T, NEW s \in Seq(T), NEW before \in Nat, NEW piece \in Seq(T), IsPiece(s, before, piece)
  PROVE SubSeq(s, 1 + before, (1 + before) + Len(piece) - 1) = piece
<1> DEFINE m == 1 + before
           n == m + Len(piece) - 1
           sub == SubSeq(s, m, n)
<1>1. n = before + Len(piece) /\ n <= Len(s) /\ m \in Nat \ {0}
  BY DEF IsPiece
<1>2. sub \in Seq(T) /\ Len(sub) = Len(piece) /\ \A j \in 1..Len(piece) : sub[j] = s[before + j]
  BY <1>1
<1>3. \A j \in 1..Len(piece) : sub[j] = piece[j]
  BY <1>2 DEF IsPiece
<1> HIDE DEF sub
<1> QED
  BY <1>2, <1>3, SMTT(30)

(* The holes of a clause come after those of the clauses before it. *)
LEMMA NoHoleBefore ==
  ASSUME NEW where
  PROVE FirstHole(where, 1) = 1
<1>1. [k \in 1..(1 - 1) |-> [hole \in 1..where[k].holes |-> k]] = <<>>
  OBVIOUS
<1>2. FlattenSeq([k \in 1..(1 - 1) |-> [hole \in 1..where[k].holes |-> k]]) = <<>>
  BY <1>1, NothingFlattened, Zenon
<1>3. FirstHole(where, 1) = 1 + Len(<<>>)
  BY <1>2, Zenon DEF FirstHole
<1> QED
  BY <1>3

LEMMA HolesAdd ==
  ASSUME NEW where, NEW n \in Nat, \A k \in 1..n : where[k].holes \in Nat, NEW i \in 1..n
  PROVE /\ FirstHole(where, i) \in Nat
        /\ FirstHole(where, i + 1) = FirstHole(where, i) + where[i].holes
<1> DEFINE owners == [k \in 1..n |-> [hole \in 1..where[k].holes |-> k]]
<1>1. \A k \in 1..n : owners[k] \in Seq(1..n) /\ Len(owners[k]) = where[k].holes
  <2>1. ASSUME NEW k \in 1..n PROVE owners[k] \in Seq(1..n) /\ Len(owners[k]) = where[k].holes
    <3> DEFINE h == where[k].holes
               own == [hole \in 1..h |-> k]
    <3>0. h \in Nat
      OBVIOUS
    <3>1. own \in Seq(1..n) /\ Len(own) = h
      <4> HIDE DEF h
      <4> QED
        BY <3>0
    <3>2. owners[k] = own
      OBVIOUS
    <3> QED
      BY <3>1, <3>2, Zenon
  <2> QED
    BY <2>1
<1>2. owners = [k \in 1..n |-> owners[k]]
  OBVIOUS
<1>3. \A m \in 0..n : FirstHole(where, m + 1) = 1 + Len(FlattenSeq([k \in 1..m |-> owners[k]]))
  <2>1. ASSUME NEW m \in 0..n
        PROVE FirstHole(where, m + 1) = 1 + Len(FlattenSeq([k \in 1..m |-> owners[k]]))
    <3>1. (m + 1) - 1 = m
      OBVIOUS
    <3>2. [k \in 1..m |-> [hole \in 1..where[k].holes |-> k]] = [k \in 1..m |-> owners[k]]
      OBVIOUS
    <3>3. FirstHole(where, m + 1)
            = 1 + Len(FlattenSeq([k \in 1..m |-> [hole \in 1..where[k].holes |-> k]]))
      BY <3>1, Zenon DEF FirstHole
    <3> QED
      BY <3>2, <3>3, Zenon
  <2> QED
    BY <2>1
<1> HIDE DEF owners
<1>4. owners \in Seq(Seq(1..n)) /\ Len(owners) = n
  <2> DEFINE V == Seq(1..n)
  <2>1. \A k \in 1..n : owners[k] \in V
    BY <1>1
  <2> HIDE DEF V
  <2>2. owners \in Seq(V) /\ Len(owners) = n
    BY <1>2, <2>1, FunctionIsSeq
  <2> QED
    BY <2>2 DEF V
<1>5. PICK holes \in Runs(1..n, owners) : TRUE
  BY <1>4, FlattenedRun
<1>6. \A m \in 0..n : FirstHole(where, m + 1) = 1 + Len(holes[m])
  <2>1. ASSUME NEW m \in 0..n PROVE FirstHole(where, m + 1) = 1 + Len(holes[m])
    <3>1. FlattenSeq([k \in 1..m |-> owners[k]]) = holes[m]
      BY <1>4, FlattenOfFirst
    <3> QED
      BY <1>3, <3>1
  <2> QED
    BY <2>1
<1>7. /\ i \in 0..n /\ i - 1 \in 0..n /\ (i - 1) + 1 = i
  OBVIOUS
<1>8. FirstHole(where, i + 1) = 1 + Len(holes[i]) /\ FirstHole(where, i) = 1 + Len(holes[i - 1])
  BY <1>6, <1>7
<1>9. Len(holes[i]) = Len(holes[i - 1]) + Len(owners[i])
  <2>1. i \in 1..Len(owners)
    BY <1>4
  <2> QED
    BY <1>4, <2>1, PiecesInRun, Zenon
<1>10. Len(holes[i - 1]) \in Nat /\ Len(owners[i]) = where[i].holes /\ where[i].holes \in Nat
  <2>1. holes[i - 1] \in Seq(1..n)
    BY <1>4, <1>7 DEF Runs
  <2> QED
    BY <1>1, <2>1
<1>11. FirstHole(where, i + 1) = 1 + (Len(holes[i - 1]) + where[i].holes)
  BY <1>8, <1>9, <1>10, Zenon
<1>12. \A before, own \in Nat : 1 + before \in Nat /\ 1 + (before + own) = (1 + before) + own
  OBVIOUS
<1>13. /\ 1 + Len(holes[i - 1]) \in Nat
       /\ 1 + (Len(holes[i - 1]) + where[i].holes) = (1 + Len(holes[i - 1])) + where[i].holes
  BY <1>10, <1>12, Zenon
<1> QED
  BY <1>8, <1>11, <1>13, Zenon

(* Clauses without holes add none. *)
LEMMA NoMoreHoles ==
  ASSUME NEW where, NEW n \in Nat, NEW m \in 0..n, \A k \in 1..n : where[k].holes \in Nat,
         \A k \in (m + 1)..n : where[k].holes = 0
  PROVE FirstHole(where, n + 1) = FirstHole(where, m + 1)
<1> DEFINE S == {k \in 0..n : k < m \/ FirstHole(where, k + 1) = FirstHole(where, m + 1)}
<1>1. 0 \in S
  OBVIOUS
<1>2. ASSUME NEW k \in 1..n, k - 1 \in S PROVE k \in S
  <2>1. CASE k <= m
    BY <2>1
  <2>2. CASE k > m
    <3>1. FirstHole(where, (k - 1) + 1) = FirstHole(where, m + 1) /\ (k - 1) + 1 = k
      BY <1>2, <2>2
    <3>2. FirstHole(where, k) = FirstHole(where, m + 1)
      BY <3>1
    <3>3. FirstHole(where, k + 1) = FirstHole(where, k) + where[k].holes /\ FirstHole(where, k) \in Nat
      BY HolesAdd
    <3>4. where[k].holes = 0
      BY <2>2
    <3>5. FirstHole(where, k + 1) = FirstHole(where, m + 1)
      BY <3>2, <3>3, <3>4
    <3> QED
      BY <3>5
  <2> QED
    BY <2>1, <2>2
<1> HIDE DEF S
<1>3. 0..n \subseteq S
  BY <1>1, <1>2, Induction
<1>4. n \in S /\ ~ (n < m)
  BY <1>3
<1> QED
  BY <1>4 DEF S

(* The parameters of some clauses, one after another, and their holes: there *)
(* are as many of either, and each clause takes its own.                     *)
THEOREM ParametersFindTheirHoles ==
  ASSUME NEW T, NEW params \in Seq(Seq(T)), NEW where,
         \A k \in 1..Len(params) : where[k].holes = Len(params[k]) /\ params[k] # <<>>
  PROVE /\ FirstHole(where, Len(params) + 1) = Len(FlattenSeq(params)) + 1
        /\ \A i \in 1..Len(params) : Args(where, FlattenSeq(params), i) = params[i]
<1> DEFINE n == Len(params)
<1>1. n \in Nat /\ \A k \in 1..n : params[k] \in Seq(T) /\ where[k].holes \in Nat
  OBVIOUS
<1>2. PICK run \in Runs(T, params) : TRUE
  BY FlattenedRun
<1>3. \A k \in 0..n : run[k] \in Seq(T) /\ Len(run[k]) \in Nat
  BY SMTT(30) DEF Runs
<1>4. run[0] = <<>>
  BY DEF Runs
<1>5. \A k \in 1..n : Len(run[k]) = Len(run[k - 1]) + Len(params[k])
  BY PiecesInRun, Zenon
<1> DEFINE S == {k \in 0..n : FirstHole(where, k + 1) = 1 + Len(run[k])}
<1>6. 0 \in S
  <2>1. FirstHole(where, 0 + 1) = 1 + Len(run[0])
    BY <1>4, NoHoleBefore
  <2> QED
    BY <1>1, <2>1
<1>7. ASSUME NEW k \in 1..n, k - 1 \in S PROVE k \in S
  <2>1. FirstHole(where, (k - 1) + 1) = 1 + Len(run[k - 1]) /\ (k - 1) + 1 = k
    BY <1>7
  <2>2. FirstHole(where, k + 1) = FirstHole(where, k) + where[k].holes
    BY <1>1, HolesAdd
  <2>3. where[k].holes = Len(params[k]) /\ Len(params[k]) \in Nat /\ Len(run[k - 1]) \in Nat
    BY <1>1, <1>3
  <2>4. FirstHole(where, k) = 1 + Len(run[k - 1])
    BY <2>1
  <2>5. Len(run[k]) = Len(run[k - 1]) + Len(params[k])
    BY <1>5
  <2>6. FirstHole(where, k + 1) = (1 + Len(run[k - 1])) + Len(params[k])
    BY <2>2, <2>3, <2>4, Zenon
  <2>7. FirstHole(where, k + 1) = 1 + Len(run[k])
    <3>1. \A a, b \in Nat : (1 + a) + b = 1 + (a + b)
      OBVIOUS
    <3>2. (1 + Len(run[k - 1])) + Len(params[k]) = 1 + (Len(run[k - 1]) + Len(params[k]))
      BY <2>3, <3>1, Zenon
    <3> QED
      BY <2>5, <2>6, <3>2, Zenon
  <2>8. k \in 0..n
    BY <1>1
  <2> QED
    BY <2>7, <2>8
<1> HIDE DEF S
<1>8. 0..n \subseteq S
  BY <1>1, <1>6, <1>7, Induction
<1>9. \A k \in 0..n : FirstHole(where, k + 1) = 1 + Len(run[k])
  BY <1>8 DEF S
<1>10. FlattenSeq(params) = run[n]
  BY FlattenIsLast
<1>11. FirstHole(where, n + 1) = Len(FlattenSeq(params)) + 1
  <2>1. FirstHole(where, n + 1) = 1 + Len(run[n]) /\ Len(run[n]) \in Nat
    BY <1>1, <1>3, <1>9
  <2> QED
    BY <1>10, <2>1
<1>12. ASSUME NEW i \in 1..n PROVE Args(where, FlattenSeq(params), i) = params[i]
  <2>1. i - 1 \in 0..n /\ n \in 0..n /\ (i - 1) + 1 = i
    BY <1>1
  <2>2. FirstHole(where, i) = 1 + Len(run[i - 1])
    BY <1>9, <2>1
  <2>3. run[n] \in Seq(T) /\ Len(run[i - 1]) \in Nat /\ params[i] \in Seq(T)
    BY <1>1, <1>3, <2>1
  <2>4. IsPiece(run[n], Len(run[i - 1]), params[i])
    BY PiecesInRun, Zenon
  <2>5. SubSeq(run[n], 1 + Len(run[i - 1]), (1 + Len(run[i - 1])) + Len(params[i]) - 1) = params[i]
    BY <2>3, <2>4, SubSeqIsPiece, Zenon
  <2>6. where[i].holes = Len(params[i]) /\ where[i].holes # 0
    <3>1. Len(params[i]) # 0
      BY <2>3
    <3> QED
      BY <3>1
  <2>7. Args(where, FlattenSeq(params), i) =
          SubSeq(run[n], 1 + Len(run[i - 1]), (1 + Len(run[i - 1])) + where[i].holes - 1)
    BY <1>10, <2>2, <2>6, Zenon DEF Args
  <2> QED
    BY <2>5, <2>6, <2>7, Zenon
<1> QED
  BY <1>11, <1>12, Zenon

(* What occurs in a flattened sequence is what occurs in its parts. *)
LEMMA FlattenedSet ==
  ASSUME NEW T, NEW seqs \in Seq(Seq(T))
  PROVE ToSet(FlattenSeq(seqs)) = UNION {ToSet(seqs[i]) : i \in 1..Len(seqs)}
<1> DEFINE n == Len(seqs)
           upto(k) == UNION {ToSet(seqs[i]) : i \in 1..k}
<1>1. PICK run \in Runs(T, seqs) : TRUE
  BY FlattenedRun
<1>2. n \in Nat
  OBVIOUS
<1> DEFINE S == {k \in 0..n : ToSet(run[k]) = upto(k)}
<1>3. 0 \in S
  <2>1. ToSet(<<>>) = {} /\ upto(0) = {}
    BY DEF ToSet
  <2> QED
    BY <1>2, <2>1 DEF Runs
<1>4. ASSUME NEW k \in 1..n, k - 1 \in S PROVE k \in S
  <2>1. run[k] = run[k - 1] \o seqs[k] /\ run[k - 1] \in Seq(T) /\ seqs[k] \in Seq(T)
    <3>1. k \in 1..Len(seqs)
      OBVIOUS
    <3> HIDE DEF n, S, upto
    <3>2. run[k] = run[k - 1] \o seqs[k]
      BY <3>1 DEF Runs
    <3>3. run[k - 1] \in Seq(T) /\ seqs[k] \in Seq(T)
      BY <3>1, RunStep, Zenon
    <3> QED
      BY <3>2, <3>3, Zenon
  <2>2. \A s, t \in Seq(T) : ToSet(s \o t) = ToSet(s) \cup ToSet(t)
    <3>1. ASSUME NEW s \in Seq(T), NEW t \in Seq(T) PROVE ToSet(s \o t) = ToSet(s) \cup ToSet(t)
      <4>1. /\ DOMAIN s = 1..Len(s) /\ DOMAIN t = 1..Len(t)
            /\ DOMAIN (s \o t) = 1..(Len(s) + Len(t)) /\ Len(s) \in Nat /\ Len(t) \in Nat
            /\ \A i \in 1..Len(s) : (s \o t)[i] = s[i]
            /\ \A i \in 1..Len(t) : (s \o t)[Len(s) + i] = t[i]
        OBVIOUS
      <4>2. ASSUME NEW x \in ToSet(s \o t) PROVE x \in ToSet(s) \cup ToSet(t)
        <5>1. PICK i \in 1..(Len(s) + Len(t)) : x = (s \o t)[i]
          BY <4>1, <4>2 DEF ToSet
        <5>2. CASE i <= Len(s)
          <6>1. i \in 1..Len(s)
            BY <4>1, <5>2
          <6> QED
            BY <4>1, <5>1, <6>1 DEF ToSet
        <5>3. CASE i > Len(s)
          <6>1. i - Len(s) \in 1..Len(t) /\ i = Len(s) + (i - Len(s))
            BY <4>1, <5>3
          <6>2. x = t[i - Len(s)]
            BY <4>1, <5>1, <6>1, Zenon
          <6> QED
            BY <4>1, <6>1, <6>2 DEF ToSet
        <5> QED
          BY <4>1, <5>2, <5>3
      <4>3. ASSUME NEW x \in ToSet(s) PROVE x \in ToSet(s \o t)
        <5>1. PICK i \in 1..Len(s) : x = s[i]
          BY <4>1, <4>3 DEF ToSet
        <5>2. i \in DOMAIN (s \o t) /\ x = (s \o t)[i]
          BY <4>1, <5>1
        <5> QED
          BY <5>2, Zenon DEF ToSet
      <4>4. ASSUME NEW x \in ToSet(t) PROVE x \in ToSet(s \o t)
        <5>1. PICK i \in 1..Len(t) : x = t[i]
          BY <4>1, <4>4 DEF ToSet
        <5>2. Len(s) + i \in DOMAIN (s \o t) /\ x = (s \o t)[Len(s) + i]
          BY <4>1, <5>1
        <5> QED
          BY <5>2, Zenon DEF ToSet
      <4> QED
        BY <4>2, <4>3, <4>4
    <3> QED
      BY <3>1
  <2>3. ToSet(run[k]) = upto(k - 1) \cup ToSet(seqs[k])
    BY <1>4, <2>1, <2>2
  <2>4. 1..k = 1..(k - 1) \cup {k}
    BY <1>2
  <2>5. upto(k) = upto(k - 1) \cup ToSet(seqs[k])
    BY <2>4
  <2>6. k \in 0..n
    BY <1>2
  <2> QED
    BY <2>3, <2>5, <2>6, Zenon
<1> HIDE DEF S
<1>5. n \in S
  <2>1. 0..n \subseteq S
    BY <1>2, <1>3, <1>4, Induction
  <2> QED
    BY <1>2, <2>1
<1>6. FlattenSeq(seqs) = run[n]
  BY FlattenIsLast
<1> QED
  BY <1>5, <1>6 DEF S

-----------------------------------------------------------------------------
(* What the queries select. *)

LEMMA FirstClause ==
  ASSUME NEW where, NEW params
  PROVE /\ where[1].holes = 1 => Args(where, params, 1) = SubSeq(params, 1, 1)
        /\ where[1].holes = 2 => Args(where, params, 1) = SubSeq(params, 1, 2)
BY NoHoleBefore DEF Args

LEMMA InlinedArgs ==
  ASSUME NEW where, NEW params, NEW i, where[i].holes = 0
  PROVE Args(where, params, i) = where[i].inline
BY DEF Args

(* One clause on the ticker, with its parameter. *)
LEMMA TickerClause ==
  ASSUME NEW ticker, ticker # Null, NEW row
  PROVE Holds(row, Hole("ticker", "is", 1), <<ticker>>) <=> row.ticker = ticker
BY DEF Holds, Compare, Hole

(* A clause with h holes and then clauses without. *)
LEMMA OneHole ==
  ASSUME NEW where, NEW n \in Nat, n # 0, where[1].holes \in Nat,
         \A k \in 2..n : where[k].holes = 0
  PROVE FirstHole(where, n + 1) = 1 + where[1].holes
<1>1. \A k \in 1..n : where[k].holes \in Nat
  <2>1. \A k \in 1..n : k = 1 \/ k \in 2..n
    OBVIOUS
  <2> QED
    BY <2>1
<1>2. 1 \in 1..n /\ 1 \in 0..n /\ (1 + 1)..n = 2..n
  OBVIOUS
<1>3. FirstHole(where, 1 + 1) = FirstHole(where, 1) + where[1].holes
  BY <1>1, <1>2, HolesAdd
<1>4. FirstHole(where, n + 1) = FirstHole(where, 1 + 1)
  BY <1>1, <1>2, NoMoreHoles
<1> QED
  BY <1>3, <1>4, NoHoleBefore

LEMMA SelectedByTicker ==
  ASSUME NEW relation, NEW ticker, ticker # Null
  PROVE /\ FirstHole(<<Hole("ticker", "is", 1)>>, 1 + 1) = 1 + 1
        /\ Selected(relation, <<Hole("ticker", "is", 1)>>, <<ticker>>)
             = {row \in Tables[relation] : row.ticker = ticker}
<1> DEFINE hole == Hole("ticker", "is", 1)
<1>1. hole.holes = 1
  BY DEF Hole
<1>2. \A row : Holds(row, hole, <<ticker>>) <=> row.ticker = ticker
  BY TickerClause
<1> HIDE DEF hole
<1>3. DOMAIN <<hole>> = {1} /\ <<hole>>[1] = hole
  OBVIOUS
<1>4. Args(<<hole>>, <<ticker>>, 1) = <<ticker>>
  <2>1. <<hole>>[1].holes = 1
    BY <1>1
  <2>2. Args(<<hole>>, <<ticker>>, 1) = SubSeq(<<ticker>>, 1, 1)
    BY <2>1, FirstClause
  <2>3. <<ticker>> \in Seq({ticker})
    OBVIOUS
  <2> QED
    BY <2>2, <2>3
<1>5. \A row : (\A i \in DOMAIN <<hole>> : Holds(row, <<hole>>[i], Args(<<hole>>, <<ticker>>, i)))
               <=> row.ticker = ticker
  BY <1>2, <1>3, <1>4
<1>6. Selected(relation, <<hole>>, <<ticker>>)
          = {row \in Tables[relation] : row.ticker = ticker}
  BY <1>5 DEF Selected
<1>7. FirstHole(<<hole>>, 1 + 1) = 1 + 1
  BY <1>1, <1>3, OneHole
<1> QED
  BY <1>6, <1>7 DEF hole

LEMMA SelectedByDates ==
  ASSUME NEW relation, NEW req, IsOptional(req.from), IsOptional(req.to), NEW params
  PROVE /\ FirstHole(DateRange(req), Len(DateRange(req)) + 1) = 1
        /\ Selected(relation, DateRange(req), params) = {row \in Tables[relation] : InRange(row, req)}
<1> DEFINE where == DateRange(req)
<1>1. \A row : IsInlined(where) /\ (AllKeep(row, where) <=> InRange(row, req))
  BY DateRangesMeanWhatTheySay DEF AllKeep
<1> HIDE DEF where
<1>2. DOMAIN where = 1..Len(where) /\ \A i \in 1..Len(where) : where[i].holes = 0
  BY <1>1 DEF IsInlined, IsSeq
<1>3. \A i \in 1..Len(where) : Args(where, params, i) = where[i].inline
  BY <1>2, InlinedArgs
<1>4. \A row : (\A i \in DOMAIN where : Holds(row, where[i], Args(where, params, i)))
               <=> InRange(row, req)
  BY <1>1, <1>2, <1>3, Zenon DEF AllKeep
<1>5. Selected(relation, where, params) = {row \in Tables[relation] : InRange(row, req)}
  BY <1>4 DEF Selected
<1>6. FirstHole(where, Len(where) + 1) = 1
  <2> DEFINE n == Len(where)
  <2>1. n \in Nat /\ \A k \in 1..n : where[k].holes = 0 /\ where[k].holes \in Nat
    BY <1>1, <1>2 DEF IsInlined, IsSeq
  <2> HIDE DEF n
  <2>2. 0 \in 0..n /\ (0 + 1)..n = 1..n /\ 0 + 1 = 1
    BY <2>1
  <2>3. FirstHole(where, n + 1) = FirstHole(where, 0 + 1)
    BY <2>1, <2>2, NoMoreHoles
  <2> QED
    BY <2>2, <2>3, NoHoleBefore DEF n
<1> QED
  BY <1>5, <1>6 DEF where

TickerAndDates == <<Hole("ticker", "is", 1)>> \o DateRange(call)

LEMMA SelectedByTickerAndDates ==
  ASSUME NEW relation, NEW ticker, ticker # Null, IsOptional(call.from), IsOptional(call.to)
  PROVE /\ FirstHole(TickerAndDates, Len(TickerAndDates) + 1) = 1 + 1
        /\ \A row : row \in Selected(relation, TickerAndDates, <<ticker>>)
                     <=> row \in Tables[relation] /\ row.ticker = ticker /\ InRange(row, call)
<1> DEFINE hole == Hole("ticker", "is", 1)
           dates == DateRange(call)
           where == <<hole>> \o dates
           params == <<ticker>>
<1>0. TickerAndDates = where
  BY DEF TickerAndDates
<1>1. \A row : IsInlined(dates) /\ (AllKeep(row, dates) <=> InRange(row, call))
  BY DateRangesMeanWhatTheySay DEF AllKeep
<1>2. \A row : Holds(row, hole, params) <=> row.ticker = ticker
  BY TickerClause
<1>3. hole.holes = 1
  BY DEF Hole
<1> HIDE DEF hole, dates
<1>4. Len(dates) \in Nat /\ IsSeq(dates) /\ \A i \in 1..Len(dates) : dates[i].holes = 0
  BY <1>1 DEF IsInlined, IsSeq
<1>5. /\ DOMAIN where = 1..(1 + Len(dates)) /\ where[1] = hole /\ Len(where) = 1 + Len(dates)
      /\ \A i \in 1..Len(dates) : where[1 + i] = dates[i]
  <2>1. IsSeq(<<hole>>) /\ Len(<<hole>>) = 1 /\ <<hole>>[1] = hole /\ 1 \in 1..1
    BY DEF IsSeq
  <2>2. /\ IsSeq(where) /\ Len(where) = 1 + Len(dates)
        /\ \A i \in 1..1 : where[i] = <<hole>>[i]
        /\ \A i \in 1..Len(dates) : where[1 + i] = dates[i]
    BY <1>4, <2>1, Joined
  <2> HIDE DEF where
  <2>3. DOMAIN where = 1..Len(where)
    BY <2>2 DEF IsSeq
  <2> QED
    BY <2>1, <2>2, <2>3, Zenon
<1>6. Args(where, params, 1) = params
  <2>1. where[1].holes = 1
    BY <1>3, <1>5
  <2> HIDE DEF where
  <2>2. Args(where, params, 1) = SubSeq(params, 1, 1)
    BY <2>1, FirstClause
  <2>3. params \in Seq({ticker})
    OBVIOUS
  <2> QED
    BY <2>2, <2>3
<1> HIDE DEF where, params
<1>7. ASSUME NEW i \in 1..Len(dates) PROVE Args(where, params, 1 + i) = dates[i].inline
  <2>1. where[1 + i] = dates[i] /\ dates[i].holes = 0
    BY <1>4, <1>5
  <2> QED
    BY <2>1, InlinedArgs
<1>8. \A i \in DOMAIN where : i = 1 \/ (i - 1 \in 1..Len(dates) /\ i = 1 + (i - 1))
  BY <1>4, <1>5
<1>9. 1 \in DOMAIN where /\ \A i \in 1..Len(dates) : 1 + i \in DOMAIN where
  BY <1>4, <1>5
<1>10. ASSUME NEW row
       PROVE (\A i \in DOMAIN where : Holds(row, where[i], Args(where, params, i)))
               <=> row.ticker = ticker /\ InRange(row, call)
  <2>1. ASSUME \A i \in DOMAIN where : Holds(row, where[i], Args(where, params, i))
        PROVE row.ticker = ticker /\ AllKeep(row, dates)
    <3>1. row.ticker = ticker
      BY <1>2, <1>5, <1>6, <1>9, <2>1, Zenon
    <3>2. \A i \in 1..Len(dates) : Holds(row, dates[i], dates[i].inline)
      BY <1>5, <1>7, <1>9, <2>1, Zenon
    <3> QED
      BY <3>1, <3>2, Zenon DEF AllKeep
  <2>2. ASSUME row.ticker = ticker, AllKeep(row, dates), NEW i \in DOMAIN where
        PROVE Holds(row, where[i], Args(where, params, i))
    <3>1. CASE i = 1
      BY <1>2, <1>5, <1>6, <2>2, <3>1, Zenon
    <3>2. CASE i - 1 \in 1..Len(dates) /\ i = 1 + (i - 1)
      BY <1>5, <1>7, <2>2, <3>2, Zenon DEF AllKeep
    <3> QED
      BY <1>8, <3>1, <3>2, Zenon
  <2> QED
    BY <1>1, <2>1, <2>2, Zenon
<1>11. ASSUME NEW row
       PROVE row \in Selected(relation, where, params)
               <=> row \in Tables[relation] /\ row.ticker = ticker /\ InRange(row, call)
  BY <1>10 DEF Selected
<1>12. FirstHole(where, Len(where) + 1) = 1 + 1
  <2> DEFINE n == Len(where)
  <2>1. n \in Nat /\ n # 0 /\ where[1].holes = 1
    BY <1>3, <1>4, <1>5
  <2>2. \A k \in 2..n : where[k].holes = 0
    <3>1. ASSUME NEW k \in 2..n PROVE where[k].holes = 0
      <4>1. k - 1 \in 1..Len(dates) /\ k = 1 + (k - 1)
        BY <1>4, <1>5
      <4>2. where[1 + (k - 1)] = dates[k - 1] /\ dates[k - 1].holes = 0
        BY <1>4, <1>5, <4>1, Zenon
      <4> QED
        BY <4>1, <4>2
    <3> QED
      BY <3>1
  <2> HIDE DEF n
  <2>3. FirstHole(where, n + 1) = 1 + where[1].holes
    BY <2>1, <2>2, OneHole
  <2> QED
    BY <2>1, <2>3 DEF n
<1> QED
  BY <1>0, <1>11, <1>12, Zenon DEF params

(* A text and the escaped pattern made of a searched one. *)
LEMMA SelectedByText ==
  ASSUME NEW q, IsSeq(q)
  PROVE LET pattern == <<"%">> \o escape_like(q) \o <<"%">> IN
          /\ FirstHole(<<Hole("ticker", "like", 2)>>, 1 + 1) = 2 + 1
          /\ Selected("companies", <<Hole("ticker", "like", 2)>>, <<pattern, pattern>>)
            = {row \in Tables["companies"] : Contained(q, row.ticker) \/ Contained(q, row.company_name)}
<1> DEFINE pattern == <<"%">> \o escape_like(q) \o <<"%">>
           hole == Hole("ticker", "like", 2)
           params == <<pattern, pattern>>
<1>1. ASSUME NEW s, s = Null \/ Len(s) \in Nat
      PROVE s # Null /\ Like(s, pattern) <=> Contained(q, s)
  <2>1. CASE s = Null
    BY <2>1 DEF Contained
  <2>2. CASE s # Null
    <3>1. Len(s) \in Nat
      BY <1>1, <2>2
    <3> QED
      BY <2>2, <3>1, EscapedTextsMatchLiterally, Zenon
  <2> QED
    BY <2>1, <2>2
<1>2. hole.holes = 2 /\ hole.op = "like"
  BY DEF Hole
<1> HIDE DEF pattern, hole
<1>3. params[1] = pattern /\ params[2] = pattern /\ SubSeq(params, 1, 2) = params
  <2>1. params \in Seq({pattern}) /\ Len(params) = 2 /\ params[1] = pattern /\ params[2] = pattern
    OBVIOUS
  <2> HIDE DEF params
  <2>2. SubSeq(params, 1, 2) = params
    BY <2>1
  <2> QED
    BY <2>1, <2>2
<1> HIDE DEF params
<1>4. DOMAIN <<hole>> = {1} /\ <<hole>>[1] = hole
  OBVIOUS
<1>5. Args(<<hole>>, params, 1) = params
  <2>1. <<hole>>[1].holes = 2
    BY <1>2, <1>4
  <2> QED
    BY <1>3, <2>1, FirstClause
<1>6. ASSUME NEW row \in Tables["companies"]
      PROVE Holds(row, hole, params) <=> Contained(q, row.ticker) \/ Contained(q, row.company_name)
  <2>1. /\ row.ticker = Null \/ Len(row.ticker) \in Nat
        /\ row.company_name = Null \/ Len(row.company_name) \in Nat
    BY TablesAssumption
  <2>2. Holds(row, hole, params) <=>
          \/ row.ticker # Null /\ Like(row.ticker, params[1])
          \/ row.company_name # Null /\ Like(row.company_name, params[2])
    BY <1>2, Zenon DEF Holds
  <2> QED
    BY <1>1, <1>3, <2>1, <2>2, Zenon
<1>7. ASSUME NEW row \in Tables["companies"]
      PROVE (\A i \in DOMAIN <<hole>> : Holds(row, <<hole>>[i], Args(<<hole>>, params, i)))
               <=> Contained(q, row.ticker) \/ Contained(q, row.company_name)
  BY <1>4, <1>5, <1>6
<1>8. Selected("companies", <<hole>>, params)
        = {row \in Tables["companies"] : Contained(q, row.ticker) \/ Contained(q, row.company_name)}
  BY <1>7 DEF Selected
<1>9. FirstHole(<<hole>>, 1 + 1) = 2 + 1
  BY <1>2, <1>4, OneHole
<1> QED
  BY <1>8, <1>9, Zenon DEF pattern, hole, params

(* A filter that is accepted has as many parameters as its clause has holes. *)
LEMMA AcceptedClause ==
  ASSUME NEW f, IsValue(f.value), ScreenClause(f).ok
  PROVE /\ ScreenClause(f).clause.holes = Len(ScreenClause(f).params)
        /\ IsSeq(ScreenClause(f).params) /\ Len(ScreenClause(f).params) # 0
<1> DEFINE field == Lower(f.field)
           op == Lower(f.op)
           v == f.value
           texts == [i \in DOMAIN v.items |-> v.items[i].text]
<1>1. ~ Rejected.ok
  BY DEF Rejected
<1>2. ASSUME NEW fld, NEW o, NEW n, NEW w, IsSeq(w), Len(w) = n, n # 0,
             ScreenClause(f) = Clause(fld, o, n, w)
      PROVE /\ ScreenClause(f).clause.holes = Len(ScreenClause(f).params)
            /\ IsSeq(ScreenClause(f).params) /\ Len(ScreenClause(f).params) # 0
  <2>1. ScreenClause(f).clause.holes = n /\ ScreenClause(f).params = w
    BY <1>2 DEF Clause, Hole
  <2> QED
    BY <1>2, <2>1, Zenon
<1>3. \A x, y : IsSeq(<<x>>) /\ Len(<<x>>) = 1 /\ IsSeq(<<x, y>>) /\ Len(<<x, y>>) = 2
  BY DEF IsSeq
<1>4. v.kind = "arr" /\ v.items # <<>> => IsSeq(texts) /\ Len(texts) = Len(v.items) /\ Len(v.items) # 0
  <2> SUFFICES ASSUME v.kind = "arr", v.items # <<>>
               PROVE IsSeq(texts) /\ Len(texts) = Len(v.items) /\ Len(v.items) # 0
    OBVIOUS
  <2>1. IsSeq(v.items)
    BY DEF IsValue
  <2> DEFINE items == v.items
             n == Len(items)
  <2>2. n \in Nat /\ items = [i \in 1..n |-> items[i]] /\ items # <<>>
    BY <2>1 DEF IsSeq
  <2>3. n # 0 /\ DOMAIN items = 1..n
    BY <2>2
  <2>4. texts = [i \in 1..n |-> items[i].text]
    BY <2>3
  <2> HIDE DEF n, items, texts
  <2>5. Len(texts) = n /\ DOMAIN texts = 1..n
    BY <2>2, <2>4
  <2>6. texts = [i \in 1..n |-> texts[i]]
    BY <2>4
  <2> QED
    BY <2>2, <2>3, <2>5, <2>6 DEF IsSeq, n, items
<1> HIDE DEF field, op, v, texts
<1>5. CASE field \in NumFields
  <2>1. ScreenClause(f) = NumericClause(field, op, v)
    BY <1>5 DEF ScreenClause, field, op, v
  <2>2. \/ NumericClause(field, op, v) = Clause(field, op, 1, <<v.n>>)
        \/ NumericClause(field, op, v) = Clause(field, op, 2, <<v.items[1].n, v.items[2].n>>)
        \/ NumericClause(field, op, v) = Rejected
    BY DEF NumericClause
  <2>3. NumericClause(field, op, v) # Rejected
    BY <1>1, <2>1, Zenon
  <2>4. CASE NumericClause(field, op, v) = Clause(field, op, 1, <<v.n>>)
    <3>1. ScreenClause(f) = Clause(field, op, 1, <<v.n>>) /\ IsSeq(<<v.n>>) /\ Len(<<v.n>>) = 1
      BY <1>3, <2>1, <2>4, Zenon
    <3>2. 1 # 0
      OBVIOUS
    <3> QED
      BY <1>2, <3>1, <3>2, Zenon
  <2>5. CASE NumericClause(field, op, v) = Clause(field, op, 2, <<v.items[1].n, v.items[2].n>>)
    <3>1. /\ ScreenClause(f) = Clause(field, op, 2, <<v.items[1].n, v.items[2].n>>)
          /\ IsSeq(<<v.items[1].n, v.items[2].n>>) /\ Len(<<v.items[1].n, v.items[2].n>>) = 2
      BY <1>3, <2>1, <2>5, Zenon
    <3>2. 2 # 0
      OBVIOUS
    <3> QED
      BY <1>2, <3>1, <3>2, Zenon
  <2> QED
    BY <2>2, <2>3, <2>4, <2>5, Zenon
<1>6. CASE field \notin NumFields /\ field \in TextFields
  <2>1. ScreenClause(f) = TextClause(field, op, v)
    BY <1>6 DEF ScreenClause, field, op, v
  <2>2. \/ TextClause(field, op, v) = Clause(field, "is", 1, <<v.text>>)
        \/ /\ v.kind = "arr" /\ v.items # <<>>
           /\ TextClause(field, op, v) = Clause(field, op, Len(v.items), texts)
        \/ TextClause(field, op, v) = Rejected
    BY DEF TextClause, texts
  <2>3. TextClause(field, op, v) # Rejected
    BY <1>1, <2>1, Zenon
  <2>4. CASE TextClause(field, op, v) = Clause(field, "is", 1, <<v.text>>)
    <3>1. ScreenClause(f) = Clause(field, "is", 1, <<v.text>>) /\ IsSeq(<<v.text>>) /\ Len(<<v.text>>) = 1
      BY <1>3, <2>1, <2>4, Zenon
    <3>2. 1 # 0
      OBVIOUS
    <3> QED
      BY <1>2, <3>1, <3>2, Zenon
  <2>5. CASE /\ v.kind = "arr" /\ v.items # <<>>
             /\ TextClause(field, op, v) = Clause(field, op, Len(v.items), texts)
    BY <1>2, <1>4, <2>1, <2>5, Zenon
  <2> QED
    BY <2>2, <2>3, <2>4, <2>5, Zenon
<1> QED
  BY <1>1, <1>5, <1>6 DEF ScreenClause, field

LEMMA SelectedByFilters ==
  ASSUME NEW filters, IsSeq(filters), \A f \in ToSet(filters) : IsValue(f.value),
         \A i \in DOMAIN filters : ScreenClause(filters[i]).ok
  PROVE LET built == [i \in DOMAIN filters |-> ScreenClause(filters[i])]
            where == [i \in DOMAIN built |-> built[i].clause]
            params == FlattenSeq([i \in DOMAIN built |-> built[i].params])
        IN
          /\ FirstHole(where, Len(where) + 1) = Len(params) + 1
          /\ Selected("latest", where, params)
            = {row \in Tables["latest"] : \A f \in ToSet(filters) : Passes(row, f)}
<1> DEFINE n == Len(filters)
           built == [i \in DOMAIN filters |-> ScreenClause(filters[i])]
           where == [i \in DOMAIN built |-> built[i].clause]
           params == [i \in DOMAIN built |-> built[i].params]
           T == UNION {ToSet(params[i]) : i \in 1..n}
<1>1. n \in Nat /\ DOMAIN filters = 1..n /\ ToSet(filters) = {filters[i] : i \in 1..n}
  BY DEF IsSeq, ToSet
<1>2. \A i \in 1..n : IsValue(filters[i].value) /\ ScreenClause(filters[i]).ok
  BY <1>1
<1>3. /\ DOMAIN where = 1..n /\ Len(where) = n /\ params = [i \in 1..n |-> params[i]]
      /\ \A i \in 1..n : /\ where[i] = ScreenClause(filters[i]).clause
                         /\ params[i] = ScreenClause(filters[i]).params
  BY <1>1
<1> HIDE DEF n, where, params
<1>4. \A i \in 1..n : where[i].holes = Len(params[i]) /\ IsSeq(params[i]) /\ params[i] # <<>>
  <2>1. ASSUME NEW i \in 1..n
        PROVE where[i].holes = Len(params[i]) /\ IsSeq(params[i]) /\ Len(params[i]) # 0
    BY <1>2, <1>3, AcceptedClause
  <2>2. Len(<<>>) = 0
    OBVIOUS
  <2> QED
    BY <2>1, <2>2
<1>5. params \in Seq(Seq(T)) /\ Len(params) = n
  <2>1. ASSUME NEW i \in 1..n PROVE params[i] \in Seq(T)
    <3>1. IsSeq(params[i])
      BY <1>4
    <3>2. \A j \in 1..Len(params[i]) : params[i][j] \in ToSet(params[i])
      BY <3>1 DEF IsSeq, ToSet
    <3>3. \A j \in 1..Len(params[i]) : params[i][j] \in T
      BY <3>2
    <3> HIDE DEF T
    <3> QED
      BY <3>1, <3>3, FunctionIsSeq DEF IsSeq
  <2> DEFINE V == Seq(T)
  <2>2. \A i \in 1..n : params[i] \in V
    BY <2>1
  <2> HIDE DEF V
  <2>3. params \in Seq(V) /\ Len(params) = n
    BY <1>1, <1>3, <2>2, FunctionIsSeq
  <2> QED
    BY <2>3 DEF V
<1> HIDE DEF T
<1>6. /\ \A i \in DOMAIN where : Args(where, FlattenSeq(params), i) = params[i]
      /\ FirstHole(where, Len(where) + 1) = Len(FlattenSeq(params)) + 1
  <2>1. \A k \in 1..Len(params) : where[k].holes = Len(params[k]) /\ params[k] # <<>>
    BY <1>4, <1>5
  <2>2. /\ FirstHole(where, Len(params) + 1) = Len(FlattenSeq(params)) + 1
        /\ \A i \in 1..Len(params) : Args(where, FlattenSeq(params), i) = params[i]
    BY <1>5, <2>1, ParametersFindTheirHoles
  <2> QED
    BY <1>3, <1>5, <2>2, Zenon
<1>7. ASSUME NEW row \in Tables["latest"], NEW i \in 1..n
      PROVE Holds(row, where[i], params[i]) <=> Passes(row, filters[i])
  <2>1. Lower(filters[i].field) \in NumFields => row[Lower(filters[i].field)] \in Int \cup {Null}
    BY TablesAssumption
  <2> QED
    BY <1>2, <1>3, <2>1, FiltersMeanWhatTheySay
<1>8. ASSUME NEW row \in Tables["latest"]
      PROVE (\A i \in DOMAIN where : Holds(row, where[i], Args(where, FlattenSeq(params), i)))
              <=> \A f \in ToSet(filters) : Passes(row, f)
  <2>1. (\A i \in DOMAIN where : Holds(row, where[i], Args(where, FlattenSeq(params), i)))
          <=> \A i \in 1..n : Passes(row, filters[i])
    <3>1. \A i \in DOMAIN where : Args(where, FlattenSeq(params), i) = params[i]
      BY <1>6
    <3>2. DOMAIN where = 1..n
      BY <1>3
    <3> QED
      BY <1>7, <3>1, <3>2, Zenon
  <2> QED
    BY <1>1, <2>1
<1>9. Selected("latest", where, FlattenSeq(params))
        = {row \in Tables["latest"] : \A f \in ToSet(filters) : Passes(row, f)}
  BY <1>8 DEF Selected
<1> QED
  BY <1>6, <1>9, Zenon DEF where, params

(* describe_schema lists what is loaded, or the one that is asked for. *)
LEMMA DescribedAreAsked ==
  ASSUME NEW dataset, NEW loaded, IsSeq(loaded), ToSet(loaded) \subseteq Catalog
  PROVE LET described(name) == dataset = <<>> \/ Lower(dataset[1]) = Lower(name) IN
          ToSet(FlattenSeq([i \in DOMAIN loaded |-> IF described(loaded[i]) THEN <<loaded[i]>> ELSE <<>>]))
            = {n \in ToSet(loaded) : dataset = <<>> \/ n = Lower(dataset[1])}
<1> DEFINE described(name) == dataset = <<>> \/ Lower(dataset[1]) = Lower(name)
           m == Len(loaded)
           pieces == [i \in DOMAIN loaded |-> IF described(loaded[i]) THEN <<loaded[i]>> ELSE <<>>]
           T == ToSet(loaded)
<1>1. m \in Nat /\ DOMAIN loaded = 1..m /\ T = {loaded[i] : i \in 1..m}
  BY DEF IsSeq, ToSet
<1>2. \A i \in 1..m : Lower(loaded[i]) = loaded[i]
  BY <1>1, LowerOfCatalog
<1>3. \A i \in 1..m : described(loaded[i]) <=> dataset = <<>> \/ loaded[i] = Lower(dataset[1])
  BY <1>2
<1>4. /\ pieces = [i \in 1..m |-> pieces[i]]
      /\ \A i \in 1..m : pieces[i] = IF described(loaded[i]) THEN <<loaded[i]>> ELSE <<>>
  BY <1>1
<1> HIDE DEF pieces, described, T, m
<1>5. pieces \in Seq(Seq(T)) /\ Len(pieces) = m
  <2> DEFINE V == Seq(T)
  <2>1. \A i \in 1..m : <<loaded[i]>> \in V /\ <<>> \in V
    BY <1>1
  <2> HIDE DEF V
  <2>2. \A i \in 1..m : pieces[i] \in V
    BY <1>4, <2>1
  <2>3. pieces \in Seq(V) /\ Len(pieces) = m
    BY <1>1, <1>4, <2>2, FunctionIsSeq
  <2> QED
    BY <2>3 DEF V
<1>6. \A i \in 1..m : ToSet(pieces[i]) = IF described(loaded[i]) THEN {loaded[i]} ELSE {}
  <2>1. \A x : ToSet(<<x>>) = {x}
    BY DEF ToSet
  <2>2. ToSet(<<>>) = {}
    BY DEF ToSet
  <2> QED
    BY <1>4, <2>1, <2>2
<1>7. ToSet(FlattenSeq(pieces)) = UNION {ToSet(pieces[i]) : i \in 1..m}
  BY <1>5, FlattenedSet
<1>8. ToSet(FlattenSeq(pieces)) = {n \in ToSet(loaded) : dataset = <<>> \/ n = Lower(dataset[1])}
  <2> DEFINE asked(n) == dataset = <<>> \/ n = Lower(dataset[1])
  <2>1. \A i \in 1..m : ToSet(pieces[i]) = IF asked(loaded[i]) THEN {loaded[i]} ELSE {}
    BY <1>3, <1>6
  <2>2. ToSet(loaded) = {loaded[i] : i \in 1..m}
    BY <1>1 DEF T
  <2> HIDE DEF asked
  <2>3. \A x : x \in ToSet(FlattenSeq(pieces)) <=> \E i \in 1..m : x \in ToSet(pieces[i])
    BY <1>7
  <2>4. \A x : x \in ToSet(FlattenSeq(pieces)) <=> x \in ToSet(loaded) /\ asked(x)
    <3>1. \A i \in 1..m : \A x : x \in ToSet(pieces[i]) <=> asked(loaded[i]) /\ x = loaded[i]
      BY <2>1
    <3>2. \A x : x \in ToSet(loaded) <=> \E i \in 1..m : x = loaded[i]
      BY <2>2
    <3>3. ASSUME NEW x \in ToSet(FlattenSeq(pieces)) PROVE x \in ToSet(loaded) /\ asked(x)
      <4>1. PICK i \in 1..m : x \in ToSet(pieces[i])
        BY <2>3
      <4> QED
        BY <3>1, <3>2, <4>1
    <3>4. ASSUME NEW x \in ToSet(loaded), asked(x) PROVE x \in ToSet(FlattenSeq(pieces))
      <4>1. PICK i \in 1..m : x = loaded[i]
        BY <3>2
      <4> QED
        BY <2>3, <3>1, <3>4, <4>1
    <3> QED
      BY <3>3, <3>4
  <2>5. ToSet(FlattenSeq(pieces)) = {n \in ToSet(loaded) : asked(n)}
    BY <2>4
  <2> QED
    BY <2>5, Zenon DEF asked
<1> QED
  BY <1>8, Zenon DEF pieces, described

(* The limit put into the query is the least number rows may be cut at. *)
LEMMA LimitIsLeast ==
  ASSUME NEW limit \in Seq(Nat), NEW default \in {SearchDefault, ListDefault}
  PROVE LET bounds == {MaxRows} \cup {IF limit = <<>> THEN default ELSE limit[1]} IN
          /\ Limit(limit, default) \in Nat /\ Limit(limit, default) \in bounds
          /\ \A m \in bounds : m \in Nat /\ Limit(limit, default) <= m
<1> DEFINE asked == IF limit = <<>> THEN default ELSE limit[1]
           least == Min({asked, MaxRows})
<1>1. asked \in Nat /\ MaxRows \in Nat
  OBVIOUS
<1> HIDE DEF asked
<1>2. least = IF asked <= MaxRows THEN asked ELSE MaxRows
  BY <1>1, TwoNumbers
<1>3. Limit(limit, default) = least
  BY Zenon DEF Limit, asked
<1> HIDE DEF least
<1>4. /\ least \in Nat /\ least \in {MaxRows} \cup {asked}
      /\ \A m \in {MaxRows} \cup {asked} : m \in Nat /\ least <= m
  BY <1>1, <1>2
<1> QED
  BY <1>3, <1>4, Zenon DEF asked

-----------------------------------------------------------------------------
(* One call. *)

(* What the tools' queries share: a relation that is there and as many       *)
(* parameters as holes, so that only a failing query is not answered.        *)
LEMMA QueryAnswers ==
  ASSUME NEW relation, NEW where, NEW params, NEW order, NEW limit \in Nat,
         NEW bounds, limit \in bounds, \A m \in bounds : m \in Nat /\ limit <= m,
         IsFiniteSet(Tables[relation]), FirstHole(where, Len(where) + 1) = Len(params) + 1,
         Query(relation, where, params, order, limit)
  PROVE /\ call' = call /\ serving' = serving
        /\ answer'.status = IF relation \in ToSet(serving.loaded) /\ ~ serving.fails
                            THEN "rows" ELSE "failed"
        /\ answer'.status = "rows" =>
             FirstOf(answer'.rows, Selected(relation, where, params), order, bounds)
<1> DEFINE results == Execute(relation, where, params, order, limit)
           runs == relation \in ToSet(serving.loaded) /\ ~ serving.fails
<1>1. CanRun(relation, where, params) <=> runs
  BY DEF CanRun
<1>2. CASE runs
  <2>1. PICK rows \in results : Reply(Rows(rows))
    BY <1>1, <1>2, Zenon DEF Query
  <2>2. call' = call /\ serving' = serving /\ answer'.status = "rows" /\ answer'.rows = rows
    BY <2>1 DEF Reply, Rows
  <2>3. FirstOf(rows, Selected(relation, where, params), order, bounds)
    BY QueriesReturnTheFirst, Zenon
  <2> QED
    BY <1>2, <2>2, <2>3, Zenon
<1>3. CASE ~ runs
  <2>1. Reply(Error("failed"))
    BY <1>1, <1>3, Zenon DEF Query, Fail
  <2>2. call' = call /\ serving' = serving /\ answer'.status = "failed"
    BY <2>1 DEF Reply, Error
  <2> QED
    BY <1>3, <2>2
<1> QED
  BY <1>2, <1>3, Zenon

LEMMA Refused ==
  ASSUME Refuse
  PROVE call' = call /\ serving' = serving /\ answer'.status = "invalid"
BY DEF Refuse, Reply, Error

(* What a list tool answers if its arguments are tolerable. *)
IsAnswered ==
  /\ call' = call /\ serving' = serving /\ call.tool \in ListTools
  /\ answer'.status = IF IsTolerable(call) THEN Outcome(call) ELSE "invalid"
  /\ answer'.status = "rows" => ListIsRight(call, answer'.rows)

LEMMA AnswerOfSearch ==
  ASSUME call \in Calls, SearchTickers
  PROVE IsAnswered
<1> DEFINE pattern == <<"%">> \o escape_like(call.query) \o <<"%">>
           where == <<Hole("ticker", "like", 2)>>
           params == <<pattern, pattern>>
           limit == Limit(call.limit, SearchDefault)
<1>1. call.tool = "search_tickers" /\ Query("companies", where, params, <<>>, limit)
  BY Zenon DEF SearchTickers, Asked
<1>2. IsSeq(call.query) /\ call.limit \in Seq(Nat)
  BY <1>1, CallsAssumption
<1>3. Bounds(call) = {MaxRows} \cup {IF call.limit = <<>> THEN SearchDefault ELSE call.limit[1]}
  BY <1>1 DEF Bounds
<1>4. limit \in Nat /\ limit \in Bounds(call) /\ \A m \in Bounds(call) : m \in Nat /\ limit <= m
  BY <1>2, <1>3, LimitIsLeast
<1>5. /\ FirstHole(where, 1 + 1) = 2 + 1
      /\ Selected("companies", where, params) = {row \in Tables["companies"] :
            Contained(call.query, row.ticker) \/ Contained(call.query, row.company_name)}
  BY <1>2, SelectedByText, Zenon
<1>6. Selected("companies", where, params) = Wanted(call)
  BY <1>1, <1>5 DEF Wanted, Of
<1>7. Order(call) = <<>>
  BY <1>1 DEF Order
<1>8. Len(where) = 1 /\ Len(params) = 2
  OBVIOUS
<1> HIDE DEF where, params, limit
<1>9. FirstHole(where, Len(where) + 1) = Len(params) + 1
  BY <1>5, <1>8
<1>10. IsFiniteSet(Tables["companies"])
  BY TablesAssumption
<1>11. /\ call' = call /\ serving' = serving
       /\ answer'.status = IF "companies" \in ToSet(serving.loaded) /\ ~ serving.fails
                           THEN "rows" ELSE "failed"
       /\ answer'.status = "rows" =>
            FirstOf(answer'.rows, Selected("companies", where, params), <<>>, Bounds(call))
  BY <1>1, <1>4, <1>9, <1>10, QueryAnswers, Zenon
<1>12. IsTolerable(call) /\ call.tool \in ListTools /\ Sources(call) = {"companies"}
  BY <1>1 DEF IsTolerable, IsAcceptable, ListTools, Sources
<1>13. answer'.status = Outcome(call)
  BY <1>11, <1>12 DEF Outcome
<1>14. answer'.status = "rows" => ListIsRight(call, answer'.rows)
  BY <1>6, <1>7, <1>11, Zenon DEF ListIsRight
<1> QED
  BY <1>11, <1>12, <1>13, <1>14, Zenon DEF IsAnswered

LEMMA AnswerOfOwnership ==
  ASSUME call \in Calls, GetOwnership
  PROVE IsAnswered
<1> DEFINE where == <<Hole("ticker", "is", 1)>>
           params == <<call.ticker>>
           order == <<Desc("percentage")>>
<1>1. call.tool = "get_ownership" /\ Query("ownership", where, params, order, MaxRows)
  BY Zenon DEF GetOwnership, Asked
<1>2. call.ticker # Null
  BY <1>1, CallsAssumption
<1>3. Bounds(call) = {MaxRows} /\ MaxRows \in Nat
  BY <1>1 DEF Bounds
<1>4. MaxRows \in Bounds(call) /\ \A m \in Bounds(call) : m \in Nat /\ MaxRows <= m
  BY <1>3
<1>5. /\ FirstHole(where, 1 + 1) = 1 + 1
      /\ Selected("ownership", where, params) = {row \in Tables["ownership"] : row.ticker = call.ticker}
  BY <1>2, SelectedByTicker
<1>6. Selected("ownership", where, params) = Wanted(call)
  BY <1>1, <1>5 DEF Wanted, Of
<1>7. Order(call) = order
  BY <1>1 DEF Order
<1>8. Len(where) = 1 /\ Len(params) = 1
  OBVIOUS
<1> HIDE DEF where, params, order
<1>9. FirstHole(where, Len(where) + 1) = Len(params) + 1
  BY <1>5, <1>8
<1>10. IsFiniteSet(Tables["ownership"])
  BY TablesAssumption
<1>11. /\ call' = call /\ serving' = serving
       /\ answer'.status = IF "ownership" \in ToSet(serving.loaded) /\ ~ serving.fails
                           THEN "rows" ELSE "failed"
       /\ answer'.status = "rows" =>
            FirstOf(answer'.rows, Selected("ownership", where, params), order, Bounds(call))
  BY <1>1, <1>3, <1>4, <1>9, <1>10, QueryAnswers, Zenon
<1>12. IsTolerable(call) /\ call.tool \in ListTools /\ Sources(call) = {"ownership"}
  BY <1>1 DEF IsTolerable, IsAcceptable, ListTools, Sources
<1>13. answer'.status = Outcome(call)
  BY <1>11, <1>12 DEF Outcome
<1>14. answer'.status = "rows" => ListIsRight(call, answer'.rows)
  BY <1>6, <1>7, <1>11, Zenon DEF ListIsRight
<1> QED
  BY <1>11, <1>12, <1>13, <1>14, Zenon DEF IsAnswered

(* Dates are accepted if they exist. *)
LEMMA DatedCalls ==
  ASSUME call.tool \in {"get_prices", "get_broker_activity", "get_announcements"}
  PROVE DatesOk(call) <=> IsTolerable(call)
<1>1. DatesOk(call) <=> \A s \in ToSet(call.from) \cup ToSet(call.to) : IsRealDate(s)
  BY EnsureDateIsExact DEF DatesOk
<1> QED
  BY <1>1 DEF IsTolerable, IsAcceptable

LEMMA AnswerOfPrices ==
  ASSUME call \in Calls, GetPrices \/ GetBrokerActivity
  PROVE IsAnswered
<1> DEFINE relation == IF call.tool = "get_prices" THEN "eod_summary" ELSE "broker_activity"
           where == <<Hole("ticker", "is", 1)>> \o DateRange(call)
           params == <<call.ticker>>
           order == Order(call)
<1>1. call.tool \in {"get_prices", "get_broker_activity"} /\ OfTicker(relation, order)
  BY DEF GetPrices, GetBrokerActivity, Asked, Order
<1>2. IF DatesOk(call) THEN Query(relation, where, params, order, MaxRows) ELSE Refuse
  BY <1>1, Zenon DEF OfTicker
<1>3. call.ticker # Null /\ IsOptional(call.from) /\ IsOptional(call.to)
  BY <1>1, CallsAssumption
<1>4. Wanted(call) = {row \in Tables[relation] : row.ticker = call.ticker /\ InRange(row, call)}
  <2>1. CASE call.tool = "get_prices"
    BY <2>1 DEF Wanted, Of
  <2>2. CASE call.tool = "get_broker_activity"
    BY <2>2 DEF Wanted, Of
  <2> QED
    BY <1>1, <2>1, <2>2
<1>5. /\ FirstHole(where, Len(where) + 1) = 1 + 1
      /\ Selected(relation, where, params)
           = {row \in Tables[relation] : row.ticker = call.ticker /\ InRange(row, call)}
  <2>1. where = TickerAndDates
    BY DEF TickerAndDates
  <2> HIDE DEF where, relation
  <2>2. /\ FirstHole(where, Len(where) + 1) = 1 + 1
        /\ \A row : row \in Selected(relation, where, params)
                     <=> row \in Tables[relation] /\ row.ticker = call.ticker /\ InRange(row, call)
    BY <1>3, <2>1, SelectedByTickerAndDates, Zenon
  <2>3. Selected(relation, where, params) \subseteq Tables[relation]
    BY DEF Selected
  <2> QED
    BY <2>2, <2>3
<1>6. FirstHole(where, Len(where) + 1) = Len(params) + 1
  <2>1. Len(params) = 1
    OBVIOUS
  <2> QED
    BY <1>5, <2>1, Zenon
<1>7. MaxRows \in Nat /\ MaxRows \in Bounds(call) /\ \A m \in Bounds(call) : m \in Nat /\ MaxRows <= m
  BY <1>1 DEF Bounds
<1>8. IsFiniteSet(Tables[relation])
  BY TablesAssumption
<1>9. call.tool \in ListTools /\ Sources(call) = {relation} /\ (DatesOk(call) <=> IsTolerable(call))
  BY <1>1, DatedCalls DEF ListTools, Sources
<1> HIDE DEF relation, where, params, order
<1>10. CASE DatesOk(call)
  <2>1. /\ call' = call /\ serving' = serving
        /\ answer'.status = IF relation \in ToSet(serving.loaded) /\ ~ serving.fails
                            THEN "rows" ELSE "failed"
        /\ answer'.status = "rows" =>
             FirstOf(answer'.rows, Selected(relation, where, params), order, Bounds(call))
    BY <1>2, <1>6, <1>7, <1>8, <1>10, QueryAnswers, Zenon
  <2>2. answer'.status = Outcome(call)
    BY <1>9, <2>1 DEF Outcome
  <2>3. answer'.status = "rows" => ListIsRight(call, answer'.rows)
    BY <1>4, <1>5, <2>1, Zenon DEF ListIsRight, order
  <2> QED
    BY <1>9, <1>10, <2>1, <2>2, <2>3, Zenon DEF IsAnswered
<1>11. CASE ~ DatesOk(call)
  <2>1. call' = call /\ serving' = serving /\ answer'.status = "invalid"
    BY <1>2, <1>11, Refused, Zenon
  <2> QED
    BY <1>9, <1>11, <2>1 DEF IsAnswered
<1> QED
  BY <1>10, <1>11, Zenon

LEMMA AnswerOfAnnouncements ==
  ASSUME call \in Calls, GetAnnouncements
  PROVE IsAnswered
<1> DEFINE where == (IF call.ticker_filter = <<>> THEN <<>> ELSE <<Hole("ticker", "is", 1)>>)
                      \o DateRange(call)
           params == call.ticker_filter
           order == <<Desc("date")>>
           limit == Limit(call.limit, ListDefault)
           relation == "announcements"
<1>1. /\ call.tool = "get_announcements"
      /\ IF DatesOk(call) THEN Query(relation, where, params, order, limit) ELSE Refuse
  BY Zenon DEF GetAnnouncements, Asked
<1>2. /\ IsOptional(call.from) /\ IsOptional(call.to) /\ call.limit \in Seq(Nat)
      /\ IsOptional(call.ticker_filter) /\ Null \notin ToSet(call.ticker_filter)
  BY <1>1, CallsAssumption
<1>3. Wanted(call) = {row \in Tables[relation] :
                        ToSet(call.ticker_filter) \subseteq {row.ticker} /\ InRange(row, call)}
  BY <1>1 DEF Wanted, Of
<1>4. /\ Selected(relation, where, params) = Wanted(call)
      /\ FirstHole(where, Len(where) + 1) = Len(params) + 1
  <2>1. CASE call.ticker_filter = <<>>
    <3>1. where = DateRange(call)
      <4>1. IsSeq(DateRange(call))
        BY <1>2, DateRangesMeanWhatTheySay DEF IsInlined
      <4>2. \A s : IsSeq(s) => <<>> \o s = s
        BY DEF IsSeq
      <4>3. where = <<>> \o DateRange(call)
        BY <2>1
      <4> QED
        BY <4>1, <4>2, <4>3, Zenon
    <3>2. /\ Selected(relation, DateRange(call), params) = {row \in Tables[relation] : InRange(row, call)}
          /\ FirstHole(DateRange(call), Len(DateRange(call)) + 1) = 1
      BY <1>2, SelectedByDates
    <3>3. ToSet(call.ticker_filter) = {} /\ Len(call.ticker_filter) + 1 = 1
      BY <2>1 DEF ToSet
    <3>4. Selected(relation, where, params) = Wanted(call)
      BY <1>3, <3>1, <3>2, <3>3
    <3> HIDE DEF where
    <3> QED
      BY <3>1, <3>2, <3>3, <3>4, Zenon
  <2>2. CASE call.ticker_filter # <<>>
    <3> DEFINE ticker == call.ticker_filter[1]
    <3>1. call.ticker_filter = <<ticker>>
      BY <1>2, <2>2 DEF IsOptional
    <3> HIDE DEF ticker
    <3>2. ToSet(call.ticker_filter) = {ticker} /\ Len(call.ticker_filter) = 1
      BY <3>1 DEF ToSet
    <3>3. ticker # Null
      BY <1>2, <3>2
    <3>4. where = <<Hole("ticker", "is", 1)>> \o DateRange(call) /\ params = <<ticker>>
      BY <2>2, <3>1
    <3> DEFINE known == <<Hole("ticker", "is", 1)>> \o DateRange(call)
    <3>5. /\ FirstHole(known, Len(known) + 1) = 1 + 1
          /\ Selected(relation, known, <<ticker>>)
               = {row \in Tables[relation] : row.ticker = ticker /\ InRange(row, call)}
      <4>1. known = TickerAndDates
        BY DEF TickerAndDates
      <4> HIDE DEF known
      <4> QED
        <5>1. /\ FirstHole(known, Len(known) + 1) = 1 + 1
              /\ \A row : row \in Selected(relation, known, <<ticker>>)
                           <=> row \in Tables[relation] /\ row.ticker = ticker /\ InRange(row, call)
          BY <1>2, <3>3, <4>1, SelectedByTickerAndDates, Zenon
        <5>2. Selected(relation, known, <<ticker>>) \subseteq Tables[relation]
          BY DEF Selected
        <5> QED
          BY <5>1, <5>2
    <3>6. \A row : {ticker} \subseteq {row.ticker} <=> row.ticker = ticker
      OBVIOUS
    <3>7. Wanted(call) = {row \in Tables[relation] : row.ticker = ticker /\ InRange(row, call)}
      BY <1>3, <3>2, <3>6
    <3>8. where = known /\ params = <<ticker>> /\ Len(params) = 1
      BY <3>2, <3>4
    <3> HIDE DEF where, known, params
    <3> QED
      BY <3>5, <3>7, <3>8, Zenon
  <2> QED
    BY <2>1, <2>2
<1>5. Order(call) = order
  BY <1>1 DEF Order
<1>6. Bounds(call) = {MaxRows} \cup {IF call.limit = <<>> THEN ListDefault ELSE call.limit[1]}
  BY <1>1 DEF Bounds
<1>7. limit \in Nat /\ limit \in Bounds(call) /\ \A m \in Bounds(call) : m \in Nat /\ limit <= m
  BY <1>2, <1>6, LimitIsLeast
<1>8. IsFiniteSet(Tables[relation])
  BY TablesAssumption
<1>9. call.tool \in ListTools /\ Sources(call) = {relation} /\ (DatesOk(call) <=> IsTolerable(call))
  BY <1>1, DatedCalls DEF ListTools, Sources
<1> HIDE DEF where, params, order, limit, relation
<1>10. CASE DatesOk(call)
  <2>1. /\ call' = call /\ serving' = serving
        /\ answer'.status = IF relation \in ToSet(serving.loaded) /\ ~ serving.fails
                            THEN "rows" ELSE "failed"
        /\ answer'.status = "rows" =>
             FirstOf(answer'.rows, Selected(relation, where, params), order, Bounds(call))
    BY <1>1, <1>4, <1>7, <1>8, <1>10, QueryAnswers, Zenon
  <2>2. answer'.status = Outcome(call)
    BY <1>9, <2>1 DEF Outcome
  <2>3. answer'.status = "rows" => ListIsRight(call, answer'.rows)
    BY <1>4, <1>5, <2>1, Zenon DEF ListIsRight
  <2> QED
    BY <1>9, <1>10, <2>1, <2>2, <2>3, Zenon DEF IsAnswered
<1>11. CASE ~ DatesOk(call)
  <2>1. call' = call /\ serving' = serving /\ answer'.status = "invalid"
    BY <1>1, <1>11, Refused, Zenon
  <2> QED
    BY <1>9, <1>11, <2>1 DEF IsAnswered
<1> QED
  BY <1>10, <1>11, Zenon

(* The order the screen asks DuckDB for is the one it documents. *)
LEMMA OrderOfScreen ==
  ASSUME call.tool = "screen_stocks", IsOptional(call.sort),
         \A s \in ToSet(call.sort) : s.desc \in {<<>>, <<TRUE>>, <<FALSE>>}
  PROVE Order(call) = ScreenOrder(call.sort)
<1>1. CASE call.sort = <<>>
  BY <1>1 DEF Order, ScreenOrder
<1>2. CASE call.sort # <<>>
  <2> DEFINE sort == call.sort[1]
  <2>1. call.sort = <<sort>>
    BY <1>2 DEF IsOptional
  <2> HIDE DEF sort
  <2>2. sort.desc \in {<<>>, <<TRUE>>, <<FALSE>>}
    <3>1. sort \in ToSet(call.sort)
      <4>1. ToSet(<<sort>>) = {sort}
        BY DEF ToSet
      <4> QED
        BY <2>1, <4>1
    <3> QED
      BY <3>1, Zenon
  <2>3. <<>> # <<FALSE>> /\ <<TRUE>> # <<FALSE>>
    <3>1. <<TRUE>>[1] # <<FALSE>>[1] /\ Len(<<>>) # Len(<<FALSE>>)
      OBVIOUS
    <3> QED
      BY <3>1
  <2>4. sort.desc # <<FALSE>> <=> sort.desc \in {<<>>, <<TRUE>>}
    <3>1. CASE sort.desc = <<>>
      BY <2>3, <3>1, Zenon
    <3>2. CASE sort.desc = <<TRUE>>
      BY <2>3, <3>2, Zenon
    <3>3. CASE sort.desc = <<FALSE>>
      BY <2>3, <3>3, Zenon
    <3>4. sort.desc = <<>> \/ sort.desc = <<TRUE>> \/ sort.desc = <<FALSE>>
      BY <2>2, Zenon
    <3> QED
      BY <3>1, <3>2, <3>3, <3>4, Zenon
  <2>5. Order(call) = <<[field |-> Lower(sort.field), desc |-> sort.desc # <<FALSE>>]>>
    BY <1>2 DEF Order, sort
  <2>6. ScreenOrder(call.sort) = <<[field |-> Lower(sort.field), desc |-> sort.desc \in {<<>>, <<TRUE>>}]>>
    BY <1>2 DEF ScreenOrder, sort
  <2>7. (sort.desc # <<FALSE>>) = (sort.desc \in {<<>>, <<TRUE>>})
    <3> DEFINE a == sort.desc # <<FALSE>>
               b == sort.desc \in {<<>>, <<TRUE>>}
    <3>1. a <=> b
      BY <2>4, Zenon
    <3>2. a \in BOOLEAN
      BY Zenon
    <3>3. b \in BOOLEAN
      <4>1. \A S, x : (x \in S) \in BOOLEAN
        OBVIOUS
      <4> QED
        BY <4>1, Zenon
    <3> HIDE DEF a, b
    <3>4. a = b
      BY <3>1, <3>2, <3>3, Zenon
    <3> QED
      BY <3>4, Zenon DEF a, b
  <2> QED
    BY <2>5, <2>6, <2>7, Zenon
<1> QED
  BY <1>1, <1>2

LEMMA AnswerOfScreen ==
  ASSUME call \in Calls, ScreenStocks
  PROVE IsAnswered
<1> DEFINE built == [i \in DOMAIN call.filters |-> ScreenClause(call.filters[i])]
           where == [i \in DOMAIN built |-> built[i].clause]
           params == FlattenSeq([i \in DOMAIN built |-> built[i].params])
           order == ScreenOrder(call.sort)
           limit == Limit(call.limit, ListDefault)
           accepted == (\A i \in DOMAIN built : built[i].ok) /\ CanSort(call.sort)
<1>1. /\ call.tool = "screen_stocks"
      /\ IF accepted THEN Query("latest", where, params, order, limit) ELSE Refuse
  BY Zenon DEF ScreenStocks, Asked
<1>2. /\ IsSeq(call.filters) /\ call.limit \in Seq(Nat)
      /\ \A f \in ToSet(call.filters) : IsValue(f.value)
      /\ IsOptional(call.sort) /\ \A s \in ToSet(call.sort) : s.desc \in {<<>>, <<TRUE>>, <<FALSE>>}
  BY <1>1, CallsAssumption
<1>3. DOMAIN built = DOMAIN call.filters
      /\ \A i \in DOMAIN built : built[i] = ScreenClause(call.filters[i])
  OBVIOUS
<1>4. \A f \in ToSet(call.filters) : ScreenClause(f).ok <=> IsFilter(f, {"num", "numstr"})
  BY <1>2, ClausesOfFilters
<1>5. accepted <=> IsTolerable(call)
  <2>1. IsTolerable(call) <=> (\A f \in ToSet(call.filters) : IsFilter(f, {"num", "numstr"}))
                                /\ CanSort(call.sort)
    BY <1>1 DEF IsTolerable, IsAcceptable, CanSort
  <2> HIDE DEF built
  <2>2. (\A i \in DOMAIN built : built[i].ok)
          <=> \A f \in ToSet(call.filters) : IsFilter(f, {"num", "numstr"})
    BY <1>3, <1>4 DEF ToSet
  <2> QED
    BY <2>1, <2>2
<1>6. Wanted(call) = {row \in Tables["latest"] : \A f \in ToSet(call.filters) : Passes(row, f)}
  BY <1>1 DEF Wanted, Of
<1>7. ASSUME accepted
      PROVE /\ Selected("latest", where, params) = Wanted(call)
            /\ FirstHole(where, Len(where) + 1) = Len(params) + 1
  <2>1. \A i \in DOMAIN call.filters : ScreenClause(call.filters[i]).ok
    <3> HIDE DEF built
    <3> QED
      BY <1>3, <1>7
  <2>2. /\ FirstHole(where, Len(where) + 1) = Len(params) + 1
        /\ Selected("latest", where, params)
             = {row \in Tables["latest"] : \A f \in ToSet(call.filters) : Passes(row, f)}
    BY <1>2, <2>1, SelectedByFilters, Zenon
  <2> QED
    BY <1>6, <2>2, Zenon
<1>8. Order(call) = order
  BY <1>1, <1>2, OrderOfScreen, Zenon
<1>9. Bounds(call) = {MaxRows} \cup {IF call.limit = <<>> THEN ListDefault ELSE call.limit[1]}
  BY <1>1 DEF Bounds
<1>10. limit \in Nat /\ limit \in Bounds(call) /\ \A m \in Bounds(call) : m \in Nat /\ limit <= m
  BY <1>2, <1>9, LimitIsLeast
<1>11. IsFiniteSet(Tables["latest"])
  BY TablesAssumption
<1>12. call.tool \in ListTools /\ Sources(call) = {"latest"}
  BY <1>1 DEF ListTools, Sources
<1> HIDE DEF accepted, built, where, params, order, limit
<1>13. CASE accepted
  <2>1. /\ call' = call /\ serving' = serving
        /\ answer'.status = IF "latest" \in ToSet(serving.loaded) /\ ~ serving.fails
                            THEN "rows" ELSE "failed"
        /\ answer'.status = "rows" =>
             FirstOf(answer'.rows, Selected("latest", where, params), order, Bounds(call))
    BY <1>1, <1>7, <1>10, <1>11, <1>13, QueryAnswers, Zenon
  <2>2. answer'.status = Outcome(call)
    BY <1>12, <2>1 DEF Outcome
  <2>3. answer'.status = "rows" => ListIsRight(call, answer'.rows)
    BY <1>7, <1>8, <1>13, <2>1, Zenon DEF ListIsRight
  <2> QED
    BY <1>5, <1>12, <1>13, <2>1, <2>2, <2>3, Zenon DEF IsAnswered
<1>14. CASE ~ accepted
  <2>1. call' = call /\ serving' = serving /\ answer'.status = "invalid"
    BY <1>1, <1>14, Refused, Zenon
  <2> QED
    BY <1>5, <1>12, <1>14, <2>1 DEF IsAnswered
<1> QED
  BY <1>13, <1>14, Zenon

(* A call of get_company is never invalid, and gets the first row of each    *)
(* query.                                                                    *)
LEMMA AnswerOfCompany ==
  ASSUME call \in Calls, GetCompany
  PROVE /\ call' = call /\ serving' = serving /\ call.tool = "get_company"
        /\ answer'.status = Outcome(call)
        /\ answer'.status = "rows" => CompanyIsRight(call, answer'.rows)
<1> DEFINE where == <<Hole("ticker", "is", 1)>>
           params == <<call.ticker>>
           first(relation, order) == Execute(relation, where, params, order, 1)
           relations == <<"companies", "fundamentals", "summary">>
           runs == \A relation \in {"companies", "fundamentals", "summary"} :
                     CanRun(relation, where, params)
<1>1. call.tool = "get_company"
  BY DEF GetCompany, Asked
<1>2. IF runs
      THEN \E profile \in first("companies", <<>>), key_stats \in first("fundamentals", <<Desc("date")>>),
              summary \in first("summary", <<>>) : Reply(Rows(<<profile, key_stats, summary>>))
      ELSE Reply(Error("failed"))
  BY Zenon DEF GetCompany, Fail
<1>3. call.ticker # Null
  BY <1>1, CallsAssumption
<1>4. \A relation : /\ FirstHole(where, 1 + 1) = 1 + 1
                    /\ Selected(relation, where, params) = {row \in Tables[relation] : row.ticker = call.ticker}
  BY <1>3, SelectedByTicker
<1>5. Len(where) = 1 /\ Len(params) = 1
  OBVIOUS
<1> HIDE DEF where, params
<1>6. runs <=> {"companies", "fundamentals", "summary"} \subseteq ToSet(serving.loaded) /\ ~ serving.fails
  BY <1>4, <1>5 DEF CanRun
<1>7. Sources(call) = {"companies", "fundamentals", "summary"}
  BY <1>1 DEF Sources
<1>8. Outcome(call) = IF runs THEN "rows" ELSE "failed"
  <2> HIDE DEF runs
  <2> QED
    BY <1>6, <1>7 DEF Outcome
<1>9. ASSUME NEW relation \in {"companies", "fundamentals", "summary"}, NEW order, NEW rows \in first(relation, order)
      PROVE FirstOf(rows, {row \in Tables[relation] : row.ticker = call.ticker}, order, {1})
  <2>1. IsFiniteSet(Tables[relation]) /\ 1 \in Nat /\ 1 \in {1} /\ \A m \in {1} : m \in Nat /\ 1 <= m
    BY TablesAssumption
  <2>2. FirstOf(rows, Selected(relation, where, params), order, {1})
    BY <2>1, QueriesReturnTheFirst, Zenon
  <2> QED
    BY <1>4, <2>2
<1> HIDE DEF first, runs
<1>10. CASE runs
  <2>1. PICK profile \in first("companies", <<>>), key_stats \in first("fundamentals", <<Desc("date")>>),
             summary \in first("summary", <<>>) : Reply(Rows(<<profile, key_stats, summary>>))
    BY <1>2, <1>10, Zenon
  <2>2. /\ call' = call /\ serving' = serving /\ answer'.status = "rows"
        /\ answer'.rows = <<profile, key_stats, summary>>
    BY <2>1 DEF Reply, Rows
  <2>3. /\ answer'.rows[1] = profile /\ answer'.rows[2] = key_stats /\ answer'.rows[3] = summary
        /\ relations[1] = "companies" /\ relations[2] = "fundamentals" /\ relations[3] = "summary"
    BY <2>2
  <2> HIDE DEF relations
  <2>4. ASSUME NEW i \in 1..3
        PROVE FirstOf(answer'.rows[i], {row \in Tables[relations[i]] : row.ticker = call.ticker},
                      IF i = 2 THEN <<Desc("date")>> ELSE <<>>, {1})
    <3>1. CASE i = 1
      BY <1>9, <2>3, <3>1
    <3>2. CASE i = 2
      BY <1>9, <2>3, <3>2
    <3>3. CASE i = 3
      BY <1>9, <2>3, <3>3
    <3> QED
      BY <3>1, <3>2, <3>3
  <2>5. ASSUME NEW i \in 1..3
        PROVE FirstOf(answer'.rows[i], Of(relations[i], LAMBDA r : r.ticker = call.ticker),
                      IF i = 2 THEN <<Desc("date")>> ELSE <<>>, {1})
    BY <2>4 DEF Of
  <2>6. CompanyIsRight(call, answer'.rows)
    BY <2>5, Zenon DEF CompanyIsRight, relations
  <2>7. answer'.status = Outcome(call)
    BY <1>8, <1>10, <2>2
  <2> QED
    BY <1>1, <2>2, <2>6, <2>7, Zenon
<1>11. CASE ~ runs
  <2>1. call' = call /\ serving' = serving /\ answer'.status = "failed"
    BY <1>2, <1>11 DEF Reply, Error
  <2> QED
    BY <1>1, <1>8, <1>11, <2>1
<1> QED
  BY <1>10, <1>11, Zenon

LEMMA AnswerOfSchema ==
  ASSUME serving \in Servings, DescribeSchema
  PROVE /\ call' = call /\ serving' = serving /\ call.tool = "describe_schema"
        /\ answer'.status = "rows" => SchemaIsRight(call, answer'.rows)
        /\ answer'.status = "failed" => serving.fails
<1> DEFINE loaded == serving.loaded
           described(name) == call.dataset = <<>> \/ Lower(call.dataset[1]) = Lower(name)
           names == FlattenSeq([i \in DOMAIN loaded |-> IF described(loaded[i]) THEN <<loaded[i]>> ELSE <<>>])
<1>1. /\ call.tool = "describe_schema"
      /\ IF serving.fails /\ names # <<>> THEN Reply(Error("failed")) ELSE Reply(Rows(names))
  BY Zenon DEF DescribeSchema, Asked, Fail
<1>2. IsSeq(loaded) /\ ToSet(loaded) \subseteq Catalog
  BY ServingsAssumption
<1>3. ToSet(names) = {n \in ToSet(loaded) : call.dataset = <<>> \/ n = Lower(call.dataset[1])}
  BY <1>2, DescribedAreAsked, Zenon
<1> HIDE DEF names
<1>4. CASE serving.fails /\ names # <<>>
  <2>1. call' = call /\ serving' = serving /\ answer'.status = "failed"
    BY <1>1, <1>4 DEF Reply, Error
  <2> QED
    BY <1>1, <1>4, <2>1
<1>5. CASE ~ (serving.fails /\ names # <<>>)
  <2>1. call' = call /\ serving' = serving /\ answer'.status = "rows" /\ answer'.rows = names
    BY <1>1, <1>5 DEF Reply, Rows
  <2>2. SchemaIsRight(call, names)
    BY <1>3, Zenon DEF SchemaIsRight
  <2>3. answer'.status # "failed"
    BY <2>1
  <2> QED
    BY <1>1, <2>1, <2>2, <2>3, Zenon
<1> QED
  BY <1>4, <1>5, Zenon

IInv ==
  /\ call \in Calls /\ serving \in Servings
  /\ AnswersAreWhatWasAsked /\ TruncationIsTold /\ QueriesAreVetted

(* What is documented is accepted. *)
LEMMA LegalIsTolerable == IsLegal(call) => IsTolerable(call)
<1>1. \A f : IsFilter(f, {"num"}) => IsFilter(f, {"num", "numstr"})
  BY DEF IsFilter
<1> QED
  BY <1>1 DEF IsLegal, IsTolerable, IsAcceptable

(* An answer of a list tool keeps the invariant. *)
LEMMA ListAnswer ==
  ASSUME call \in Calls, serving \in Servings, IsAnswered
  PROVE IInv'
<1>1. /\ call' = call /\ serving' = serving /\ call.tool \in ListTools
      /\ answer'.status = IF IsTolerable(call) THEN Outcome(call) ELSE "invalid"
      /\ answer'.status = "rows" => ListIsRight(call, answer'.rows)
  BY DEF IsAnswered
<1>2. call.tool \notin {"get_company", "describe_schema", "run_query"}
  BY <1>1 DEF ListTools
<1>3. (IsLegal(call))' = IsLegal(call) /\ (IsTolerable(call))' = IsTolerable(call)
      /\ (Outcome(call))' = Outcome(call)
  BY <1>1 DEF IsLegal, IsTolerable, IsAcceptable, Outcome
<1>4. RefusalsAreRight'
  BY <1>1, <1>3, LegalIsTolerable DEF RefusalsAreRight
<1>5. AnswersAreWhatWasAsked'
  BY <1>1, <1>2, <1>4 DEF AnswersAreWhatWasAsked
<1>6. TruncationIsTold' /\ QueriesAreVetted'
  BY <1>1, <1>2 DEF TruncationIsTold, QueriesAreVetted
<1> QED
  BY <1>1, <1>5, <1>6 DEF IInv

(* Every tool keeps the invariant. *)
LEMMA ListTool ==
  ASSUME call \in Calls, serving \in Servings,
         SearchTickers \/ GetPrices \/ GetBrokerActivity \/ GetOwnership \/ GetAnnouncements \/ ScreenStocks
  PROVE IInv'
<1>1. IsAnswered
  BY AnswerOfSearch, AnswerOfPrices, AnswerOfOwnership, AnswerOfAnnouncements, AnswerOfScreen
<1> QED
  BY <1>1, ListAnswer

LEMMA CompanyTool ==
  ASSUME call \in Calls, serving \in Servings, GetCompany
  PROVE IInv'
<1>1. /\ call' = call /\ serving' = serving /\ call.tool = "get_company"
      /\ answer'.status = Outcome(call)
      /\ answer'.status = "rows" => CompanyIsRight(call, answer'.rows)
  BY AnswerOfCompany
<1>2. call.tool \notin ListTools
  BY <1>1 DEF ListTools
<1>3. IsTolerable(call) /\ (IsTolerable(call))' = IsTolerable(call)
  BY <1>1 DEF IsTolerable, IsAcceptable
<1>4. (Outcome(call))' = Outcome(call)
  BY <1>1 DEF Outcome
<1>5. RefusalsAreRight'
  BY <1>1, <1>3, <1>4 DEF RefusalsAreRight
<1>6. AnswersAreWhatWasAsked'
  BY <1>1, <1>2, <1>5 DEF AnswersAreWhatWasAsked
<1>7. TruncationIsTold' /\ QueriesAreVetted'
  BY <1>1 DEF TruncationIsTold, QueriesAreVetted
<1> QED
  BY <1>1, <1>6, <1>7 DEF IInv

LEMMA SchemaTool ==
  ASSUME call \in Calls, serving \in Servings, DescribeSchema
  PROVE IInv'
<1>1. /\ call' = call /\ serving' = serving /\ call.tool = "describe_schema"
      /\ answer'.status = "rows" => SchemaIsRight(call, answer'.rows)
      /\ answer'.status = "failed" => serving.fails
  BY AnswerOfSchema
<1>2. call.tool \notin ListTools \cup {"get_company"}
  BY <1>1 DEF ListTools
<1>3. (SchemaIsRight(call, answer.rows))' <=> SchemaIsRight(call, answer'.rows)
  BY <1>1 DEF SchemaIsRight
<1>4. RefusalsAreRight'
  BY <1>1, <1>2 DEF RefusalsAreRight
<1>5. AnswersAreWhatWasAsked'
  BY <1>1, <1>2, <1>3, <1>4 DEF AnswersAreWhatWasAsked
<1>6. TruncationIsTold' /\ QueriesAreVetted'
  BY <1>1 DEF TruncationIsTold, QueriesAreVetted
<1> QED
  BY <1>1, <1>5, <1>6 DEF IInv

(* run_query passes and refuses what it should, and tells what it cuts. *)
LEMMA QueryTool ==
  ASSUME call \in Calls, serving \in Servings, RunQuery
  PROVE IInv'
<1>0. call' = call /\ serving' = serving
  BY DEF RunQuery, Reply
<1>1. call.tool = "run_query"
  BY DEF RunQuery, Asked
<1>2. /\ call.limit \in Seq(Nat) /\ call.result \in Nat
      /\ \A i \in 1..Len(call.sql) : SyntaxTree(call.sql[i])
  BY <1>1, CallsAssumption
<1>3. answer' = CASE serving.fails -> Error("failed")
                  [] ~ serving.fails /\ ~ Validate(call.sql) -> Error("refused")
                  [] OTHER -> IF Binds(call.sql[1], ToSet(serving.loaded))
                              THEN Capped(call.result, Cap(call.limit)) ELSE Error("failed")
  BY Zenon DEF RunQuery, Reply
<1>4. AnswersAreWhatWasAsked'
  <2>1. call.tool \notin ListTools \cup {"get_company", "describe_schema"}
    BY <1>1 DEF ListTools
  <2> QED
    BY <1>0, <2>1 DEF AnswersAreWhatWasAsked, RefusalsAreRight
<1>5. Error("refused").status = "refused" /\ Error("failed").status = "failed"
  BY DEF Error
<1>6. Cap(call.limit) \in Nat
  BY <1>2, CapIsBetween
<1>7. Capped(call.result, Cap(call.limit)).status = "rows"
  BY <1>2, <1>6, CutsAreTold
<1>8. answer'.status = "refused" => ~ Validate(call.sql)
  BY <1>3, <1>5, <1>7
<1>9. answer'.status = "rows" =>
        /\ Validate(call.sql) /\ Binds(call.sql[1], ToSet(serving.loaded))
        /\ answer' = Capped(call.result, Cap(call.limit))
  BY <1>3, <1>5, <1>7
<1>10. QueriesAreVetted'
  <2> DEFINE single == Len(call.sql) = 1 /\ NotSelect \notin ToSet(call.sql)
             tree == call.sql[1]
             tables == BaseTables(tree)
  <2>1. ASSUME single, OnlySafeFunctions(tree),
               \A path \in tables : IsCte(tree, path) \/ IsServed(tree[path], Catalog)
        PROVE answer'.status # "refused"
    <3>1. SyntaxTree(tree)
      BY <1>2, <2>1
    <3>2. Validate(call.sql)
      BY <2>1, <3>1, ResolvingPasses, Zenon
    <3> QED
      BY <1>8, <3>2
  <2>2. ASSUME answer'.status = "rows"
        PROVE /\ single /\ OnlySafeFunctions(tree)
              /\ \A path \in tables :
                   \/ IsCte(tree, path) \/ IsServed(tree[path], ToSet(serving.loaded))
                   \/ IsNameOfCte(tree, tree[path].name)
    <3>1. single /\ OnlySafeFunctions(tree)
      BY <1>9, <2>2, PassingIsVetted
    <3>2. \A path \in tables :
            \/ IsCte(tree, path) \/ IsServed(tree[path], ToSet(serving.loaded))
            \/ IsNameOfCte(tree, tree[path].name)
      BY <1>9, <2>2, BoundIsVetted, Zenon
    <3> QED
      BY <3>1, <3>2, Zenon
  <2> QED
    BY <1>0, <2>1, <2>2, Zenon DEF QueriesAreVetted
<1>11. TruncationIsTold'
  <2> DEFINE asked == IF call.limit = <<>> THEN MaxRows ELSE call.limit[1]
             cap == Cap(call.limit)
  <2>1. asked \in Nat /\ MaxRows \in Nat \ {0}
    BY <1>2
  <2>2. /\ cap \in 1..MaxRows
        /\ cap = IF asked = 0 THEN 1 ELSE IF asked <= MaxRows THEN asked ELSE MaxRows
    BY <1>2, CapIsBetween
  <2>3. SUFFICES ASSUME answer'.status = "rows"
                 PROVE LET n == Len(answer'.rows) IN
                         /\ answer'.truncated <=> n < call.result
                         /\ n <= MaxRows /\ n <= Max({1, asked})
                         /\ n < call.result => n = MaxRows \/ n >= asked
    BY <1>0 DEF TruncationIsTold
  <2>4. answer' = Capped(call.result, cap)
    BY <1>9, <2>3
  <2>5. /\ Len(answer'.rows) = IF call.result <= cap THEN call.result ELSE cap
        /\ answer'.truncated <=> cap < call.result
    BY <1>2, <1>6, <2>4, CutsAreTold
  <2> HIDE DEF asked, cap
  <2>6. Max({1, asked}) = IF 1 >= asked THEN 1 ELSE asked
    <3>1. 1 \in Int /\ asked \in Int
      BY <2>1
    <3> QED
      BY <3>1, TwoNumbers, Zenon
  <2>7. LET n == Len(answer'.rows) IN
          /\ cap < call.result <=> n < call.result
          /\ n <= MaxRows /\ n <= Max({1, asked})
          /\ n < call.result => n = MaxRows \/ n >= asked
    BY <1>2, <2>1, <2>2, <2>5, <2>6
  <2> QED
    BY <2>5, <2>7, Zenon
<1> QED
  BY <1>0, <1>4, <1>10, <1>11 DEF IInv

LEMMA Invariance == Spec => []IInv
<1>1. Init => IInv
  BY DEF Init, IInv, AnswersAreWhatWasAsked, RefusalsAreRight, TruncationIsTold, QueriesAreVetted, Pending
<1>2. ASSUME IInv, [Next]_vars PROVE IInv'
  <2>1. CASE UNCHANGED vars
    <3>1. call' = call /\ serving' = serving /\ answer' = answer
      BY <2>1 DEF vars
    <3>2. (IsLegal(call))' = IsLegal(call) /\ (IsTolerable(call))' = IsTolerable(call)
          /\ (Outcome(call))' = Outcome(call)
      BY <3>1 DEF IsLegal, IsTolerable, IsAcceptable, Outcome
    <3>3. RefusalsAreRight'
      BY <1>2, <3>1, <3>2 DEF IInv, AnswersAreWhatWasAsked, RefusalsAreRight
    <3>4. AnswersAreWhatWasAsked'
      BY <1>2, <3>1, <3>3 DEF IInv, AnswersAreWhatWasAsked, SchemaIsRight
    <3> QED
      BY <1>2, <3>1, <3>4 DEF IInv, TruncationIsTold, QueriesAreVetted
  <2>2. CASE Next
    <3>1. call \in Calls /\ serving \in Servings
      BY <1>2 DEF IInv
    <3> QED
      BY <2>2, <3>1, ListTool, CompanyTool, SchemaTool, QueryTool DEF Next
  <2> QED
    BY <1>2, <2>1, <2>2
<1> QED
  BY <1>1, <1>2, PTL DEF Spec

(* For any request, tables, limits and serving database, loaded in part or    *)
(* failing: a typed tool answers a request that is not refused, unless its    *)
(* data is missing or a query fails, with the first rows, in the tool's order *)
(* and up to the limit, of exactly those the request describes, whatever the  *)
(* number and order of its parameters and the characters of its texts.        *)
THEOREM AnswersAreAlwaysRight == Spec => []AnswersAreWhatWasAsked
<1>1. IInv => AnswersAreWhatWasAsked
  BY DEF IInv
<1> QED
  BY <1>1, Invariance, PTL

(* For any syntax tree, catalog, list of safe functions and system tables:    *)
(* run_query refuses no single SELECT of tables of the catalog and its own    *)
(* common table expressions in scope, and each table it answers from is one   *)
(* of those, loaded, or bears a name the query itself introduces somewhere.   *)
THEOREM QueriesAreAlwaysVetted == Spec => []QueriesAreVetted
<1>1. IInv => QueriesAreVetted
  BY DEF IInv
<1> QED
  BY <1>1, Invariance, PTL

(* For any limit, hard cap and number of rows: run_query says that rows were  *)
(* cut exactly when some were, and cuts only at the limit or the hard cap.    *)
THEOREM TruncationIsAlwaysTold == Spec => []TruncationIsTold
<1>1. IInv => TruncationIsTold
  BY DEF IInv
<1> QED
  BY <1>1, Invariance, PTL

(* For any request of a typed tool: one as the tools document it is answered  *)
(* if its data is loaded and no query fails, and one with a date that does    *)
(* not exist, by the calendar of day numbers, or with a filter or sort that   *)
(* is not documented even with its numbers written as strings, is refused.    *)
(* It is the first part of AnswersAreWhatWasAsked.                            *)
THEOREM RefusalsAreAlwaysRight == Spec => []RefusalsAreRight
<1>1. IInv => RefusalsAreRight
  BY DEF IInv, AnswersAreWhatWasAsked
<1> QED
  BY <1>1, Invariance, PTL
=============================================================================
