----------------------------- MODULE DKIMProofs -----------------------------
(***************************************************************************)
(* Proofs about DKIM for texts and headers of any length: what signDKIM    *)
(* hashes is what the receiver hashes exactly if the message is Plain.     *)
(*                                                                         *)
(* The signer works line by line and field by field, the receiver position *)
(* by position, both with folds.  A fold is shown to have a run, a         *)
(* function from the number of elements seen to what it has so far         *)
(* (IsLines, IsJoin, IsRelaxHeader, IsRelaxed), and the runs are compared  *)
(* by induction on that number.  What both have in common is a filter:     *)
(* canonicalizeBody keeps the tokens at the positions Kept                 *)
(* (CanonicalIsKept), the receiver those at the positions Staying, with    *)
(* white space turned into a space (RelaxedIsFilter).                      *)
(***************************************************************************)
EXTENDS DKIM, FiniteSetTheorems, TLAPS

Token == {"x", "sp", "tab", "crlf", "lf", "nbsp"}

Text == Seq(Token)

-----------------------------------------------------------------------------
(* Induction and folds. *)

\* Induction on the natural numbers, for a set rather than a predicate: the
\* subsets 1..n of the numbers that are missing would have a least one.
LEMMA NatSet ==
  ASSUME NEW S, 0 \in S, \A n \in Nat : n \in S => n + 1 \in S
  PROVE  Nat \subseteq S
<1> DEFINE R == StrictSubsetOrdering(Nat)
           T == {1..n : n \in Nat \ S}
<1>1. ASSUME NEW x \in Nat, NEW y \in Nat, x < y PROVE <<1..x, 1..y>> \in R
  <2>1. 1..x \subseteq 1..y /\ y \in 1..y /\ y \notin 1..x /\ 1..x \subseteq Nat /\ 1..y \subseteq Nat
    BY <1>1
  <2> QED
    BY <2>1 DEF StrictSubsetOrdering
<1>2. IsWellFoundedOn(R, FiniteSubsetsOf(Nat))
  BY FS_StrictSubsetOrderingWellFounded
<1>3. T \subseteq FiniteSubsetsOf(Nat)
  <2> SUFFICES ASSUME NEW n \in Nat PROVE 1..n \in FiniteSubsetsOf(Nat)
    OBVIOUS
  <2>1. IsFiniteSet(1..n)
    BY FS_Interval
  <2>2. 1..n \subseteq Nat
    OBVIOUS
  <2> QED
    BY <2>1, <2>2 DEF FiniteSubsetsOf
<1> HIDE DEF R
<1>4. ASSUME Nat \ S # {} PROVE FALSE
  <2>1. T # {}
    BY <1>4
  <2>2. \E X \in T : \A Y \in T : <<Y, X>> \notin R
    <3> HIDE DEF T
    <3> QED
      BY <1>2, <1>3, <2>1, WFMin
  <2>3. PICK x \in Nat \ S : \A y \in Nat \ S : <<1..y, 1..x>> \notin R
    BY <2>2
  <2>4. x - 1 \in Nat /\ (x - 1) + 1 = x /\ x - 1 < x
    BY <2>3
  <2>5. x - 1 \in Nat \ S
    BY <2>4
  <2> QED
    BY <1>1, <2>3, <2>4, <2>5
<1> QED
  BY <1>4

\* The same for the positions of a text: what holds of 0 and of k + 1 when it
\* holds of k, holds of all up to n.
LEMMA UpTo ==
  ASSUME NEW n \in Nat, NEW S, 0 \in S, \A k \in 0..(n - 1) : k \in S => k + 1 \in S
  PROVE  0..n \subseteq S
<1> DEFINE U == {k \in Nat : k <= n => k \in S}
<1>1. 0 \in U
  OBVIOUS
<1>2. ASSUME NEW k \in Nat, k \in U PROVE k + 1 \in U
  <2> SUFFICES ASSUME k + 1 <= n PROVE k + 1 \in S
    OBVIOUS
  <2> QED
    BY <1>2
<1> HIDE DEF U
<1>3. Nat \subseteq U
  BY <1>1, <1>2, NatSet
<1> USE DEF U
<1> QED
  BY <1>3

\* The largest of the first k positions, and what is left without it.
LEMMA MaxOfInterval ==
  ASSUME NEW k \in Nat \ {0} PROVE Max(1..k) = k /\ (1..k) \ {k} = 1..(k - 1)
<1>1. k \in 1..k /\ \A y \in 1..k : k >= y
  OBVIOUS
<1>2. \A x \in 1..k : (\A y \in 1..k : x >= y) => x = k
  BY <1>1
<1> QED
  BY <1>1, <1>2 DEF Max

\* The largest element of a set that has the largest possible one.
LEMMA MaxOfSet ==
  ASSUME NEW n \in Nat, NEW d \in SUBSET (1..(n + 1)), n + 1 \in d
  PROVE  Max(d) = n + 1
<1>1. \A y \in d : n + 1 >= y
  OBVIOUS
<1>2. \A x \in d : (\A y \in d : x >= y) => x = n + 1
  BY <1>1
<1> QED
  BY <1>1, <1>2 DEF Max

\* A set of positions that is not empty has a largest element.
LEMMA MaxInSet ==
  ASSUME NEW n \in Nat, NEW d \in SUBSET (1..n), d # {} PROVE Max(d) \in d
<1>1. IsFiniteSet(1..n)
  BY FS_Interval
<1> DEFINE S == {k \in Nat : \A e \in SUBSET (1..k) : e # {} => \E x \in e : \A y \in e : x >= y}
<1>2. 0 \in S
  <2>1. 1..0 = {}
    OBVIOUS
  <2> QED
    BY <2>1
<1>3. ASSUME NEW k \in Nat, k \in S PROVE k + 1 \in S
  <2> SUFFICES ASSUME NEW e \in SUBSET (1..(k + 1)), e # {} PROVE \E x \in e : \A y \in e : x >= y
    OBVIOUS
  <2>1. CASE k + 1 \in e
    BY <2>1
  <2>2. CASE k + 1 \notin e
    <3>1. e \in SUBSET (1..k)
      BY <2>2
    <3> QED
      BY <1>3, <3>1
  <2> QED
    BY <2>1, <2>2
<1> HIDE DEF S
<1>4. n \in S
  BY <1>2, <1>3, NatSet
<1> USE DEF S
<1>5. \E x \in d : \A y \in d : x >= y
  BY <1>4
<1> QED
  BY <1>5 DEF Max

\* it is a solution of the recursion on the largest element of a set of
\* positions that FoldLeft is defined by.
Solves(it, n, base, step) ==
  \A d \in SUBSET (1..n) :
    it[d] = IF d = {} THEN base ELSE step[<<it[d \ {Max(d)}], Max(d)>>]

\* There is one.
LEMMA FoldExists ==
  ASSUME NEW V, NEW base \in V, NEW n \in Nat, NEW step \in [V \X (1..n) -> V]
  PROVE  \E it \in [SUBSET (1..n) -> V] : Solves(it, n, base, step)
<1> DEFINE S == {k \in Nat : k <= n => \E it \in [SUBSET (1..k) -> V] : Solves(it, k, base, step)}
<1>1. 0 \in S
  <2>1. 1..0 = {} /\ SUBSET (1..0) = {{}}
    OBVIOUS
  <2>2. [d \in SUBSET (1..0) |-> base] \in [SUBSET (1..0) -> V] /\ Solves([d \in SUBSET (1..0) |-> base], 0, base, step)
    BY <2>1 DEF Solves
  <2> QED
    BY <2>2
<1>2. ASSUME NEW k \in Nat, k \in S PROVE k + 1 \in S
  <2> SUFFICES ASSUME k + 1 <= n
               PROVE  \E it \in [SUBSET (1..(k + 1)) -> V] : Solves(it, k + 1, base, step)
    <3>1. k + 1 \in Nat
      OBVIOUS
    <3> QED
      BY <3>1, Zenon
  <2>0. k <= n
    OBVIOUS
  <2>1. PICK old \in [SUBSET (1..k) -> V] : Solves(old, k, base, step)
    BY <1>2, <2>0, Zenon
  <2>a. \A d \in SUBSET (1..(k + 1)) : /\ k + 1 \in d => d \ {k + 1} \in SUBSET (1..k)
                                       /\ k + 1 \notin d => d \in SUBSET (1..k)
    OBVIOUS
  <2> DEFINE it == [d \in SUBSET (1..(k + 1)) |->
                      IF k + 1 \in d THEN step[<<old[d \ {k + 1}], k + 1>>] ELSE old[d]]
  <2>2. ASSUME NEW d \in SUBSET (1..(k + 1)) PROVE it[d] \in V
    <3>1. CASE k + 1 \in d
      <4>1. old[d \ {k + 1}] \in V /\ k + 1 \in 1..n
        BY <2>a, <3>1
      <4>2. step[<<old[d \ {k + 1}], k + 1>>] \in V
        BY <4>1
      <4> QED
        BY <3>1, <4>2
    <3>2. CASE k + 1 \notin d
      BY <2>a, <3>2
    <3> QED
      BY <3>1, <3>2
  <2>3. it \in [SUBSET (1..(k + 1)) -> V]
    BY <2>2
  <2>4. ASSUME NEW d \in SUBSET (1..(k + 1))
        PROVE  it[d] = IF d = {} THEN base ELSE step[<<it[d \ {Max(d)}], Max(d)>>]
    <3>1. CASE k + 1 \in d
      <4>1. Max(d) = k + 1
        BY <3>1, MaxOfSet
      <4>2. d \ {k + 1} \in SUBSET (1..(k + 1)) /\ k + 1 \notin d \ {k + 1}
        OBVIOUS
      <4>3. it[d \ {k + 1}] = old[d \ {k + 1}]
        BY <4>2
      <4> QED
        BY <3>1, <4>1, <4>3
    <3>2. CASE k + 1 \notin d /\ d # {}
      <4>1. d \in SUBSET (1..k)
        BY <2>a, <3>2
      <4>2. Max(d) \in d
        BY <4>1, <3>2, MaxInSet
      <4>3. d \ {Max(d)} \in SUBSET (1..(k + 1)) /\ k + 1 \notin d \ {Max(d)}
        BY <3>2
      <4>4. it[d \ {Max(d)}] = old[d \ {Max(d)}] /\ it[d] = old[d]
        BY <4>3, <3>2
      <4> QED
        BY <3>2, <4>1, <4>4, <2>1 DEF Solves
    <3>3. CASE d = {}
      <4>1. it[d] = old[d] /\ d \in SUBSET (1..k)
        BY <3>3
      <4> QED
        BY <4>1, <3>3, <2>1 DEF Solves
    <3> QED
      BY <3>1, <3>2, <3>3
  <2> HIDE DEF it
  <2> QED
    BY <2>3, <2>4 DEF Solves
<1> HIDE DEF S
<1>3. n \in S
  BY <1>1, <1>2, NatSet
<1>4. n <= n
  OBVIOUS
<1> QED
  BY <1>3, <1>4, Zenon DEF S

\* it continues that recursion wherever its value for the smaller set is in V.
Follows(it, n, V, base, step) ==
  /\ it[{}] = base
  /\ \A d \in SUBSET (1..n) :
       d # {} /\ it[d \ {Max(d)}] \in V => it[d] = step[<<it[d \ {Max(d)}], Max(d)>>]

\* f[k] is what the fold has after k elements.
Runs(f, n, V, base, step) ==
  /\ f \in [0..n -> V]
  /\ f[0] = base
  /\ \A k \in 1..n : f[k] = step[<<f[k - 1], k>>]

EachPrefix(f, it, n) == f = [k \in 0..n |-> it[1..k]]

\* The values of the recursion on the first k positions are those of the fold.
LEMMA FoldPrefixes ==
  ASSUME NEW V, NEW base \in V, NEW n \in Nat, NEW step \in [V \X (1..n) -> V], NEW it,
         Follows(it, n, V, base, step), NEW f, EachPrefix(f, it, n)
  PROVE  Runs(f, n, V, base, step)
<1>1. it[1..0] = base
  <2>1. 1..0 = {}
    OBVIOUS
  <2> QED
    BY <2>1 DEF Follows
<1>2. ASSUME NEW k \in 1..n, it[1..(k - 1)] \in V PROVE it[1..k] = step[<<it[1..(k - 1)], k>>]
  <2>1. k \in Nat \ {0} /\ 1 \in 1..k
    OBVIOUS
  <2>2. Max(1..k) = k /\ (1..k) \ {k} = 1..(k - 1)
    BY <2>1, MaxOfInterval
  <2>3. 1..k \in SUBSET (1..n) /\ 1..k # {}
    BY <2>1
  <2> QED
    BY <1>2, <2>2, <2>3 DEF Follows
<1> DEFINE S == {k \in 0..n : it[1..k] \in V}
<1>3. 0 \in S
  BY <1>1
<1>4. ASSUME NEW k \in 0..(n - 1), k \in S PROVE k + 1 \in S
  <2>1. k + 1 \in 1..n /\ k + 1 \in 0..n /\ (k + 1) - 1 = k
    OBVIOUS
  <2>2. it[1..(k + 1)] = step[<<it[1..k], k + 1>>]
    BY <1>2, <1>4, <2>1
  <2> QED
    BY <1>4, <2>1, <2>2
<1>5. 0..n \subseteq S
  <2> HIDE DEF S
  <2> QED
    BY <1>3, <1>4, UpTo
<1>6. /\ f \in [0..n -> V] /\ f[0] = base
      /\ \A k \in 0..n : f[k] = it[1..k]
  BY <1>1, <1>5 DEF EachPrefix
<1>7. ASSUME NEW k \in 1..n PROVE f[k] = step[<<f[k - 1], k>>]
  <2>1. k \in 0..n /\ k - 1 \in 0..n
    OBVIOUS
  <2>2. it[1..(k - 1)] \in V
    BY <1>5, <2>1
  <2> QED
    BY <1>2, <1>6, <2>1, <2>2
<1> QED
  BY <1>6, <1>7 DEF Runs

\* There is a run of every fold.
LEMMA FoldRuns ==
  ASSUME NEW V, NEW base \in V, NEW n \in Nat, NEW step \in [V \X (1..n) -> V]
  PROVE  \E f : Runs(f, n, V, base, step)
<1>1. PICK it \in [SUBSET (1..n) -> V] : Solves(it, n, base, step)
  BY FoldExists
<1>2. Follows(it, n, V, base, step)
  BY <1>1 DEF Solves, Follows
<1>3. PICK f : EachPrefix(f, it, n)
  BY DEF EachPrefix
<1> QED
  BY <1>2, <1>3, FoldPrefixes

\* Lines, one token after the other.
IsLines(ls, text) ==
  /\ ls \in [0..Len(text) -> Seq(Text) \ {<<>>}]
  /\ ls[0] = << <<>> >>
  /\ \A k \in 1..Len(text) :
       ls[k] = IF text[k] = "crlf" THEN Append(ls[k - 1], <<>>)
               ELSE [ls[k - 1] EXCEPT ![Len(ls[k - 1])] = Append(@, text[k])]

\* strings.Split, as canonicalizeBody calls it, goes through the text once.
LEMMA LinesFold ==
  ASSUME NEW text \in Text
  PROVE  \E ls : IsLines(ls, text) /\ Lines(text) = ls[Len(text)]
<1> DEFINE n == Len(text)
           V == Seq(Text) \ {<<>>}
           base == << <<>> >>
           It(it) == [d \in SUBSET DOMAIN text |->
                        IF d = {} THEN base
                        ELSE IF text[Max(d)] = "crlf" THEN Append(it[d \ {Max(d)}], <<>>)
                        ELSE [it[d \ {Max(d)}] EXCEPT ![Len(it[d \ {Max(d)}])] = Append(@, text[Max(d)])]]
           c == CHOOSE it : it = It(it)
           step == [p \in V \X (1..n) |->
                         IF text[p[2]] = "crlf" THEN Append(p[1], <<>>)
                         ELSE [p[1] EXCEPT ![Len(p[1])] = Append(@, text[p[2]])]]
<1>1. Lines(text) = c[DOMAIN text]
  BY DEF Lines, FoldLeft, MapThenFoldSet
<1>2. DOMAIN text = 1..n /\ n \in Nat /\ base \in V
  BY DEF Text
<1>3. ASSUME NEW v \in V, NEW k \in 1..n
      PROVE  (IF text[k] = "crlf" THEN Append(v, <<>>)
              ELSE [v EXCEPT ![Len(v)] = Append(@, text[k])]) \in V
  <2>1. text[k] \in Token
    BY DEF Text
  <2>2. <<>> \in Text
    BY DEF Text
  <2>3. Append(v, <<>>) \in V
    BY <2>2
  <2>4. Len(v) \in 1..Len(v) /\ v[Len(v)] \in Text /\ Append(v[Len(v)], text[k]) \in Text
    BY <2>1 DEF Text
  <2>5. [v EXCEPT ![Len(v)] = Append(@, text[k])] \in V
    BY <2>4
  <2> QED
    BY <2>3, <2>5
<1>4. step \in [V \X (1..n) -> V]
  BY <1>3
<1>5. PICK old \in [SUBSET (1..n) -> V] : Solves(old, n, base, step)
  <2> HIDE DEF V, step, base, n
  <2> QED
    BY <1>2, <1>4, FoldExists
<1>6. \A d \in SUBSET (1..n) : d # {} => Max(d) \in 1..n /\ d \ {Max(d)} \in SUBSET (1..n)
  BY <1>2, MaxInSet
<1>7. old = It(old)
  BY <1>2, <1>5, <1>6 DEF Solves
<1>8. c = It(c)
  BY <1>7
<1> HIDE DEF c
<1>9. Follows(c, n, V, base, step)
  <2>1. c[{}] = base
    BY <1>8
  <2>2. ASSUME NEW d \in SUBSET (1..n), d # {}, c[d \ {Max(d)}] \in V
        PROVE  c[d] = step[<<c[d \ {Max(d)}], Max(d)>>]
    <3> DEFINE w == c[d \ {Max(d)}]
               m == Max(d)
    <3>1. m \in 1..n /\ w \in V /\ d \in SUBSET DOMAIN text
      BY <1>2, <1>6, <2>2
    <3>2. c[d] = IF text[m] = "crlf" THEN Append(w, <<>>)
                 ELSE [w EXCEPT ![Len(w)] = Append(@, text[m])]
      BY <1>8, <2>2, <3>1
    <3> HIDE DEF w, m, V
    <3>3. step[<<w, m>>] = IF text[m] = "crlf" THEN Append(w, <<>>)
                           ELSE [w EXCEPT ![Len(w)] = Append(@, text[m])]
      BY <3>1
    <3> QED
      BY <3>2, <3>3 DEF w, m
  <2> HIDE DEF V, step, base, n
  <2> QED
    BY <2>1, <2>2 DEF Follows
<1> DEFINE ls == [k \in 0..n |-> c[1..k]]
<1>10. Runs(ls, n, V, base, step)
  <2>1. EachPrefix(ls, c, n)
    BY DEF EachPrefix
  <2> HIDE DEF V, step, base, n, ls
  <2> QED
    BY <1>2, <1>4, <1>9, <2>1, FoldPrefixes
<1> HIDE DEF ls
<1>11. IsLines(ls, text)
  <2>1. ls \in [0..n -> V] /\ ls[0] = base
    BY <1>10 DEF Runs
  <2>2. ASSUME NEW k \in 1..n
        PROVE  ls[k] = IF text[k] = "crlf" THEN Append(ls[k - 1], <<>>)
                       ELSE [ls[k - 1] EXCEPT ![Len(ls[k - 1])] = Append(@, text[k])]
    <3>1. ls[k] = step[<<ls[k - 1], k>>] /\ ls[k - 1] \in V
      <4>1. k - 1 \in 0..n
        BY <1>2
      <4> HIDE DEF V, step, base, n
      <4> QED
        BY <1>10, <4>1 DEF Runs
    <3> HIDE DEF V
    <3> QED
      BY <3>1
  <2> QED
    BY <2>1, <2>2 DEF IsLines
<1>12. Lines(text) = ls[n]
  BY <1>1, <1>2 DEF ls
<1> QED
  BY <1>11, <1>12

\* Relaxed, one position after the other.
IsRelaxed(f, text) ==
  /\ f \in [0..Len(text) -> Text]
  /\ f[0] = <<>>
  /\ \A k \in 1..Len(text) :
       f[k] = IF Stays(text, k) THEN Append(f[k - 1], IF text[k] \in WSP THEN "sp" ELSE text[k])
                         ELSE f[k - 1]

\* What the receiver makes of a text, it makes position by position.
LEMMA RelaxedFold ==
  ASSUME NEW text \in Text
  PROVE  \E f : IsRelaxed(f, text) /\ Relaxed(text) = f[Len(text)]
<1> DEFINE n == Len(text)
           V == Text
           base == <<>>
           It(it) == [d \in SUBSET DOMAIN [i \in 1..Len(text) |-> i] |->
                        IF d = {} THEN base
                        ELSE IF ~Stays(text, [i \in 1..Len(text) |-> i][Max(d)]) THEN it[d \ {Max(d)}]
                             ELSE Append(it[d \ {Max(d)}], IF text[[i \in 1..Len(text) |-> i][Max(d)]] \in WSP THEN "sp" ELSE text[[i \in 1..Len(text) |-> i][Max(d)]])]
           c == CHOOSE it : it = It(it)
           step == [p \in V \X (1..n) |->
                         IF Stays(text, p[2]) THEN Append(p[1], IF text[p[2]] \in WSP THEN "sp" ELSE text[p[2]])
                         ELSE p[1]]
<1>1. Relaxed(text) = c[DOMAIN [i \in 1..Len(text) |-> i]]
  BY DEF Relaxed, FoldLeft, MapThenFoldSet
<1>2. DOMAIN [i \in 1..Len(text) |-> i] = 1..n /\ n \in Nat /\ base \in V
  BY DEF Text
<1>3. ASSUME NEW v \in V, NEW k \in 1..n
      PROVE  (IF Stays(text, k) THEN Append(v, IF text[k] \in WSP THEN "sp" ELSE text[k])
                         ELSE v) \in V
  <2>1. text[k] \in Token
    BY DEF Text
  <2> QED
    BY <2>1 DEF Text, WSP, Token
<1>4. step \in [V \X (1..n) -> V]
  BY <1>3
<1>5. PICK old \in [SUBSET (1..n) -> V] : Solves(old, n, base, step)
  <2> HIDE DEF V, step, base, n
  <2> QED
    BY <1>2, <1>4, FoldExists
<1>6. \A d \in SUBSET (1..n) : d # {} => Max(d) \in 1..n /\ d \ {Max(d)} \in SUBSET (1..n)
  BY <1>2, MaxInSet
<1>7. old = It(old)
  BY <1>2, <1>5, <1>6 DEF Solves
<1>8. c = It(c)
  <2> HIDE DEF It
  <2> QED
    BY <1>7, Zenon
<1> HIDE DEF c
<1>9. Follows(c, n, V, base, step)
  <2>1. c[{}] = base
    BY <1>8
  <2>2. ASSUME NEW d \in SUBSET (1..n), d # {}, c[d \ {Max(d)}] \in V
        PROVE  c[d] = step[<<c[d \ {Max(d)}], Max(d)>>]
    <3> DEFINE w == c[d \ {Max(d)}]
               m == Max(d)
    <3>1. m \in 1..n /\ w \in V /\ d \in SUBSET DOMAIN [i \in 1..Len(text) |-> i]
      BY <1>2, <1>6, <2>2
    <3>2. c[d] = IF Stays(text, m) THEN Append(w, IF text[m] \in WSP THEN "sp" ELSE text[m])
                         ELSE w
      BY <1>8, <2>2, <3>1
    <3> HIDE DEF w, m, V
    <3>3. step[<<w, m>>] = IF Stays(text, m) THEN Append(w, IF text[m] \in WSP THEN "sp" ELSE text[m])
                         ELSE w
      BY <3>1
    <3> QED
      BY <3>2, <3>3 DEF w, m
  <2> HIDE DEF V, step, base, n
  <2> QED
    BY <2>1, <2>2 DEF Follows
<1> DEFINE f == [k \in 0..n |-> c[1..k]]
<1>10. Runs(f, n, V, base, step)
  <2>1. EachPrefix(f, c, n)
    BY DEF EachPrefix
  <2> HIDE DEF V, step, base, n, f
  <2> QED
    BY <1>2, <1>4, <1>9, <2>1, FoldPrefixes
<1> HIDE DEF f
<1>11. IsRelaxed(f, text)
  <2>1. f \in [0..n -> V] /\ f[0] = base
    BY <1>10 DEF Runs
  <2>2. ASSUME NEW k \in 1..n
        PROVE  f[k] = IF Stays(text, k) THEN Append(f[k - 1], IF text[k] \in WSP THEN "sp" ELSE text[k])
                         ELSE f[k - 1]
    <3>1. f[k] = step[<<f[k - 1], k>>] /\ f[k - 1] \in V
      <4>1. k - 1 \in 0..n
        BY <1>2
      <4> HIDE DEF V, step, base, n
      <4> QED
        BY <1>10, <4>1 DEF Runs
    <3> HIDE DEF V
    <3> QED
      BY <3>1
  <2> QED
    BY <2>1, <2>2 DEF IsRelaxed
<1>12. Relaxed(text) = f[n]
  BY <1>1, <1>2 DEF f
<1> QED
  BY <1>11, <1>12

\* RelaxHeaderValue, one position after the other.
IsRelaxHeader(f, value) ==
  /\ f \in [0..Len(value) -> Text]
  /\ f[0] = <<>>
  /\ \A k \in 1..Len(value) :
       f[k] = IF value[k] \in {"sp", "tab", "nbsp"} THEN f[k - 1]
    ELSE IF f[k - 1] # <<>> /\ k > 1 /\ value[k - 1] \in {"sp", "tab", "nbsp"}
      THEN f[k - 1] \o <<"sp", value[k]>>
      ELSE Append(f[k - 1], value[k])

\* So does relaxHeaderValue with a header's value.
LEMMA RelaxHeaderFold ==
  ASSUME NEW value \in Text
  PROVE  \E f : IsRelaxHeader(f, value) /\ RelaxHeaderValue(value) = f[Len(value)]
<1> DEFINE n == Len(value)
           V == Text
           base == <<>>
           It(it) == [d \in SUBSET DOMAIN [i \in 1..Len(value) |-> i] |->
                        IF d = {} THEN base
                        ELSE IF value[[i \in 1..Len(value) |-> i][Max(d)]] \in {"sp", "tab", "nbsp"} THEN it[d \ {Max(d)}]
    ELSE IF it[d \ {Max(d)}] # <<>> /\ [i \in 1..Len(value) |-> i][Max(d)] > 1 /\ value[[i \in 1..Len(value) |-> i][Max(d)] - 1] \in {"sp", "tab", "nbsp"}
      THEN it[d \ {Max(d)}] \o <<"sp", value[[i \in 1..Len(value) |-> i][Max(d)]]>>
      ELSE Append(it[d \ {Max(d)}], value[[i \in 1..Len(value) |-> i][Max(d)]])]
           c == CHOOSE it : it = It(it)
           step == [p \in V \X (1..n) |->
                         IF value[p[2]] \in {"sp", "tab", "nbsp"} THEN p[1]
    ELSE IF p[1] # <<>> /\ p[2] > 1 /\ value[p[2] - 1] \in {"sp", "tab", "nbsp"}
      THEN p[1] \o <<"sp", value[p[2]]>>
      ELSE Append(p[1], value[p[2]])]
<1>1. RelaxHeaderValue(value) = c[DOMAIN [i \in 1..Len(value) |-> i]]
  BY DEF RelaxHeaderValue, FoldLeft, MapThenFoldSet
<1>2. DOMAIN [i \in 1..Len(value) |-> i] = 1..n /\ n \in Nat /\ base \in V
  BY DEF Text
<1>3. ASSUME NEW v \in V, NEW k \in 1..n
      PROVE  (IF value[k] \in {"sp", "tab", "nbsp"} THEN v
    ELSE IF v # <<>> /\ k > 1 /\ value[k - 1] \in {"sp", "tab", "nbsp"}
      THEN v \o <<"sp", value[k]>>
      ELSE Append(v, value[k])) \in V
  <2>1. value[k] \in Token
    BY DEF Text
  <2>2. Append(v, value[k]) \in V
    BY <2>1 DEF Text
  <2>3. <<"sp", value[k]>> \in V
    BY <2>1 DEF Text, Token
  <2>4. v \o <<"sp", value[k]>> \in V
    BY <2>3 DEF Text
  <2> QED
    BY <2>2, <2>4
<1>4. step \in [V \X (1..n) -> V]
  BY <1>3
<1>5. PICK old \in [SUBSET (1..n) -> V] : Solves(old, n, base, step)
  <2> HIDE DEF V, step, base, n
  <2> QED
    BY <1>2, <1>4, FoldExists
<1>6. \A d \in SUBSET (1..n) : d # {} => Max(d) \in 1..n /\ d \ {Max(d)} \in SUBSET (1..n)
  BY <1>2, MaxInSet
<1>7. old = It(old)
  BY <1>2, <1>5, <1>6 DEF Solves
<1>8. c = It(c)
  <2> HIDE DEF It
  <2> QED
    BY <1>7, Zenon
<1> HIDE DEF c
<1>9. Follows(c, n, V, base, step)
  <2>1. c[{}] = base
    BY <1>8
  <2>2. ASSUME NEW d \in SUBSET (1..n), d # {}, c[d \ {Max(d)}] \in V
        PROVE  c[d] = step[<<c[d \ {Max(d)}], Max(d)>>]
    <3> DEFINE w == c[d \ {Max(d)}]
               m == Max(d)
    <3>1. m \in 1..n /\ w \in V /\ d \in SUBSET DOMAIN [i \in 1..Len(value) |-> i]
      BY <1>2, <1>6, <2>2
    <3>2. c[d] = IF value[m] \in {"sp", "tab", "nbsp"} THEN w
    ELSE IF w # <<>> /\ m > 1 /\ value[m - 1] \in {"sp", "tab", "nbsp"}
      THEN w \o <<"sp", value[m]>>
      ELSE Append(w, value[m])
      BY <1>8, <2>2, <3>1
    <3> HIDE DEF w, m, V
    <3>3. step[<<w, m>>] = IF value[m] \in {"sp", "tab", "nbsp"} THEN w
    ELSE IF w # <<>> /\ m > 1 /\ value[m - 1] \in {"sp", "tab", "nbsp"}
      THEN w \o <<"sp", value[m]>>
      ELSE Append(w, value[m])
      BY <3>1
    <3> QED
      BY <3>2, <3>3 DEF w, m
  <2> HIDE DEF V, step, base, n
  <2> QED
    BY <2>1, <2>2 DEF Follows
<1> DEFINE f == [k \in 0..n |-> c[1..k]]
<1>10. Runs(f, n, V, base, step)
  <2>1. EachPrefix(f, c, n)
    BY DEF EachPrefix
  <2> HIDE DEF V, step, base, n, f
  <2> QED
    BY <1>2, <1>4, <1>9, <2>1, FoldPrefixes
<1> HIDE DEF f
<1>11. IsRelaxHeader(f, value)
  <2>1. f \in [0..n -> V] /\ f[0] = base
    BY <1>10 DEF Runs
  <2>2. ASSUME NEW k \in 1..n
        PROVE  f[k] = IF value[k] \in {"sp", "tab", "nbsp"} THEN f[k - 1]
    ELSE IF f[k - 1] # <<>> /\ k > 1 /\ value[k - 1] \in {"sp", "tab", "nbsp"}
      THEN f[k - 1] \o <<"sp", value[k]>>
      ELSE Append(f[k - 1], value[k])
    <3>1. f[k] = step[<<f[k - 1], k>>] /\ f[k - 1] \in V
      <4>1. k - 1 \in 0..n
        BY <1>2
      <4> HIDE DEF V, step, base, n
      <4> QED
        BY <1>10, <4>1 DEF Runs
    <3> HIDE DEF V
    <3> QED
      BY <3>1
  <2> QED
    BY <2>1, <2>2 DEF IsRelaxHeader
<1>12. RelaxHeaderValue(value) = f[n]
  BY <1>1, <1>2 DEF f
<1> QED
  BY <1>11, <1>12

\* CanonicalizeBody's join of the lines it keeps.
Join(lines) == FoldLeft(LAMBDA out, l : out \o l \o <<"crlf">>, <<>>, lines)

\* The lines joined, one after the other.
IsJoin(f, lines) ==
  /\ f \in [0..Len(lines) -> Text]
  /\ f[0] = <<>>
  /\ \A k \in 1..Len(lines) :
       f[k] = f[k - 1] \o lines[k] \o <<"crlf">>

\* canonicalizeBody's join goes through the lines once.
LEMMA JoinFold ==
  ASSUME NEW lines \in Seq(Text)
  PROVE  \E f : IsJoin(f, lines) /\ Join(lines) = f[Len(lines)]
<1> DEFINE n == Len(lines)
           V == Text
           base == <<>>
           It(it) == [d \in SUBSET DOMAIN lines |->
                        IF d = {} THEN base
                        ELSE it[d \ {Max(d)}] \o lines[Max(d)] \o <<"crlf">>]
           c == CHOOSE it : it = It(it)
           step == [p \in V \X (1..n) |->
                         p[1] \o lines[p[2]] \o <<"crlf">>]
<1>1. Join(lines) = c[DOMAIN lines]
  BY DEF Join, FoldLeft, MapThenFoldSet
<1>2. DOMAIN lines = 1..n /\ n \in Nat /\ base \in V
  BY DEF Text
<1>3. ASSUME NEW v \in V, NEW k \in 1..n
      PROVE  (v \o lines[k] \o <<"crlf">>) \in V
  <2>1. lines[k] \in Text
    OBVIOUS
  <2>2. <<"crlf">> \in Text
    BY DEF Text, Token
  <2> QED
    BY <2>1, <2>2 DEF Text
<1>4. step \in [V \X (1..n) -> V]
  BY <1>3
<1>5. PICK old \in [SUBSET (1..n) -> V] : Solves(old, n, base, step)
  <2> HIDE DEF V, step, base, n
  <2> QED
    BY <1>2, <1>4, FoldExists
<1>6. \A d \in SUBSET (1..n) : d # {} => Max(d) \in 1..n /\ d \ {Max(d)} \in SUBSET (1..n)
  BY <1>2, MaxInSet
<1>7. old = It(old)
  BY <1>2, <1>5, <1>6 DEF Solves
<1>8. c = It(c)
  <2> HIDE DEF It
  <2> QED
    BY <1>7, Zenon
<1> HIDE DEF c
<1>9. Follows(c, n, V, base, step)
  <2>1. c[{}] = base
    BY <1>8
  <2>2. ASSUME NEW d \in SUBSET (1..n), d # {}, c[d \ {Max(d)}] \in V
        PROVE  c[d] = step[<<c[d \ {Max(d)}], Max(d)>>]
    <3> DEFINE w == c[d \ {Max(d)}]
               m == Max(d)
    <3>1. m \in 1..n /\ w \in V /\ d \in SUBSET DOMAIN lines
      BY <1>2, <1>6, <2>2
    <3>2. c[d] = w \o lines[m] \o <<"crlf">>
      BY <1>8, <2>2, <3>1
    <3> HIDE DEF w, m, V
    <3>3. step[<<w, m>>] = w \o lines[m] \o <<"crlf">>
      BY <3>1
    <3> QED
      BY <3>2, <3>3 DEF w, m
  <2> HIDE DEF V, step, base, n
  <2> QED
    BY <2>1, <2>2 DEF Follows
<1> DEFINE f == [k \in 0..n |-> c[1..k]]
<1>10. Runs(f, n, V, base, step)
  <2>1. EachPrefix(f, c, n)
    BY DEF EachPrefix
  <2> HIDE DEF V, step, base, n, f
  <2> QED
    BY <1>2, <1>4, <1>9, <2>1, FoldPrefixes
<1> HIDE DEF f
<1>11. IsJoin(f, lines)
  <2>1. f \in [0..n -> V] /\ f[0] = base
    BY <1>10 DEF Runs
  <2>2. ASSUME NEW k \in 1..n
        PROVE  f[k] = f[k - 1] \o lines[k] \o <<"crlf">>
    <3>1. f[k] = step[<<f[k - 1], k>>] /\ f[k - 1] \in V
      <4>1. k - 1 \in 0..n
        BY <1>2
      <4> HIDE DEF V, step, base, n
      <4> QED
        BY <1>10, <4>1 DEF Runs
    <3> HIDE DEF V
    <3> QED
      BY <3>1
  <2> QED
    BY <2>1, <2>2 DEF IsJoin
<1>12. Join(lines) = f[n]
  BY <1>1, <1>2 DEF f
<1> QED
  BY <1>11, <1>12

-----------------------------------------------------------------------------
(* Filters. *)

\* f[k] has the elements of text[1..k] whose positions are in S, in order.
IsFilter(f, S, text) ==
  /\ f \in [0..Len(text) -> Text]
  /\ f[0] = <<>>
  /\ \A k \in 1..Len(text) : f[k] = IF k \in S THEN Append(f[k - 1], text[k]) ELSE f[k - 1]

\* What Append makes of a text.
LEMMA AppendFacts ==
  ASSUME NEW s \in Text, NEW t \in Token
  PROVE  /\ Append(s, t) \in Text /\ Append(s, t) # <<>> /\ Len(s) \in Nat
         /\ Len(Append(s, t)) = Len(s) + 1 /\ Append(s, t)[Len(s) + 1] = t
         /\ \A j \in 1..Len(s) : Append(s, t)[j] = s[j]
  BY DEF Text

\* One step of a filter.
LEMMA FilterStep ==
  ASSUME NEW text \in Text, NEW f, NEW S, IsFilter(f, S, text), NEW k \in 1..Len(text)
  PROVE  /\ f[k] \in Text /\ f[k - 1] \in Text /\ text[k] \in Token
         /\ k \in S => /\ f[k] = Append(f[k - 1], text[k])
                       /\ Len(f[k]) = Len(f[k - 1]) + 1
                       /\ f[k][Len(f[k])] = text[k]
                       /\ \A j \in 1..Len(f[k - 1]) : f[k][j] = f[k - 1][j]
         /\ k \notin S => f[k] = f[k - 1]
<1>1. k \in 0..Len(text) /\ k - 1 \in 0..Len(text) /\ text[k] \in Token
  BY DEF Text
<1>2. f[k] \in Text /\ f[k - 1] \in Text
  BY <1>1 DEF IsFilter
<1>3. f[k] = IF k \in S THEN Append(f[k - 1], text[k]) ELSE f[k - 1]
  BY DEF IsFilter
<1>4. \A s \in Text, t \in Token :
        /\ Len(Append(s, t)) = Len(s) + 1 /\ Append(s, t)[Len(s) + 1] = t
        /\ \A j \in 1..Len(s) : Append(s, t)[j] = s[j]
  BY AppendFacts
<1> HIDE DEF IsFilter
<1> QED
  BY <1>1, <1>2, <1>3, <1>4

\* A position in S adds its token.
LEMMA FilterPick ==
  ASSUME NEW text \in Text, NEW f, NEW S, IsFilter(f, S, text), NEW k \in 1..Len(text), k \in S
  PROVE  f[k] = Append(f[k - 1], text[k])
  BY DEF IsFilter

\* One that is not adds nothing.
LEMMA FilterSkip ==
  ASSUME NEW text \in Text, NEW f, NEW S, IsFilter(f, S, text), NEW k \in 1..Len(text), k \notin S
  PROVE  f[k] = f[k - 1]
  BY DEF IsFilter

\* What has been picked stays.
LEMMA FilterGrows ==
  ASSUME NEW text \in Text, NEW f, NEW S, IsFilter(f, S, text),
         NEW m \in 0..Len(text), NEW k \in 0..m
  PROVE  /\ f[m] \in Text /\ f[k] \in Text
         /\ Len(f[k]) <= Len(f[m])
         /\ \A j \in 1..Len(f[k]) : f[m][j] = f[k][j]
<1> DEFINE T == {i \in 0..Len(text) : i >= k => /\ Len(f[k]) <= Len(f[i])
                                                /\ \A j \in 1..Len(f[k]) : f[i][j] = f[k][j]}
<1>1. \A i \in 0..Len(text) : f[i] \in Text /\ Len(f[i]) \in Nat
  <2>1. \A s \in Text : Len(s) \in Nat
    BY DEF Text
  <2> QED
    BY <2>1 DEF IsFilter
<1>2. 0 \in T
  BY <1>1
<1>3. ASSUME NEW i \in 0..(Len(text) - 1), i \in T PROVE i + 1 \in T
  <2>1. i + 1 \in 1..Len(text) /\ (i + 1) - 1 = i
    OBVIOUS
  <2>2. CASE i + 1 = k
    BY <2>2, <1>1
  <2>3. CASE i + 1 < k
    BY <2>3, <2>1
  <2>4. CASE i >= k
    <3>1. /\ i + 1 \in S => /\ Len(f[i + 1]) = Len(f[i]) + 1
                             /\ \A j \in 1..Len(f[i]) : f[i + 1][j] = f[i][j]
          /\ i + 1 \notin S => f[i + 1] = f[i]
      BY <2>1, FilterStep, SMTT(30)
    <3>2. Len(f[k]) <= Len(f[i]) /\ \A j \in 1..Len(f[k]) : f[i][j] = f[k][j]
      BY <1>3, <2>4
    <3>3. Len(f[k]) \in Nat /\ Len(f[i]) \in Nat /\ i + 1 \in 0..Len(text)
      BY <1>1, <2>1
    <3>4. Len(f[k]) <= Len(f[i + 1]) /\ \A j \in 1..Len(f[k]) : f[i + 1][j] = f[k][j]
      BY <3>1, <3>2, <3>3, SMTT(30)
    <3> QED
      BY <3>3, <3>4
  <2> QED
    BY <2>2, <2>3, <2>4
<1>4. 0..Len(text) \subseteq T
  <2>1. Len(text) \in Nat
    BY DEF Text
  <2> HIDE DEF T
  <2> QED
    BY <2>1, <1>2, <1>3, UpTo
<1> QED
  BY <1>1, <1>4

\* Two neighbours that are picked are neighbours of what is picked.
LEMMA FilterKeeps ==
  ASSUME NEW text \in Text, NEW f, NEW S, IsFilter(f, S, text),
         NEW i \in 1..Len(text), i \in S
  PROVE  LET out == f[Len(text)]
         IN  /\ \E j \in 1..Len(out) : out[j] = text[i]
             /\ i > 1 /\ i - 1 \in S => \E j \in 2..Len(out) : out[j - 1] = text[i - 1] /\ out[j] = text[i]
<1> DEFINE out == f[Len(text)]
<1>1. Len(text) \in 0..Len(text) /\ i \in 0..Len(text)
  BY DEF Text
<1>2. /\ f[i] \in Text /\ f[i - 1] \in Text
      /\ Len(f[i]) = Len(f[i - 1]) + 1 /\ f[i][Len(f[i])] = text[i]
      /\ \A j \in 1..Len(f[i - 1]) : f[i][j] = f[i - 1][j]
  BY FilterStep
<1>3. out \in Text /\ Len(f[i]) <= Len(out) /\ \A j \in 1..Len(f[i]) : out[j] = f[i][j]
  BY <1>1, FilterGrows
<1>4. Len(f[i]) \in 1..Len(out) /\ out[Len(f[i])] = text[i]
  BY <1>2, <1>3, SMTT(30) DEF Text
<1>5. ASSUME i > 1, i - 1 \in S
      PROVE  \E j \in 2..Len(out) : out[j - 1] = text[i - 1] /\ out[j] = text[i]
  <2>1. i - 1 \in 1..Len(text)
    BY <1>5
  <2>2. /\ Len(f[i - 1]) = Len(f[(i - 1) - 1]) + 1 /\ f[(i - 1) - 1] \in Text
        /\ f[i - 1][Len(f[i - 1])] = text[i - 1]
    BY <1>5, <2>1, FilterStep
  <2>3. /\ Len(f[i]) \in 2..Len(out) /\ Len(f[i]) - 1 = Len(f[i - 1])
        /\ Len(f[i - 1]) \in 1..Len(f[i - 1])
        /\ Len(f[i - 1]) \in 1..Len(f[i])
    <3>1. Len(f[(i - 1) - 1]) \in Nat /\ Len(f[i - 1]) \in Nat /\ Len(out) \in Nat
      BY <1>2, <1>3, <2>2 DEF Text
    <3> QED
      BY <1>2, <1>4, <2>2, <3>1
  <2>4. out[Len(f[i - 1])] = f[i][Len(f[i - 1])] /\ f[i][Len(f[i - 1])] = f[i - 1][Len(f[i - 1])]
    BY <1>2, <1>3, <2>3
  <2> QED
    BY <1>4, <2>2, <2>3, <2>4
<1> QED
  BY <1>4, <1>5

\* Everything picked comes from a position in S, the one that made the run of
\* the filter that long.
LEMMA FilterOrigin ==
  ASSUME NEW text \in Text, NEW f, NEW S, IsFilter(f, S, text),
         NEW j \in 1..Len(f[Len(text)])
  PROVE  \E i \in 1..Len(text) : /\ i \in S /\ text[i] = f[Len(text)][j]
                                 /\ Len(f[i - 1]) = j - 1 /\ Len(f[i]) = j
<1> DEFINE T == {k \in 0..Len(text) :
                   j <= Len(f[k]) => \E i \in 1..k : /\ i \in S /\ text[i] = f[k][j]
                                                     /\ Len(f[i - 1]) = j - 1 /\ Len(f[i]) = j}
<1>1. f[0] = <<>> /\ Len(text) \in Nat /\ f[Len(text)] \in Text
  BY DEF IsFilter, Text
<1>2. 0 \in T
  BY <1>1
<1>3. ASSUME NEW k \in 0..(Len(text) - 1), k \in T PROVE k + 1 \in T
  <2>1. k + 1 \in 1..Len(text) /\ (k + 1) - 1 = k /\ k + 1 \in 0..Len(text)
    OBVIOUS
  <2> SUFFICES ASSUME j <= Len(f[k + 1])
               PROVE  \E i \in 1..(k + 1) : /\ i \in S /\ text[i] = f[k + 1][j]
                                            /\ Len(f[i - 1]) = j - 1 /\ Len(f[i]) = j
    BY <2>1
  <2>2. /\ f[k + 1] \in Text /\ f[k] \in Text
        /\ k + 1 \in S => /\ Len(f[k + 1]) = Len(f[k]) + 1
                          /\ f[k + 1][Len(f[k + 1])] = text[k + 1]
                          /\ \A l \in 1..Len(f[k]) : f[k + 1][l] = f[k][l]
        /\ k + 1 \notin S => f[k + 1] = f[k]
    BY <2>1, FilterStep, SMTT(30)
  <2>3. Len(f[k]) \in Nat /\ j \in Nat \ {0}
    BY <1>1, <2>2 DEF Text
  <2>4. CASE j <= Len(f[k])
    <3>1. PICK i \in 1..k : /\ i \in S /\ text[i] = f[k][j]
                            /\ Len(f[i - 1]) = j - 1 /\ Len(f[i]) = j
      BY <1>3, <2>4
    <3>2. f[k + 1][j] = f[k][j]
      BY <2>2, <2>3, <2>4
    <3> QED
      BY <3>1, <3>2
  <2>5. CASE j > Len(f[k])
    <3>1. k + 1 \in S /\ j = Len(f[k + 1])
      BY <2>2, <2>3, <2>5
    <3> QED
      BY <2>1, <2>2, <2>3, <3>1, SMTT(30)
  <2> QED
    BY <2>3, <2>4, <2>5
<1>4. 0..Len(text) \subseteq T
  <2> HIDE DEF T
  <2> QED
    BY <1>1, <1>2, <1>3, UpTo
<1>5. Len(text) \in T /\ j <= Len(f[Len(text)])
  BY <1>1, <1>4
<1> QED
  BY <1>5

\* Two neighbours of what is picked come from positions in S that have none in
\* S between them.
LEMMA FilterNeighbours ==
  ASSUME NEW text \in Text, NEW f, NEW S, IsFilter(f, S, text),
         NEW j \in 2..Len(f[Len(text)])
  PROVE  \E i \in 1..Len(text), h \in 1..Len(text) :
           /\ h < i /\ h \in S /\ i \in S /\ \A m \in (h + 1)..(i - 1) : m \notin S
           /\ f[Len(text)][j - 1] = text[h] /\ f[Len(text)][j] = text[i]
<1>0. f[Len(text)] \in Text /\ Len(f[Len(text)]) \in Nat /\ Len(text) \in Nat
  BY DEF IsFilter, Text
<1>1. j \in 1..Len(f[Len(text)]) /\ j - 1 \in 1..Len(f[Len(text)])
  BY <1>0
<1>2. PICK i \in 1..Len(text) : /\ i \in S /\ text[i] = f[Len(text)][j]
                                /\ Len(f[i - 1]) = j - 1 /\ Len(f[i]) = j
  BY <1>1, FilterOrigin
<1>3. PICK h \in 1..Len(text) : /\ h \in S /\ text[h] = f[Len(text)][j - 1]
                                /\ Len(f[h]) = j - 1
  <2> DEFINE l == j - 1
  <2>1. l \in 1..Len(f[Len(text)])
    BY <1>1
  <2> HIDE DEF l
  <2>2. \E h \in 1..Len(text) : /\ h \in S /\ text[h] = f[Len(text)][l]
                                 /\ Len(f[h]) = l
    BY <2>1, FilterOrigin
  <2> QED
    BY <2>2 DEF l
<1>4. h < i
  <2> SUFFICES ASSUME i <= h PROVE FALSE
    OBVIOUS
  <2>1. h \in 0..Len(text) /\ i \in 0..h
    OBVIOUS
  <2>2. Len(f[i]) <= Len(f[h])
    BY <2>1, FilterGrows
  <2> QED
    BY <1>1, <1>2, <1>3, <2>2
<1>5. ASSUME NEW m \in (h + 1)..(i - 1), m \in S PROVE FALSE
  <2>1. /\ m \in 1..Len(text) /\ m \in 0..Len(text) /\ m - 1 \in 0..Len(text) /\ i - 1 \in 0..Len(text)
        /\ h \in 0..(m - 1) /\ m \in 0..(i - 1)
    OBVIOUS
  <2>2. Len(f[m]) = Len(f[m - 1]) + 1
    BY <1>5, <2>1, FilterStep
  <2>3. Len(f[h]) <= Len(f[m - 1]) /\ f[m - 1] \in Text
    BY <2>1, FilterGrows
  <2>4. Len(f[m]) <= Len(f[i - 1]) /\ f[m] \in Text
    BY <2>1, FilterGrows
  <2>5. Len(f[m]) \in Nat /\ Len(f[m - 1]) \in Nat
    BY <2>3, <2>4, SMTT(30) DEF Text
  <2> QED
    BY <1>1, <1>2, <1>3, <2>2, <2>3, <2>4, <2>5
<1> QED
  BY <1>2, <1>3, <1>4, <1>5

-----------------------------------------------------------------------------
(* What canonicalizeBody trims. *)

\* LastOutside finds what it is to find: there is such an index.
LEMMA LastOutsideFacts ==
  ASSUME NEW T, NEW s \in Seq(T), NEW S
  PROVE  /\ LastOutside(s, S) \in 0..Len(s)
         /\ LastOutside(s, S) # 0 => s[LastOutside(s, S)] \notin S
         /\ \A j \in (LastOutside(s, S) + 1)..Len(s) : s[j] \in S
<1> DEFINE Is(i, k) == /\ i # 0 => s[i] \notin S
                       /\ \A j \in (i + 1)..k : s[j] \in S
           U == {k \in 0..Len(s) : \E i \in 0..k : Is(i, k)}
<1>1. 0 \in U
  OBVIOUS
<1>2. ASSUME NEW k \in 0..(Len(s) - 1), k \in U PROVE k + 1 \in U
  <2>1. CASE s[k + 1] \in S
    <3>1. PICK i \in 0..k : Is(i, k)
      BY <1>2
    <3>2. Is(i, k + 1)
      BY <2>1, <3>1
    <3> QED
      BY <3>2
  <2>2. CASE s[k + 1] \notin S
    <3>1. Is(k + 1, k + 1)
      BY <2>2
    <3> QED
      BY <3>1
  <2> QED
    BY <2>1, <2>2
<1>3. 0..Len(s) \subseteq U
  <2>1. Len(s) \in Nat
    OBVIOUS
  <2> HIDE DEF U
  <2> QED
    BY <2>1, <1>1, <1>2, UpTo
<1>4. \E i \in 0..Len(s) : Is(i, Len(s))
  BY <1>3
<1> QED
  BY <1>4 DEF LastOutside

\* There is only one.
LEMMA LastOutsideIs ==
  ASSUME NEW T, NEW s \in Seq(T), NEW S, NEW i \in 0..Len(s),
         i # 0 => s[i] \notin S, \A j \in (i + 1)..Len(s) : s[j] \in S
  PROVE  LastOutside(s, S) = i
<1> DEFINE l == LastOutside(s, S)
<1>1. /\ l \in 0..Len(s)
      /\ l # 0 => s[l] \notin S
      /\ \A j \in (l + 1)..Len(s) : s[j] \in S
  BY LastOutsideFacts
<1> HIDE DEF l
<1>2. ~(l < i)
  <2> SUFFICES ASSUME l < i PROVE FALSE
    OBVIOUS
  <2>1. i \in (l + 1)..Len(s) /\ i # 0
    BY <1>1
  <2> QED
    BY <1>1, <2>1
<1>3. ~(i < l)
  <2> SUFFICES ASSUME i < l PROVE FALSE
    OBVIOUS
  <2>1. l \in (i + 1)..Len(s) /\ l # 0
    BY <1>1
  <2> QED
    BY <1>1, <2>1
<1>4. l = i
  BY <1>1, <1>2, <1>3
<1> QED
  BY <1>4 DEF l

White(line) == \A i \in 1..Len(line) : line[i] \in WSP

\* Of a white line canonicalizeBody leaves nothing.
LEMMA TrimWhite ==
  ASSUME NEW line \in Text, White(line) PROVE TrimRight(line) = <<>>
<1>1. LastOutside(line, WSP) = 0
  <2>1. 0 \in 0..Len(line) /\ \A j \in (0 + 1)..Len(line) : line[j] \in WSP
    BY DEF White, Text
  <2> QED
    BY <2>1, LastOutsideIs DEF Text
<1> QED
  BY <1>1 DEF TrimRight, Text

\* White space at the end of a line makes no difference to what is left of it.
LEMMA TrimAppendWhite ==
  ASSUME NEW line \in Text, NEW t \in WSP
  PROVE  TrimRight(Append(line, t)) = TrimRight(line)
<1> DEFINE l == LastOutside(line, WSP)
           more == Append(line, t)
<1>1. /\ l \in 0..Len(line)
      /\ l # 0 => line[l] \notin WSP
      /\ \A j \in (l + 1)..Len(line) : line[j] \in WSP
  BY LastOutsideFacts DEF Text
<1>2. /\ more \in Text /\ Len(line) \in Nat /\ Len(more) = Len(line) + 1
      /\ more[Len(line) + 1] = t /\ \A j \in 1..Len(line) : more[j] = line[j]
  BY AppendFacts DEF WSP, Token
<1> HIDE DEF l, more
<1>3. LastOutside(more, WSP) = l
  <2>1. l \in 0..Len(more) /\ (l # 0 => more[l] \notin WSP)
    BY <1>1, <1>2
  <2>2. \A j \in (l + 1)..Len(more) : more[j] \in WSP
    BY <1>1, <1>2
  <2> QED
    BY <1>2, <2>1, <2>2, LastOutsideIs DEF Text
<1>4. SubSeq(more, 1, l) = SubSeq(line, 1, l)
  BY <1>1, <1>2 DEF Text
<1> QED
  BY <1>3, <1>4 DEF TrimRight, l, more

\* A line that ends in something else is left as it is.
LEMMA TrimAppendOther ==
  ASSUME NEW line \in Text, NEW t \in Token \ WSP
  PROVE  TrimRight(Append(line, t)) = Append(line, t)
<1> DEFINE more == Append(line, t)
<1>1. /\ more \in Text /\ Len(line) \in Nat /\ Len(more) = Len(line) + 1
      /\ more[Len(line) + 1] = t
  BY AppendFacts
<1> HIDE DEF more
<1>2. LastOutside(more, WSP) = Len(more)
  <2>1. Len(more) \in 0..Len(more) /\ more[Len(more)] \notin WSP
    BY <1>1
  <2>2. \A j \in (Len(more) + 1)..Len(more) : more[j] \in WSP
    BY <1>1
  <2> QED
    BY <1>1, <2>1, <2>2, LastOutsideIs DEF Text
<1>3. SubSeq(more, 1, Len(more)) = more
  BY <1>1 DEF Text
<1> QED
  BY <1>2, <1>3 DEF TrimRight, more

\* What is left of a line is a text.
LEMMA TrimText ==
  ASSUME NEW line \in Text PROVE TrimRight(line) \in Text
<1>1. LastOutside(line, WSP) \in 0..Len(line)
  BY LastOutsideFacts DEF Text
<1> QED
  BY <1>1 DEF TrimRight, Text

-----------------------------------------------------------------------------
(* The lines of a text. *)

\* One token adds a line or goes to the end of the last one.
LEMMA LinesStep ==
  ASSUME NEW text \in Text, NEW ls, IsLines(ls, text), NEW k \in 1..Len(text)
  PROVE  /\ ls[k] \in Seq(Text) /\ ls[k - 1] \in Seq(Text)
         /\ Len(ls[k]) \in Nat \ {0} /\ Len(ls[k - 1]) \in Nat \ {0}
         /\ text[k] \in Token
         /\ text[k] = "crlf" =>
              /\ Len(ls[k]) = Len(ls[k - 1]) + 1
              /\ ls[k][Len(ls[k])] = <<>>
              /\ \A i \in 1..Len(ls[k - 1]) : ls[k][i] = ls[k - 1][i]
         /\ text[k] # "crlf" =>
              /\ Len(ls[k]) = Len(ls[k - 1])
              /\ ls[k][Len(ls[k])] = Append(ls[k - 1][Len(ls[k - 1])], text[k])
              /\ \A i \in 1..(Len(ls[k - 1]) - 1) : ls[k][i] = ls[k - 1][i]
<1>1. k \in 0..Len(text) /\ k - 1 \in 0..Len(text) /\ text[k] \in Token
  BY DEF Text
<1> DEFINE old == ls[k - 1]
           new == ls[k]
           t == text[k]
<1>2. old \in Seq(Text) \ {<<>>} /\ new \in Seq(Text) \ {<<>>}
  BY <1>1 DEF IsLines
<1>3. new = IF t = "crlf" THEN Append(old, <<>>) ELSE [old EXCEPT ![Len(old)] = Append(@, t)]
  BY DEF IsLines
<1> HIDE DEF old, new, t
<1>4. Len(old) \in Nat \ {0} /\ Len(new) \in Nat \ {0}
  BY <1>2
<1>5. ASSUME t = "crlf" PROVE /\ Len(new) = Len(old) + 1 /\ new[Len(new)] = <<>>
                              /\ \A i \in 1..Len(old) : new[i] = old[i]
  BY <1>2, <1>3, <1>5
<1>6. ASSUME t # "crlf" PROVE /\ Len(new) = Len(old) /\ new[Len(new)] = Append(old[Len(old)], t)
                              /\ \A i \in 1..(Len(old) - 1) : new[i] = old[i]
  <2>1. new = [old EXCEPT ![Len(old)] = Append(@, t)]
    BY <1>3, <1>6
  <2>2. DOMAIN old = 1..Len(old) /\ Len(old) \in 1..Len(old)
    BY <1>2, <1>4
  <2> DEFINE line == Append(old[Len(old)], t)
  <2>3. new = [i \in 1..Len(old) |-> IF i = Len(old) THEN line ELSE old[i]]
    BY <2>1, <2>2
  <2> HIDE DEF line
  <2>4. Len(new) = Len(old)
    BY <1>4, <2>3
  <2>5. \A i \in 1..(Len(old) - 1) : i \in 1..Len(old) /\ i # Len(old)
    BY <1>4
  <2>7. new[Len(old)] = line
    BY <2>2, <2>3
  <2>6. \A i \in 1..(Len(old) - 1) : new[i] = old[i]
    BY <2>3, <2>5
  <2> QED
    BY <2>4, <2>6, <2>7 DEF line
<1> QED
  BY <1>1, <1>2, <1>4, <1>5, <1>6 DEF old, new, t

\* A line end begins a new line.
LEMMA LinesCrlf ==
  ASSUME NEW text \in Text, NEW ls, IsLines(ls, text), NEW k \in 1..Len(text), text[k] = "crlf"
  PROVE  /\ Len(ls[k]) = Len(ls[k - 1]) + 1
         /\ ls[k][Len(ls[k])] = <<>>
         /\ \A i \in 1..Len(ls[k - 1]) : ls[k][i] = ls[k - 1][i]
  BY LinesStep

\* Any other token is added to the last line.
LEMMA LinesOther ==
  ASSUME NEW text \in Text, NEW ls, IsLines(ls, text), NEW k \in 1..Len(text), text[k] # "crlf"
  PROVE  /\ Len(ls[k]) = Len(ls[k - 1])
         /\ ls[k][Len(ls[k])] = Append(ls[k - 1][Len(ls[k - 1])], text[k])
         /\ \A i \in 1..(Len(ls[k - 1]) - 1) : ls[k][i] = ls[k - 1][i]
  BY LinesStep

\* A line with another behind it stays as it is.
LEMMA LinesStable ==
  ASSUME NEW text \in Text, NEW ls, IsLines(ls, text),
         NEW m \in 0..Len(text), NEW k \in 0..m
  PROVE  /\ ls[k] \in Seq(Text) /\ ls[m] \in Seq(Text)
         /\ Len(ls[k]) \in Nat \ {0} /\ Len(ls[m]) \in Nat \ {0}
         /\ Len(ls[k]) <= Len(ls[m])
         /\ \A i \in 1..(Len(ls[k]) - 1) : ls[m][i] = ls[k][i]
<1> DEFINE U == {i \in 0..Len(text) : i >= k => /\ Len(ls[k]) <= Len(ls[i])
                                                /\ \A j \in 1..(Len(ls[k]) - 1) : ls[i][j] = ls[k][j]}
<1>1. \A i \in 0..Len(text) : ls[i] \in Seq(Text) /\ Len(ls[i]) \in Nat \ {0}
  <2>1. \A s \in Seq(Text) \ {<<>>} : Len(s) \in Nat \ {0}
    OBVIOUS
  <2> QED
    BY <2>1 DEF IsLines
<1>2. 0 \in U
  BY <1>1
<1>3. ASSUME NEW i \in 0..(Len(text) - 1), i \in U PROVE i + 1 \in U
  <2>1. i + 1 \in 1..Len(text) /\ (i + 1) - 1 = i /\ i + 1 \in 0..Len(text)
    OBVIOUS
  <2>2. CASE i + 1 = k
    BY <2>2, <1>1
  <2>3. CASE i + 1 < k
    BY <2>3, <2>1
  <2>4. CASE i >= k
    <3>1. /\ Len(ls[i]) <= Len(ls[i + 1])
          /\ \A j \in 1..(Len(ls[i]) - 1) : ls[i + 1][j] = ls[i][j]
      <4>1. /\ text[i + 1] = "crlf" =>
                 /\ Len(ls[i + 1]) = Len(ls[i]) + 1
                 /\ \A j \in 1..Len(ls[i]) : ls[i + 1][j] = ls[i][j]
            /\ text[i + 1] # "crlf" =>
                 /\ Len(ls[i + 1]) = Len(ls[i])
                 /\ \A j \in 1..(Len(ls[i]) - 1) : ls[i + 1][j] = ls[i][j]
        <5>1. \A q \in 1..Len(text) :
                /\ text[q] = "crlf" =>
                     /\ Len(ls[q]) = Len(ls[q - 1]) + 1
                     /\ \A j \in 1..Len(ls[q - 1]) : ls[q][j] = ls[q - 1][j]
                /\ text[q] # "crlf" =>
                     /\ Len(ls[q]) = Len(ls[q - 1])
                     /\ \A j \in 1..(Len(ls[q - 1]) - 1) : ls[q][j] = ls[q - 1][j]
          BY LinesStep
        <5> QED
          BY <2>1, <5>1
      <4>2. Len(ls[i]) \in Nat \ {0} /\ Len(ls[i + 1]) \in Nat \ {0}
        BY <1>1, <2>1
      <4> QED
        BY <4>1, <4>2
    <3>2. Len(ls[k]) <= Len(ls[i]) /\ \A j \in 1..(Len(ls[k]) - 1) : ls[i][j] = ls[k][j]
      BY <1>3, <2>4
    <3>3. Len(ls[k]) \in Nat /\ Len(ls[i]) \in Nat /\ Len(ls[i + 1]) \in Nat
      BY <1>1, <2>1
    <3>4. Len(ls[k]) <= Len(ls[i + 1]) /\ \A j \in 1..(Len(ls[k]) - 1) : ls[i + 1][j] = ls[k][j]
      BY <3>1, <3>2, <3>3, SMTT(30)
    <3> QED
      BY <2>1, <3>4
  <2> QED
    BY <2>2, <2>3, <2>4
<1>4. 0..Len(text) \subseteq U
  <2>1. Len(text) \in Nat
    BY DEF Text
  <2> HIDE DEF U
  <2> QED
    BY <2>1, <1>2, <1>3, UpTo
<1>5. m \in 0..Len(text) /\ k \in 0..Len(text) /\ m >= k
  BY DEF Text
<1>6. m \in U
  BY <1>4, <1>5
<1>7. /\ ls[k] \in Seq(Text) /\ Len(ls[k]) \in Nat \ {0}
      /\ ls[m] \in Seq(Text) /\ Len(ls[m]) \in Nat \ {0}
  BY <1>1, <1>5
<1> QED
  BY <1>5, <1>6, <1>7

-----------------------------------------------------------------------------
(* Concatenation. *)

\* Concatenation of texts, with the empty one as its unit.
LEMMA ConcatFacts ==
  ASSUME NEW a \in Text, NEW b \in Text
  PROVE  a \o b \in Text /\ a \o <<>> = a /\ <<>> \o a = a
  BY DEF Text

\* It is associative.
LEMMA ConcatAssoc ==
  ASSUME NEW a \in Text, NEW b \in Text, NEW c \in Text
  PROVE  (a \o b) \o c = a \o (b \o c)
  BY DEF Text

\* Append is concatenation with a text of one token.
LEMMA AppendConcat ==
  ASSUME NEW a \in Text, NEW b \in Text, NEW t \in Token
  PROVE  /\ <<t>> \in Text /\ Append(a, t) = a \o <<t>>
         /\ Append(a \o b, t) = a \o Append(b, t)
<1>1. <<t>> \in Text /\ a \o b \in Text
  BY DEF Text
<1>2. \A s \in Text : Append(s, t) = s \o <<t>>
  BY DEF Text
<1>3. (a \o b) \o <<t>> = a \o (b \o <<t>>)
  BY <1>1, ConcatAssoc
<1> QED
  BY <1>1, <1>2, <1>3

\* The same, for canonicalizeBody's join.
LEMMA AppendJoin ==
  ASSUME NEW a \in Text, NEW b \in Text, NEW t \in Token
  PROVE  Append(a \o b, t) = a \o b \o <<t>>
<1>1. a \o b \in Text
  BY ConcatFacts
<1> QED
  BY <1>1, AppendConcat

\* Every set of positions has its filter.
LEMMA FilterExists ==
  ASSUME NEW text \in Text, NEW S PROVE \E f : IsFilter(f, S, text)
<1> DEFINE n == Len(text)
           step == [p \in Text \X (1..n) |->
                      IF p[2] \in S THEN Append(p[1], text[p[2]]) ELSE p[1]]
<1>1. n \in Nat /\ <<>> \in Text
  BY DEF Text
<1>2. ASSUME NEW v \in Text, NEW k \in 1..n
      PROVE (IF k \in S THEN Append(v, text[k]) ELSE v) \in Text
  <2>1. text[k] \in Token
    BY DEF Text
  <2> QED
    BY <2>1, AppendFacts
<1>3. step \in [Text \X (1..n) -> Text]
  BY <1>2
<1>4. PICK f : Runs(f, n, Text, <<>>, step)
  <2> HIDE DEF n, step
  <2> QED
    BY <1>1, <1>3, FoldRuns
<1>5. f \in [0..n -> Text] /\ f[0] = <<>>
  BY <1>4 DEF Runs
<1>6. ASSUME NEW k \in 1..n
      PROVE  f[k] = IF k \in S THEN Append(f[k - 1], text[k]) ELSE f[k - 1]
  <2>1. f[k] = step[<<f[k - 1], k>>] /\ f[k - 1] \in Text
    <3>1. k - 1 \in 0..n
      BY <1>1
    <3> HIDE DEF n, step
    <3> QED
      BY <1>4, <3>1 DEF Runs
  <2> QED
    BY <2>1
<1> QED
  BY <1>5, <1>6 DEF IsFilter

-----------------------------------------------------------------------------
(* What canonicalizeBody keeps. *)

Visible(t) == t \notin WSP \union {"crlf"}

\* Something visible follows the first k tokens in their last line.
Rest(text, k) ==
  \E j \in (k + 1)..Len(text) : Visible(text[j]) /\ \A m \in (k + 1)..j : text[m] # "crlf"

\* The last visible token of a text: only white space and line ends follow it.
LEMMA LastVisibleFacts ==
  ASSUME NEW text \in Text
  PROVE  /\ Len(text) \in Nat /\ LastVisible(text) \in 0..Len(text)
         /\ LastVisible(text) # 0 => Visible(text[LastVisible(text)])
         /\ \A j \in (LastVisible(text) + 1)..Len(text) : text[j] \in WSP \union {"crlf"}
  BY LastOutsideFacts DEF Text, Visible, LastVisible

\* How one more token changes whether something visible is to follow.
LEMMA RestStep ==
  ASSUME NEW text \in Text, NEW k \in 1..Len(text)
  PROVE  /\ text[k] = "crlf" => ~Rest(text, k - 1)
         /\ text[k] \in WSP => /\ Rest(text, k - 1) <=> Rest(text, k)
                               /\ Rest(text, k) <=> MoreInLine(text, k)
         /\ Visible(text[k]) => Rest(text, k - 1)
<1>1. Len(text) \in Nat
  BY DEF Text
<1>2. ASSUME text[k] = "crlf", Rest(text, k - 1) PROVE FALSE
  <2>1. PICK j \in k..Len(text) : \A m \in k..j : text[m] # "crlf"
    BY <1>2 DEF Rest
  <2> QED
    BY <1>1, <1>2, <2>1
<1>3. ASSUME text[k] \in WSP, Rest(text, k - 1) PROVE Rest(text, k)
  <2>1. PICK j \in k..Len(text) : Visible(text[j]) /\ \A m \in k..j : text[m] # "crlf"
    BY <1>3 DEF Rest
  <2>2. j # k
    BY <1>3, <2>1 DEF Visible
  <2>3. j \in (k + 1)..Len(text) /\ \A m \in (k + 1)..j : text[m] # "crlf"
    BY <1>1, <2>1, <2>2
  <2> QED
    BY <2>1, <2>3 DEF Rest
<1>4. ASSUME text[k] \in WSP, Rest(text, k) PROVE MoreInLine(text, k) /\ Rest(text, k - 1)
  <2>1. PICK j \in (k + 1)..Len(text) : Visible(text[j]) /\ \A m \in (k + 1)..j : text[m] # "crlf"
    BY <1>4 DEF Rest
  <2>2. text[k] # "crlf"
    BY <1>4 DEF WSP
  <2>3. \A m \in k..j : text[m] # "crlf"
    <3>1. \A m \in k..j : m = k \/ m \in (k + 1)..j
      OBVIOUS
    <3> QED
      BY <2>1, <2>2, <3>1
  <2>4. j \in k..Len(text) /\ (k - 1) + 1 = k
    OBVIOUS
  <2>5. MoreInLine(text, k)
    BY <2>1, <2>3 DEF MoreInLine, Visible
  <2>6. Rest(text, k - 1)
    BY <2>1, <2>3, <2>4 DEF Rest
  <2> QED
    BY <2>5, <2>6
<1>5. ASSUME text[k] \in WSP, MoreInLine(text, k) PROVE Rest(text, k)
  <2>1. PICK j \in (k + 1)..Len(text) : Visible(text[j]) /\ \A m \in k..j : text[m] # "crlf"
    BY <1>5 DEF MoreInLine, Visible
  <2>2. \A m \in (k + 1)..j : m \in k..j
    OBVIOUS
  <2> QED
    BY <2>1, <2>2 DEF Rest
<1>6. ASSUME Visible(text[k]) PROVE Rest(text, k - 1)
  <2>1. k \in ((k - 1) + 1)..Len(text) /\ \A m \in ((k - 1) + 1)..k : m = k
    BY <1>1
  <2>2. text[k] # "crlf"
    BY <1>6 DEF Visible
  <2> QED
    BY <1>6, <2>1, <2>2 DEF Rest
<1> QED
  BY <1>2, <1>3, <1>4, <1>5, <1>6

\* What canonicalizeBody leaves of a text in which something is visible: white
\* space with something visible behind it in its line, line ends up to the one
\* of the last visible line, and all that is visible.
Kept(text) ==
  {i \in 1..Len(text) :
     IF text[i] \in WSP THEN MoreInLine(text, i)
     ELSE IF text[i] = "crlf" THEN \A j \in (LastVisible(text) + 1)..(i - 1) : text[j] # "crlf"
     ELSE TRUE}

\* What is kept of the last line of the first k tokens.
KeptOf(line, text, k) == IF Rest(text, k) THEN line ELSE TrimRight(line)

\* g joins the lines of the text, trimmed.
JoinsTrimmed(g, lines, all) ==
  /\ lines \in Seq(Text) /\ Len(lines) = Len(all)
  /\ \A i \in 1..Len(lines) : lines[i] = TrimRight(all[i])
  /\ IsJoin(g, lines)

\* The lines that the first k tokens make, but for the last one, are joined in
\* what is kept of them; of the last one, its end is missing if it is white
\* and nothing visible comes any more.
LEMMA KeptUpToVisible ==
  ASSUME NEW text \in Text, NEW ls, IsLines(ls, text),
         NEW g, NEW lines, JoinsTrimmed(g, lines, ls[Len(text)]),
         NEW f, IsFilter(f, Kept(text), text),
         NEW k \in 0..LastVisible(text)
  PROVE  f[k] = g[Len(ls[k]) - 1] \o KeptOf(ls[k][Len(ls[k])], text, k)
<1> DEFINE LV == LastVisible(text)
           last(i) == ls[i][Len(ls[i])]
           U == {i \in 0..LV : f[i] = g[Len(ls[i]) - 1] \o (IF Rest(text, i) THEN last(i) ELSE TrimRight(last(i)))}
<1>1. LV \in 0..Len(text) /\ Len(text) \in Nat
  BY LastVisibleFacts
<1>8. /\ lines \in Seq(Text) /\ Len(lines) = Len(ls[Len(text)])
      /\ \A i \in 1..Len(lines) : lines[i] = TrimRight(ls[Len(text)][i])
      /\ IsJoin(g, lines)
  BY DEF JoinsTrimmed
<1>2. \A i \in 0..Len(text) : ls[i] \in Seq(Text) /\ Len(ls[i]) \in 1..Len(lines) /\ last(i) \in Text
  <2> TAKE i \in 0..Len(text)
  <2>1. /\ ls[i] \in Seq(Text) /\ Len(ls[i]) \in Nat \ {0}
        /\ Len(ls[i]) <= Len(ls[Len(text)]) /\ Len(ls[Len(text)]) \in Nat
    BY <1>1, LinesStable
  <2> QED
    BY <1>8, <2>1
<1>3. \A i \in 0..Len(lines) : g[i] \in Text
  BY <1>8 DEF IsJoin
<1>4. 0 \in U
  <2>1. f[0] = <<>> /\ g[0] = <<>> /\ ls[0] = << <<>> >>
    BY <1>8 DEF IsFilter, IsJoin, IsLines
  <2>2. White(<<>>) /\ <<>> \in Text
    BY DEF White, Text
  <2>3. TrimRight(<<>>) = <<>>
    BY <2>2, TrimWhite
  <2>4. Len(ls[0]) - 1 = 0 /\ last(0) = <<>>
    BY <2>1
  <2>5. f[0] = g[Len(ls[0]) - 1] \o (IF Rest(text, 0) THEN last(0) ELSE TrimRight(last(0)))
    <3>1. <<>> \o <<>> = <<>>
      BY <2>2, ConcatFacts
    <3> HIDE DEF last
    <3> QED
      BY <2>1, <2>3, <2>4, <3>1
  <2>6. 0 \in 0..LV
    <3> HIDE DEF LV
    <3> QED
      BY <1>1
  <2> HIDE DEF last, LV
  <2> QED
    BY <2>5, <2>6
<1>7. \A q \in 1..Len(text) :
        /\ text[q] = "crlf" => /\ Len(ls[q]) = Len(ls[q - 1]) + 1
                               /\ ls[q][Len(ls[q])] = <<>>
                               /\ \A j \in 1..Len(ls[q - 1]) : ls[q][j] = ls[q - 1][j]
        /\ text[q] # "crlf" => /\ Len(ls[q]) = Len(ls[q - 1])
                               /\ ls[q][Len(ls[q])] = Append(ls[q - 1][Len(ls[q - 1])], text[q])
  BY LinesCrlf, LinesOther
<1>5. ASSUME NEW h \in 0..(LV - 1), h \in U PROVE h + 1 \in U
  <2> DEFINE i == h + 1
             t == text[i]
  <2>1. i \in 1..Len(text) /\ i \in 0..Len(text) /\ i - 1 = h /\ i \in 0..LV /\ h \in 0..Len(text) /\ i <= LV
    BY <1>1
  <2> HIDE DEF i
  <2>2. /\ t \in Token /\ last(h) \in Text /\ last(i) \in Text
        /\ Len(ls[h]) \in 1..Len(lines) /\ Len(ls[i]) \in 1..Len(lines)
        /\ f[h] \in Text /\ g[Len(ls[h]) - 1] \in Text
    <3>1. Len(ls[h]) \in 1..Len(lines) /\ Len(ls[h]) - 1 \in 0..Len(lines)
      BY <1>2, <2>1
    <3>2. t \in Token
      BY <2>1 DEF Text
    <3>3. f[h] \in Text
      BY <2>1 DEF IsFilter
    <3> QED
      BY <1>2, <1>3, <2>1, <3>1, <3>2, <3>3
  <2>3. f[h] = g[Len(ls[h]) - 1] \o (IF Rest(text, h) THEN last(h) ELSE TrimRight(last(h)))
    BY <1>5
  <2>4. /\ i \in Kept(text) => f[i] = Append(f[h], t)
        /\ i \notin Kept(text) => f[i] = f[h]
    <3>1. ASSUME i \in Kept(text) PROVE f[i] = Append(f[h], t)
      BY <2>1, <3>1, FilterPick
    <3>2. ASSUME i \notin Kept(text) PROVE f[i] = f[h]
      BY <2>1, <3>2, FilterSkip
    <3> QED
      BY <3>1, <3>2
  <2>5. /\ t = "crlf" => ~Rest(text, h)
        /\ t \in WSP => /\ Rest(text, h) <=> Rest(text, i)
                        /\ Rest(text, i) <=> MoreInLine(text, i)
        /\ Visible(t) => Rest(text, h)
    BY <2>1, RestStep
  <2>6. /\ t = "crlf" => /\ Len(ls[i]) = Len(ls[h]) + 1 /\ last(i) = <<>>
                         /\ ls[i][Len(ls[h])] = last(h)
        /\ t # "crlf" => Len(ls[i]) = Len(ls[h]) /\ last(i) = Append(last(h), t)
    <3>1. /\ t = "crlf" => /\ Len(ls[i]) = Len(ls[i - 1]) + 1
                           /\ ls[i][Len(ls[i])] = <<>>
                           /\ \A j \in 1..Len(ls[i - 1]) : ls[i][j] = ls[i - 1][j]
          /\ t # "crlf" => /\ Len(ls[i]) = Len(ls[i - 1])
                           /\ ls[i][Len(ls[i])] = Append(ls[i - 1][Len(ls[i - 1])], t)
      BY <2>1, <1>7
    <3>2. Len(ls[h]) \in 1..Len(ls[h])
      BY <2>2
    <3> QED
      BY <2>1, <3>1, <3>2
  <2>7. TrimRight(last(h)) \in Text
    BY <2>2, TrimText
  <2> HIDE DEF last, t
  <2>8. f[i] = g[Len(ls[i]) - 1] \o (IF Rest(text, i) THEN last(i) ELSE TrimRight(last(i)))
    <3>1. CASE t = "crlf"
      <4>1. i \in Kept(text)
        <5>1. t \notin WSP /\ \A j \in (LV + 1)..(i - 1) : text[j] # "crlf"
          BY <1>1, <2>1, <3>1 DEF WSP
        <5> QED
          BY <2>1, <3>1, <5>1 DEF Kept, t
      <4>2. f[i] = Append(g[Len(ls[h]) - 1] \o TrimRight(last(h)), "crlf")
        BY <2>3, <2>4, <2>5, <3>1, <4>1
      <4>3. g[Len(ls[h])] = g[Len(ls[h]) - 1] \o lines[Len(ls[h])] \o <<"crlf">>
        BY <1>8, <2>2 DEF IsJoin
      <4>4. lines[Len(ls[h])] = TrimRight(last(h))
        <5>1. ls[Len(text)][Len(ls[h])] = ls[i][Len(ls[h])]
          <6>1. \A j \in 1..(Len(ls[i]) - 1) : ls[Len(text)][j] = ls[i][j]
            BY <1>1, <2>1, LinesStable, SMTT(30)
          <6>2. Len(ls[h]) \in 1..(Len(ls[i]) - 1)
            BY <2>2, <2>6, <3>1
          <6> QED
            BY <6>1, <6>2
        <5> QED
          BY <1>8, <2>2, <2>6, <3>1, <5>1
      <4>5. TrimRight(<<>>) = <<>>
        <5>1. White(<<>>) /\ <<>> \in Text
          BY DEF White, Text
        <5> QED
          BY <5>1, TrimWhite
      <4>9. "crlf" \in Token
        BY DEF Token
      <4>6. f[i] = g[Len(ls[h])]
        <5>1. Append(g[Len(ls[h]) - 1] \o TrimRight(last(h)), "crlf")
                = g[Len(ls[h]) - 1] \o TrimRight(last(h)) \o <<"crlf">>
          BY <2>2, <2>7, <4>9, AppendJoin
        <5> QED
          BY <4>2, <4>3, <4>4, <5>1
      <4>7. Len(ls[i]) - 1 = Len(ls[h]) /\ last(i) = <<>>
        BY <2>2, <2>6, <3>1
      <4>8. g[Len(ls[h])] \o <<>> = g[Len(ls[h])]
        BY <1>3, <2>2 DEF Text
      <4> QED
        BY <4>5, <4>6, <4>7, <4>8
    <3>2. CASE t \in WSP
      <4>1. t # "crlf" /\ Len(ls[i]) = Len(ls[h]) /\ last(i) = Append(last(h), t)
        BY <2>6, <3>2 DEF WSP
      <4>2. i \in Kept(text) <=> Rest(text, i)
        BY <2>1, <2>5, <3>2 DEF Kept, t
      <4>3. CASE Rest(text, i)
        <5>1. f[i] = Append(g[Len(ls[h]) - 1] \o last(h), t)
          BY <2>3, <2>4, <2>5, <3>2, <4>2, <4>3
        <5>2. Append(g[Len(ls[h]) - 1] \o last(h), t) = g[Len(ls[h]) - 1] \o Append(last(h), t)
          BY <2>2, AppendConcat
        <5> QED
          BY <4>1, <4>3, <5>1, <5>2
      <4>4. CASE ~Rest(text, i)
        <5>1. f[i] = g[Len(ls[h]) - 1] \o TrimRight(last(h))
          BY <2>3, <2>4, <2>5, <3>2, <4>2, <4>4
        <5>2. TrimRight(Append(last(h), t)) = TrimRight(last(h))
          BY <2>2, <3>2, TrimAppendWhite
        <5> QED
          BY <4>1, <4>4, <5>1, <5>2
      <4> QED
        BY <4>3, <4>4
    <3>3. CASE Visible(t)
      <4>1. t # "crlf" /\ Len(ls[i]) = Len(ls[h]) /\ last(i) = Append(last(h), t) /\ t \notin WSP
        BY <2>6, <3>3 DEF Visible
      <4>2. i \in Kept(text)
        BY <2>1, <4>1 DEF Kept, t
      <4>3. f[i] = Append(g[Len(ls[h]) - 1] \o last(h), t)
        BY <2>3, <2>4, <2>5, <3>3, <4>2
      <4>4. Append(g[Len(ls[h]) - 1] \o last(h), t) = g[Len(ls[h]) - 1] \o Append(last(h), t)
        BY <2>2, AppendConcat
      <4>5. TrimRight(last(i)) = last(i)
        BY <2>2, <4>1, TrimAppendOther
      <4> QED
        BY <4>1, <4>3, <4>4, <4>5
    <3> QED
      BY <3>1, <3>2, <3>3 DEF Visible
  <2> QED
    BY <2>1, <2>8 DEF i
<1>6. 0..LV \subseteq U
  <2>1. LV \in Nat
    BY <1>1
  <2> HIDE DEF U, LV
  <2> QED
    BY <1>4, <1>5, <2>1, UpTo
<1> QED
  BY <1>6 DEF KeptOf

\* After the last visible token, what is kept is the first line end.
LEMMA KeptAfterVisible ==
  ASSUME NEW text \in Text, NEW f, IsFilter(f, Kept(text), text),
         NEW k \in LastVisible(text)..Len(text)
  PROVE  f[k] = IF \E j \in (LastVisible(text) + 1)..k : text[j] = "crlf"
                  THEN Append(f[LastVisible(text)], "crlf") ELSE f[LastVisible(text)]
<1> DEFINE LV == LastVisible(text)
           End(i) == \E j \in (LV + 1)..i : text[j] = "crlf"
           U == {i \in 0..Len(text) : i >= LV => f[i] = IF End(i) THEN Append(f[LV], "crlf") ELSE f[LV]}
<1>1. /\ Len(text) \in Nat /\ LV \in 0..Len(text)
      /\ \A j \in (LV + 1)..Len(text) : text[j] \in WSP \union {"crlf"}
  BY LastVisibleFacts
<1> HIDE DEF LV
<1>2. 0 \in U
  <2>1. LV = 0 => ~End(0)
    OBVIOUS
  <2> QED
    BY <1>1, <2>1
<1>3. ASSUME NEW h \in 0..(Len(text) - 1), h \in U PROVE h + 1 \in U
  <2> DEFINE i == h + 1
  <2>1. i \in 1..Len(text) /\ i - 1 = h /\ i \in 0..Len(text)
    BY <1>1
  <2>2. CASE i < LV
    BY <1>1, <2>1, <2>2
  <2>3. CASE i = LV
    <3>1. ~End(i)
      BY <1>1, <2>3
    <3> QED
      BY <1>1, <2>1, <2>3, <3>1
  <2>4. CASE i > LV
    <3>1. f[h] = IF End(h) THEN Append(f[LV], "crlf") ELSE f[LV]
      BY <1>1, <1>3, <2>4
    <3>2. text[i] \in WSP \union {"crlf"}
      BY <1>1, <2>1, <2>4
    <3> HIDE DEF i
    <3>0. f[i] = IF i \in Kept(text) THEN Append(f[i - 1], text[i]) ELSE f[i - 1]
      <4> HIDE DEF U
      <4> QED
        BY <2>1 DEF IsFilter
    <3>3. i \in Kept(text) => f[i] = Append(f[h], text[i])
      BY <2>1, <3>0
    <3>4. i \notin Kept(text) => f[i] = f[h]
      BY <2>1, <3>0
    <3>5. End(i) <=> End(h) \/ text[i] = "crlf"
      <4>1. \A j \in (LV + 1)..i : j = i \/ j \in (LV + 1)..h
        BY <1>1, <2>1
      <4>2. i \in (LV + 1)..i /\ \A j \in (LV + 1)..h : j \in (LV + 1)..i
        BY <1>1, <2>1, <2>4
      <4> QED
        BY <4>1, <4>2
    <3>6. CASE text[i] = "crlf"
      <4>1. text[i] \notin WSP
        BY <3>6 DEF WSP
      <4>2. i \in Kept(text) <=> ~End(h)
        BY <2>1, <3>6, <4>1 DEF Kept, LV
      <4>3. f[i] = Append(f[LV], "crlf")
        BY <3>1, <3>3, <3>4, <3>6, <4>2
      <4> QED
        BY <2>1, <3>5, <3>6, <4>3 DEF i
    <3>7. CASE text[i] \in WSP
      <4>1. text[i] # "crlf"
        BY <3>7 DEF WSP
      <4>2. ~MoreInLine(text, i)
        <5> SUFFICES ASSUME NEW j \in (i + 1)..Len(text), text[j] \notin WSP \union {"crlf"} PROVE FALSE
          BY DEF MoreInLine
        <5>1. j \in (LV + 1)..Len(text)
          BY <1>1, <2>1, <2>4
        <5> QED
          BY <1>1, <5>1
      <4>3. i \notin Kept(text)
        BY <3>7, <4>2 DEF Kept
      <4>4. f[i] = IF End(i) THEN Append(f[LV], "crlf") ELSE f[LV]
        BY <3>1, <3>4, <3>5, <4>1, <4>3
      <4> HIDE DEF End
      <4> QED
        BY <2>1, <4>4 DEF i
    <3> QED
      BY <3>2, <3>6, <3>7
  <2> QED
    BY <1>1, <2>1, <2>2, <2>3, <2>4
<1>4. 0..Len(text) \subseteq U
  <2> HIDE DEF U
  <2> QED
    BY <1>1, <1>2, <1>3, UpTo
<1>5. k \in 0..Len(text) /\ k >= LV
  BY <1>1 DEF LV
<1>6. f[k] = IF End(k) THEN Append(f[LV], "crlf") ELSE f[LV]
  <2> HIDE DEF End
  <2> QED
    BY <1>4, <1>5
<1> QED
  BY <1>6 DEF LV

\* After the last visible token the line it is in only gets white space, and
\* the lines behind it have nothing else.
LEMMA LinesAfterVisible ==
  ASSUME NEW text \in Text, NEW ls, IsLines(ls, text),
         NEW k \in LastVisible(text)..Len(text)
  PROVE  LET LV   == LastVisible(text)
             M    == IF LV = 0 THEN 0 ELSE Len(ls[LV])
         IN  /\ Len(ls[k]) >= M
             /\ M # 0 => TrimRight(ls[k][M]) = ls[LV][M]
             /\ \A i \in (M + 1)..Len(ls[k]) : White(ls[k][i])
<1> DEFINE LV == LastVisible(text)
           M == IF LV = 0 THEN 0 ELSE Len(ls[LV])
           Good(i) == /\ Len(ls[i]) >= M
                      /\ M # 0 => TrimRight(ls[i][M]) = ls[LV][M]
                      /\ \A j \in (M + 1)..Len(ls[i]) : White(ls[i][j])
           U == {i \in 0..Len(text) : i >= LV => Good(i)}
<1>1. /\ Len(text) \in Nat /\ LV \in 0..Len(text)
      /\ LV # 0 => Visible(text[LV])
      /\ \A j \in (LV + 1)..Len(text) : text[j] \in WSP \union {"crlf"}
  BY LastVisibleFacts
<1> HIDE DEF LV
<1>2. \A i \in 0..Len(text) : ls[i] \in Seq(Text) /\ Len(ls[i]) \in Nat \ {0}
  <2>1. \A s \in Seq(Text) \ {<<>>} : Len(s) \in Nat \ {0}
    OBVIOUS
  <2> QED
    BY <2>1 DEF IsLines
<1>3. M \in Nat /\ White(<<>>) /\ <<>> \in Text
  BY <1>1, <1>2 DEF White, Text
<1>4. Good(LV)
  <2>1. CASE LV = 0
    <3>1. ls[0] = << <<>> >>
      BY DEF IsLines
    <3>2. Len(ls[0]) = 1 /\ ls[0][1] = <<>>
      BY <3>1
    <3> QED
      BY <1>3, <2>1, <3>2
  <2>2. CASE LV # 0
    <3>1. LV \in 1..Len(text) /\ LV - 1 \in 0..Len(text) /\ text[LV] # "crlf" /\ text[LV] \in Token \ WSP
      BY <1>1, <2>2 DEF Visible, Text
    <3>2. ls[LV][M] = Append(ls[LV - 1][Len(ls[LV - 1])], text[LV])
      <4>1. ls[LV][Len(ls[LV])] = Append(ls[LV - 1][Len(ls[LV - 1])], text[LV])
        BY <3>1, LinesStep
      <4>2. M = Len(ls[LV])
        BY <2>2
      <4> QED
        BY <4>1, <4>2
    <3>3. ls[LV - 1][Len(ls[LV - 1])] \in Text
      BY <1>2, <3>1
    <3>4. TrimRight(ls[LV][M]) = ls[LV][M]
      BY <3>1, <3>2, <3>3, TrimAppendOther
    <3> QED
      BY <1>1, <1>2, <2>2, <3>4
  <2> QED
    BY <2>1, <2>2
<1>5. 0 \in U
  BY <1>1, <1>4
<1> HIDE DEF M
<1>6. ASSUME NEW h \in 0..(Len(text) - 1), h \in U PROVE h + 1 \in U
  <2> DEFINE i == h + 1
  <2>1. i \in 1..Len(text) /\ i - 1 = h /\ i \in 0..Len(text) /\ h \in 0..Len(text)
    BY <1>1
  <2>2. CASE i < LV
    BY <1>1, <2>1, <2>2
  <2>3. CASE i = LV
    <3> HIDE DEF Good
    <3> QED
      BY <1>1, <1>4, <2>1, <2>3
  <2>4. CASE i > LV
    <3>1. Good(h)
      BY <1>1, <1>6, <2>4
    <3>2. text[i] \in WSP \union {"crlf"}
      BY <1>1, <2>1, <2>4
    <3> DEFINE a == ls[h]
               b == ls[i]
               t == text[i]
    <3> HIDE DEF i
    <3>3. a \in Seq(Text) /\ Len(a) \in Nat \ {0} /\ b \in Seq(Text) /\ Len(b) \in Nat \ {0}
      BY <1>2, <2>1
    <3>4. ASSUME t = "crlf"
          PROVE  /\ Len(b) = Len(a) + 1 /\ b[Len(b)] = <<>>
                 /\ \A j \in 1..Len(a) : b[j] = a[j]
      BY <2>1, <3>4, LinesCrlf, ZenonT(30)
    <3>7. ASSUME t # "crlf"
          PROVE  /\ Len(b) = Len(a) /\ b[Len(b)] = Append(a[Len(a)], t)
                 /\ \A j \in 1..(Len(a) - 1) : b[j] = a[j]
      BY <2>1, <3>7, LinesOther, SMTT(30)
    <3> HIDE DEF t
    <3>10. /\ Len(a) >= M
           /\ M # 0 => TrimRight(a[M]) = ls[LV][M]
           /\ \A j \in (M + 1)..Len(a) : White(a[j])
      BY <3>1
    <3> HIDE DEF a, b
    <3>11. /\ Len(b) >= M
           /\ M # 0 => TrimRight(b[M]) = ls[LV][M]
           /\ \A j \in (M + 1)..Len(b) : White(b[j])
      <4>1. CASE t = "crlf"
        BY <1>3, <3>3, <3>4, <3>10, <4>1
      <4>2. CASE t # "crlf"
        <5>1. t \in WSP /\ t \in Token
          BY <3>2, <4>2 DEF t, WSP, Token
        <5>2. \A j \in 1..Len(a) : j = Len(a) \/ j \in 1..(Len(a) - 1)
          BY <3>3
        <5>3. a[Len(a)] \in Text
          BY <3>3
        <5>4. TrimRight(b[Len(a)]) = TrimRight(a[Len(a)])
          BY <3>7, <4>2, <5>1, <5>3, TrimAppendWhite
        <5>5. White(a[Len(a)]) => White(b[Len(a)])
          <6> SUFFICES ASSUME White(a[Len(a)]) PROVE White(Append(a[Len(a)], t))
            BY <3>7, <4>2
          <6> DEFINE l == a[Len(a)]
          <6>1. Len(l) \in Nat /\ Len(Append(l, t)) = Len(l) + 1 /\ Append(l, t)[Len(l) + 1] = t
            BY <5>1, <5>3, AppendFacts
          <6>2. \A j \in 1..Len(l) : Append(l, t)[j] = l[j]
            BY <5>1, <5>3, AppendFacts
          <6>3. \A j \in 1..Len(l) : l[j] \in WSP
            BY DEF White
          <6> HIDE DEF l
          <6>4. \A j \in 1..Len(Append(l, t)) : Append(l, t)[j] \in WSP
            BY <5>1, <6>1, <6>2, <6>3
          <6> QED
            BY <6>4 DEF White, l
        <5>6. M # 0 => TrimRight(b[M]) = ls[LV][M]
          BY <1>3, <3>3, <3>7, <3>10, <4>2, <5>2, <5>4
        <5>7. \A j \in (M + 1)..Len(b) : White(b[j])
          BY <1>3, <3>3, <3>7, <3>10, <4>2, <5>2, <5>5
        <5> QED
          BY <3>7, <3>10, <4>2, <5>6, <5>7
      <4> QED
        BY <4>1, <4>2
    <3>12. Good(i)
      BY <3>11 DEF b
    <3> HIDE DEF Good
    <3> QED
      BY <2>1, <3>12 DEF i
  <2> QED
    BY <1>1, <2>1, <2>2, <2>3, <2>4
<1>7. 0..Len(text) \subseteq U
  <2> HIDE DEF U
  <2> QED
    BY <1>1, <1>5, <1>6, UpTo
<1>8. Good(k)
  <2>1. k \in 0..Len(text) /\ k >= LV
    BY <1>1 DEF LV
  <2> HIDE DEF Good
  <2> QED
    BY <1>7, <2>1
<1> QED
  BY <1>8 DEF M, LV

\* The lines of a text, trimmed.
TrimmedLines(text) == [i \in DOMAIN Lines(text) |-> TrimRight(Lines(text)[i])]

\* canonicalizeBody trims every line by itself.
LEMMA TrimmedLinesFacts ==
  ASSUME NEW text \in Text, NEW ls, IsLines(ls, text), Lines(text) = ls[Len(text)]
  PROVE  /\ TrimmedLines(text) \in Seq(Text)
         /\ Len(TrimmedLines(text)) = Len(ls[Len(text)])
         /\ \A i \in 1..Len(TrimmedLines(text)) : TrimmedLines(text)[i] = TrimRight(ls[Len(text)][i])
         /\ \A i \in 1..Len(ls[Len(text)]) : ls[Len(text)][i] \in Text
<1> DEFINE all == ls[Len(text)]
<1>1. all \in Seq(Text)
  <2>1. Len(text) \in 0..Len(text)
    BY DEF Text
  <2> QED
    BY <2>1 DEF IsLines
<1>2. TrimmedLines(text) = [i \in 1..Len(all) |-> TrimRight(all[i])]
  BY <1>1 DEF TrimmedLines
<1> HIDE DEF all
<1>3. \A i \in 1..Len(all) : all[i] \in Text /\ TrimRight(all[i]) \in Text
  BY <1>1, TrimText
<1>4. Len(all) \in Nat
  BY <1>1
<1> HIDE DEF TrimmedLines
<1>5. TrimmedLines(text) \in Seq(Text) /\ Len(TrimmedLines(text)) = Len(all)
  BY <1>2, <1>3, <1>4
<1> QED
  BY <1>2, <1>3, <1>5 DEF all

\* A text in which nothing is visible, whatever white space and line ends it
\* has, has one line end as its canonical body.
LEMMA CanonicalOfNothing ==
  ASSUME NEW text \in Text, LastVisible(text) = 0
  PROVE  CanonicalizeBody(text) = <<"crlf">>
<1> DEFINE lines == TrimmedLines(text)
<1>1. PICK ls : IsLines(ls, text) /\ Lines(text) = ls[Len(text)]
  BY LinesFold
<1>2. /\ lines \in Seq(Text) /\ Len(lines) = Len(ls[Len(text)])
      /\ \A i \in 1..Len(lines) : lines[i] = TrimRight(ls[Len(text)][i])
      /\ \A i \in 1..Len(lines) : ls[Len(text)][i] \in Text
  BY <1>1, TrimmedLinesFacts
<1>3. \A i \in 1..Len(ls[Len(text)]) : White(ls[Len(text)][i])
  <2>1. Len(text) \in LastVisible(text)..Len(text)
    BY DEF Text
  <2> QED
    BY <1>1, <2>1, LinesAfterVisible
<1> HIDE DEF lines
<1>4. \A i \in 1..Len(lines) : lines[i] = <<>>
  BY <1>2, <1>3, TrimWhite
<1>5. LastOutside(lines, {<<>>}) = 0
  <2>1. 0 \in 0..Len(lines) /\ \A j \in (0 + 1)..Len(lines) : lines[j] \in {<<>>}
    BY <1>2, <1>4
  <2> QED
    BY <1>2, <2>1, LastOutsideIs
<1>6. SubSeq(lines, 1, LastOutside(lines, {<<>>})) = <<>>
  BY <1>2, <1>5
<1> QED
  BY <1>6 DEF CanonicalizeBody, lines, TrimmedLines

\* Of a text that ends in a line end and has something visible, the canonical
\* body is what is kept of it, position by position.
LEMMA CanonicalIsKept ==
  ASSUME NEW text \in Text, text # <<>>, text[Len(text)] = "crlf", LastVisible(text) # 0,
         NEW f, IsFilter(f, Kept(text), text)
  PROVE  CanonicalizeBody(text) = f[Len(text)]
<1> DEFINE lines == TrimmedLines(text)
           LV == LastVisible(text)
<1>1. PICK ls : IsLines(ls, text) /\ Lines(text) = ls[Len(text)]
  BY LinesFold
<1>2. /\ lines \in Seq(Text) /\ Len(lines) = Len(ls[Len(text)])
      /\ \A i \in 1..Len(lines) : lines[i] = TrimRight(ls[Len(text)][i])
      /\ \A i \in 1..Len(lines) : ls[Len(text)][i] \in Text
  BY <1>1, TrimmedLinesFacts
<1>3. /\ Len(text) \in Nat \ {0} /\ LV \in 1..Len(text) /\ Visible(text[LV])
      /\ \A j \in (LV + 1)..Len(text) : text[j] \in WSP \union {"crlf"}
  <2>1. Len(text) # 0
    BY DEF Text
  <2> QED
    BY <2>1, LastVisibleFacts
<1> DEFINE M == Len(ls[LV])
<1>4. /\ Len(ls[Len(text)]) >= M /\ M \in Nat \ {0}
      /\ TrimRight(ls[Len(text)][M]) = ls[LV][M]
      /\ \A i \in (M + 1)..Len(ls[Len(text)]) : White(ls[Len(text)][i])
  <2>1. Len(text) \in LV..Len(text) /\ Len(text) \in 0..Len(text) /\ LV \in 0..Len(text)
    BY <1>3
  <2>2. M \in Nat \ {0}
    BY <1>1, <2>1, LinesStable
  <2> QED
    BY <1>1, <2>1, <2>2, LinesAfterVisible
<1>5. TrimRight(ls[LV][M]) = ls[LV][M]
  <2>1. LV \in LV..Len(text)
    BY <1>3
  <2> QED
    BY <1>1, <1>4, <2>1, LinesAfterVisible
<1>6. ls[LV][M] # <<>> /\ ls[LV][M] \in Text
  <2>1. LV \in 1..Len(text) /\ text[LV] # "crlf" /\ text[LV] \in Token /\ LV - 1 \in 0..Len(text)
    BY <1>3 DEF Visible, Text
  <2>2. ls[LV][M] = Append(ls[LV - 1][Len(ls[LV - 1])], text[LV])
    BY <1>1, <2>1, LinesOther
  <2>3. ls[LV - 1][Len(ls[LV - 1])] \in Text
    <3>1. ls[LV - 1] \in Seq(Text) \ {<<>>}
      BY <1>1, <2>1 DEF IsLines
    <3> QED
      BY <3>1
  <2>4. LET l == Append(ls[LV - 1][Len(ls[LV - 1])], text[LV]) IN l # <<>> /\ l \in Text
    BY <2>1, <2>3, AppendFacts
  <2> QED
    BY <2>2, <2>4
<1> HIDE DEF lines, M, LV
<1>7. M \in 1..Len(lines) /\ lines[M] = ls[LV][M]
  BY <1>2, <1>4
<1>8. LastOutside(lines, {<<>>}) = M
  <2>1. \A j \in (M + 1)..Len(lines) : lines[j] \in {<<>>}
    <3> TAKE j \in (M + 1)..Len(lines)
    <3>1. j \in 1..Len(lines) /\ j \in (M + 1)..Len(ls[Len(text)])
      BY <1>2, <1>4
    <3>2. lines[j] = TrimRight(ls[Len(text)][j]) /\ White(ls[Len(text)][j]) /\ ls[Len(text)][j] \in Text
      BY <1>2, <1>4, <3>1
    <3> QED
      BY <3>2, TrimWhite
  <2>2. lines[M] \notin {<<>>} /\ M \in 0..Len(lines)
    BY <1>6, <1>7
  <2> QED
    BY <1>2, <2>1, <2>2, LastOutsideIs
<1> DEFINE kept == SubSeq(lines, 1, M)
<1>9. /\ kept \in Seq(Text) /\ Len(kept) = M /\ kept # <<>>
      /\ \A i \in 1..M : kept[i] = lines[i]
  BY <1>2, <1>7
<1>10. CanonicalizeBody(text) = Join(kept)
  <2>1. kept = SubSeq(lines, 1, LastOutside(lines, {<<>>}))
    BY <1>8
  <2> HIDE DEF kept
  <2> QED
    BY <1>9, <2>1 DEF CanonicalizeBody, lines, TrimmedLines, Join
<1> HIDE DEF kept
<1>11. PICK p : IsJoin(p, kept) /\ Join(kept) = p[M]
  BY <1>9, JoinFold
<1>12. PICK g : IsJoin(g, lines)
  BY <1>2, JoinFold
<1>13. p[M] = g[M]
  <2> DEFINE U == {i \in 0..M : p[i] = g[i]}
  <2>1. 0 \in U
    BY <1>7, <1>11, <1>12 DEF IsJoin
  <2>2. ASSUME NEW h \in 0..(M - 1), h \in U PROVE h + 1 \in U
    <3>1. h + 1 \in 1..M /\ h + 1 \in 1..Len(lines) /\ (h + 1) - 1 = h /\ h + 1 \in 0..M
      BY <1>2, <1>7
    <3>2. p[h + 1] = p[h] \o kept[h + 1] \o <<"crlf">>
      BY <1>9, <1>11, <3>1 DEF IsJoin
    <3>3. g[h + 1] = g[h] \o lines[h + 1] \o <<"crlf">>
      BY <1>12, <3>1 DEF IsJoin
    <3>4. kept[h + 1] = lines[h + 1] /\ p[h] = g[h]
      BY <1>9, <2>2, <3>1
    <3> QED
      BY <3>1, <3>2, <3>3, <3>4
  <2>3. 0..M \subseteq U
    <3> HIDE DEF U
    <3> QED
      BY <1>4, <2>1, <2>2, UpTo
  <2> QED
    BY <1>4, <2>3
<1>14. g[M] = g[M - 1] \o ls[LV][M] \o <<"crlf">>
  BY <1>7, <1>12 DEF IsJoin
<1>15. ~Rest(text, LV)
  BY <1>3 DEF Rest, Visible
<1>16. f[LV] = g[M - 1] \o ls[LV][M]
  <2>1. LV \in 0..LastVisible(text) /\ LV = LastVisible(text)
    BY <1>3 DEF LV
  <2>2. JoinsTrimmed(g, lines, ls[Len(text)])
    BY <1>2, <1>12 DEF JoinsTrimmed
  <2>3. f[LV] = g[M - 1] \o KeptOf(ls[LV][M], text, LV)
    BY <1>1, <2>1, <2>2, KeptUpToVisible, ZenonT(30) DEF M
  <2> QED
    BY <1>5, <1>15, <2>3 DEF KeptOf
<1>17. f[Len(text)] = Append(f[LV], "crlf")
  <2>1. text[LV] # "crlf"
    BY <1>3 DEF Visible
  <2>2. Len(text) \in (LV + 1)..Len(text) /\ Len(text) \in LV..Len(text)
    BY <1>3, <2>1
  <2>3. f[Len(text)] = IF \E j \in (LV + 1)..Len(text) : text[j] = "crlf"
                         THEN Append(f[LV], "crlf") ELSE f[LV]
    BY <2>2, KeptAfterVisible DEF LV
  <2> QED
    BY <2>2, <2>3
<1>18. g[M - 1] \in Text /\ "crlf" \in Token
  <2>1. M - 1 \in 0..Len(lines)
    BY <1>2, <1>7
  <2> QED
    BY <1>12, <2>1 DEF IsJoin, Token
<1>19. Append(g[M - 1] \o ls[LV][M], "crlf") = g[M - 1] \o ls[LV][M] \o <<"crlf">>
  BY <1>6, <1>18, AppendJoin
<1> QED
  BY <1>10, <1>11, <1>13, <1>14, <1>16, <1>17, <1>19

-----------------------------------------------------------------------------
(* What the receiver makes of a body. *)

Staying(text) == {i \in 1..Len(text) : Stays(text, i)}

Spaced(text) == [i \in 1..Len(text) |-> IF text[i] \in WSP THEN "sp" ELSE text[i]]

\* Spaced changes white space only.
LEMMA SpacedFacts ==
  ASSUME NEW text \in Text
  PROVE  /\ Spaced(text) \in Text /\ Len(Spaced(text)) = Len(text)
         /\ \A i \in 1..Len(text) : Spaced(text)[i] = IF text[i] \in WSP THEN "sp" ELSE text[i]
<1>1. \A i \in 1..Len(text) : (IF text[i] \in WSP THEN "sp" ELSE text[i]) \in Token
  BY DEF Text, Token
<1>2. Len(text) \in Nat
  BY DEF Text
<1> QED
  BY <1>1, <1>2 DEF Spaced, Text

\* The receiver keeps the positions that stay, with a space for white space.
LEMMA RelaxedIsFilter ==
  ASSUME NEW text \in Text
  PROVE  \E f : IsFilter(f, Staying(text), Spaced(text)) /\ Relaxed(text) = f[Len(text)]
<1>1. PICK f : IsRelaxed(f, text) /\ Relaxed(text) = f[Len(text)]
  BY RelaxedFold
<1> DEFINE v == Spaced(text)
<1>2. /\ Len(v) = Len(text)
      /\ \A i \in 1..Len(text) : v[i] = IF text[i] \in WSP THEN "sp" ELSE text[i]
  BY SpacedFacts
<1> HIDE DEF v
<1>3. f \in [0..Len(v) -> Text] /\ f[0] = <<>>
  BY <1>1, <1>2 DEF IsRelaxed
<1>4. ASSUME NEW k \in 1..Len(v)
      PROVE  f[k] = IF k \in Staying(text) THEN Append(f[k - 1], v[k]) ELSE f[k - 1]
  <2>1. f[k] = IF Stays(text, k) THEN Append(f[k - 1], IF text[k] \in WSP THEN "sp" ELSE text[k])
               ELSE f[k - 1]
    BY <1>1, <1>2 DEF IsRelaxed
  <2>2. k \in Staying(text) <=> Stays(text, k)
    BY <1>2 DEF Staying
  <2>3. v[k] = IF text[k] \in WSP THEN "sp" ELSE text[k]
    BY <1>2
  <2> QED
    BY <2>1, <2>2, <2>3
<1>5. IsFilter(f, Staying(text), v)
  BY <1>3, <1>4 DEF IsFilter
<1> QED
  BY <1>1, <1>5 DEF v

\* A tab, or white space next to white space.
Rough(text) ==
  \/ \E j \in 1..Len(text) : text[j] = "tab"
  \/ \E j \in 2..Len(text) : text[j - 1] \in WSP /\ text[j] \in WSP

\* What the receiver hashes is never rough.
LEMMA RelaxedIsSmooth ==
  ASSUME NEW text \in Text
  PROVE  /\ Relaxed(text) \in Text
         /\ ~Rough(Relaxed(text))
         /\ \A j \in 1..Len(Relaxed(text)) : \E i \in 1..Len(text) :
              /\ Stays(text, i)
              /\ Relaxed(text)[j] = IF text[i] \in WSP THEN "sp" ELSE text[i]
<1> DEFINE v == Spaced(text)
           S == Staying(text)
           out == Relaxed(text)
<1>1. PICK f : IsFilter(f, S, v) /\ out = f[Len(text)]
  BY RelaxedIsFilter
<1>2. /\ v \in Text /\ Len(v) = Len(text) /\ Len(text) \in Nat
      /\ \A i \in 1..Len(text) : v[i] = IF text[i] \in WSP THEN "sp" ELSE text[i]
  BY SpacedFacts DEF Text
<1> HIDE DEF v
<1>3. out \in Text
  BY <1>1, <1>2 DEF IsFilter
<1>4. ASSUME NEW j \in 1..Len(out)
      PROVE  \E i \in 1..Len(text) : /\ Stays(text, i)
                                     /\ out[j] = IF text[i] \in WSP THEN "sp" ELSE text[i]
  <2>1. j \in 1..Len(f[Len(v)])
    BY <1>1, <1>2
  <2>2. PICK i \in 1..Len(v) : i \in S /\ v[i] = f[Len(v)][j]
    BY <1>1, <1>2, <2>1, FilterOrigin, SMTT(30)
  <2>3. i \in 1..Len(text) /\ Stays(text, i) /\ v[i] = out[j]
    BY <1>1, <1>2, <2>2 DEF Staying
  <2> QED
    BY <1>2, <2>3
<1>5. ASSUME NEW j \in 1..Len(out), out[j] = "tab" PROVE FALSE
  <2>1. PICK i \in 1..Len(text) : out[j] = IF text[i] \in WSP THEN "sp" ELSE text[i]
    BY <1>4
  <2> QED
    BY <1>5, <2>1 DEF WSP
<1>6. ASSUME NEW j \in 2..Len(out), out[j - 1] \in WSP, out[j] \in WSP PROVE FALSE
  <2>1. j \in 2..Len(f[Len(v)])
    BY <1>1, <1>2
  <2>2. PICK i \in 1..Len(v), h \in 1..Len(v) :
           /\ h < i /\ h \in S /\ i \in S /\ \A m \in (h + 1)..(i - 1) : m \notin S
           /\ f[Len(v)][j - 1] = v[h] /\ f[Len(v)][j] = v[i]
    <3>1. IsFilter(f, S, v) /\ v \in Text
      BY <1>1, <1>2
    <3> HIDE DEF S, out
    <3> QED
      BY <2>1, <3>1, FilterNeighbours
  <2>3. h \in 1..Len(text) /\ i \in 1..Len(text) /\ v[h] \in WSP /\ v[i] \in WSP
    BY <1>1, <1>2, <1>6, <2>2
  <2>4. text[h] \in WSP /\ text[i] \in WSP
    BY <1>2, <2>3
  <2>5. Stays(text, h) /\ Stays(text, i) /\ \A m \in (h + 1)..(i - 1) : ~Stays(text, m)
    BY <1>2, <2>2 DEF Staying
  <2>6. PICK e \in (h + 1)..Len(text) : /\ text[e] \notin WSP \union {"crlf"}
                                        /\ \A m \in h..e : text[m] # "crlf"
    BY <2>4, <2>5 DEF Stays, MoreInLine
  <2>7. Stays(text, e)
    BY <2>6 DEF Stays
  <2>8. e > i
    BY <1>2, <2>3, <2>4, <2>5, <2>6, <2>7
  <2>9. i > 1 /\ text[i - 1] \notin WSP
    BY <2>2, <2>4, <2>5 DEF Stays
  <2>10. i - 1 # h
    BY <2>4, <2>9
  <2>11. i - 1 \in (h + 1)..(i - 1) /\ i - 1 \in h..e
    BY <1>2, <2>2, <2>8, <2>10
  <2>12. Stays(text, i - 1)
    BY <2>6, <2>9, <2>11 DEF Stays
  <2> QED
    BY <2>5, <2>11, <2>12
<1> HIDE DEF out
<1>7. ~Rough(out)
  BY <1>5, <1>6 DEF Rough
<1> QED
  BY <1>3, <1>4, <1>7 DEF out

\* What DotWriter sends has no bare LF, and is the text if that has none.
LEMMA OnTheWireFacts ==
  ASSUME NEW text \in Text
  PROVE  /\ OnTheWire(text) \in Text /\ Len(OnTheWire(text)) = Len(text)
         /\ \A i \in 1..Len(text) : OnTheWire(text)[i] # "lf"
         /\ (\A i \in 1..Len(text) : text[i] # "lf") => OnTheWire(text) = text
<1>1. \A i \in 1..Len(text) : (IF text[i] = "lf" THEN "crlf" ELSE text[i]) \in Token
  BY DEF Text, Token
<1>2. Len(text) \in Nat /\ DOMAIN text = 1..Len(text)
  BY DEF Text
<1>3. text = [i \in 1..Len(text) |-> text[i]]
  BY DEF Text
<1>4. OnTheWire(text) = [i \in 1..Len(text) |-> IF text[i] = "lf" THEN "crlf" ELSE text[i]]
  BY <1>2 DEF OnTheWire
<1>5. OnTheWire(text) \in Text /\ Len(OnTheWire(text)) = Len(text)
  BY <1>1, <1>2, <1>4 DEF Text
<1>6. (\A i \in 1..Len(text) : text[i] # "lf") => OnTheWire(text) = text
  BY <1>3, <1>4
<1> QED
  BY <1>4, <1>5, <1>6

\* Of a text without a run of white space, without a bare LF and with
\* something visible, the receiver hashes what is kept.
LEMMA RelaxedIsKept ==
  ASSUME NEW text \in Text, NEW f, IsFilter(f, Kept(text), text),
         \A i \in 1..Len(text) : text[i] # "lf", ~Run(text), LastVisible(text) # 0
  PROVE  Relaxed(text) = f[Len(text)]
<1> DEFINE v == Spaced(text)
           S == Staying(text)
<1>1. PICK r : IsFilter(r, S, v) /\ Relaxed(text) = r[Len(text)]
  BY RelaxedIsFilter
<1>2. /\ v \in Text /\ Len(v) = Len(text) /\ Len(text) \in Nat /\ DOMAIN text = 1..Len(text)
      /\ \A i \in 1..Len(text) : v[i] = IF text[i] \in WSP THEN "sp" ELSE text[i]
  BY SpacedFacts DEF Text
<1>3. OnTheWire(text) = text
  BY OnTheWireFacts
<1>4. \A i \in 1..Len(text) :
        text[i] \in WSP /\ MoreInLine(text, i) => text[i] = "sp" /\ (i = 1 \/ text[i - 1] \notin WSP)
  BY <1>2, <1>3 DEF Run, WSP
<1>5. \A i \in 1..Len(text) : i \in S <=> i \in Kept(text)
  BY <1>4 DEF Staying, Stays, Kept
<1>6. \A i \in 1..Len(text) : i \in Kept(text) => v[i] = text[i]
  BY <1>2, <1>4 DEF Kept
<1> HIDE DEF v, S
<1> DEFINE U == {k \in 0..Len(text) : r[k] = f[k]}
<1>7. 0 \in U
  BY <1>1, <1>2 DEF IsFilter
<1>8. ASSUME NEW h \in 0..(Len(text) - 1), h \in U PROVE h + 1 \in U
  <2> DEFINE k == h + 1
  <2>1. k \in 1..Len(text) /\ k \in 1..Len(v) /\ k - 1 = h /\ k \in 0..Len(text)
    BY <1>2
  <2> HIDE DEF k
  <2>2. r[k] = IF k \in S THEN Append(r[k - 1], v[k]) ELSE r[k - 1]
    BY <1>1, <2>1 DEF IsFilter
  <2>3. f[k] = IF k \in Kept(text) THEN Append(f[k - 1], text[k]) ELSE f[k - 1]
    BY <2>1 DEF IsFilter
  <2>4. r[k] = f[k]
    BY <1>5, <1>6, <1>8, <2>1, <2>2, <2>3
  <2> QED
    BY <2>1, <2>4 DEF k
<1>9. 0..Len(text) \subseteq U
  <2> HIDE DEF U
  <2> QED
    BY <1>2, <1>7, <1>8, UpTo
<1> QED
  BY <1>1, <1>2, <1>9

\* What canonicalizeBody hashes is what the receiver hashes for those bodies
\* without a bare LF and without a run of white space in which something is
\* visible, and for no other.
THEOREM BodyMatches ==
  ASSUME NEW text \in Text, text # <<>>, text[Len(text)] = "crlf"
  PROVE  CanonicalizeBody(text) = Relaxed(OnTheWire(text)) <=>
           /\ \A i \in 1..Len(text) : text[i] # "lf"
           /\ ~Run(text)
           /\ \E i \in 1..Len(text) : Visible(text[i])
<1> DEFINE wire == OnTheWire(text)
           out == Relaxed(wire)
           canon == CanonicalizeBody(text)
<1>1. /\ wire \in Text /\ Len(wire) = Len(text)
      /\ \A i \in 1..Len(text) : wire[i] # "lf"
      /\ (\A i \in 1..Len(text) : text[i] # "lf") => wire = text
  BY OnTheWireFacts
<1>2. /\ out \in Text /\ ~Rough(out)
      /\ \A j \in 1..Len(out) : \E i \in 1..Len(wire) :
           Stays(wire, i) /\ out[j] = IF wire[i] \in WSP THEN "sp" ELSE wire[i]
  BY <1>1, RelaxedIsSmooth
<1>3. PICK f : IsFilter(f, Kept(text), text)
  BY FilterExists
<1>4. LastVisible(text) # 0 => canon = f[Len(text)]
  BY <1>3, CanonicalIsKept
<1>5. /\ Len(text) \in Nat /\ LastVisible(text) \in 0..Len(text)
      /\ LastVisible(text) # 0 => Visible(text[LastVisible(text)])
      /\ \A j \in (LastVisible(text) + 1)..Len(text) : text[j] \in WSP \union {"crlf"}
  BY LastVisibleFacts
<1>6. LastVisible(text) # 0 <=> \E i \in 1..Len(text) : Visible(text[i])
  BY <1>5 DEF Visible
<1> HIDE DEF wire, out, canon
<1>7. ASSUME \A i \in 1..Len(text) : text[i] # "lf", ~Run(text), LastVisible(text) # 0
      PROVE  canon = out
  <2>1. Relaxed(text) = f[Len(text)]
    BY <1>3, <1>7, RelaxedIsKept
  <2> QED
    BY <1>1, <1>4, <1>7, <2>1 DEF out, wire
<1>8. ASSUME NEW i \in 1..Len(text), text[i] = "lf" PROVE canon # out
  <2>1. Visible(text[i])
    BY <1>8 DEF Visible, WSP
  <2>2. canon = f[Len(text)]
    BY <1>4, <1>6, <2>1
  <2>3. i \in Kept(text)
    BY <1>8 DEF Kept, WSP
  <2>4. \E j \in 1..Len(canon) : canon[j] = "lf"
    BY <1>3, <1>8, <2>2, <2>3, FilterKeeps
  <2>5. \A j \in 1..Len(out) : out[j] # "lf"
    BY <1>1, <1>2
  <2> QED
    BY <2>4, <2>5
<1>9. ASSUME \A i \in 1..Len(text) : text[i] # "lf", Run(text) PROVE canon # out
  <2>1. wire = text /\ DOMAIN text = 1..Len(text)
    BY <1>1, <1>9 DEF Text
  <2>2. PICK i \in 1..Len(text) : /\ text[i] \in WSP /\ MoreInLine(text, i)
                                  /\ text[i] = "tab" \/ (i > 1 /\ text[i - 1] \in WSP)
    BY <1>9, <2>1 DEF Run, wire
  <2>3. PICK e \in (i + 1)..Len(text) : /\ text[e] \notin WSP \union {"crlf"}
                                        /\ \A m \in i..e : text[m] # "crlf"
    BY <2>2 DEF MoreInLine
  <2>4. canon = f[Len(text)]
    <3>1. e \in 1..Len(text) /\ Visible(text[e])
      BY <2>3 DEF Visible
    <3> QED
      BY <1>4, <1>6, <3>1
  <2>5. i \in Kept(text)
    BY <2>2 DEF Kept
  <2>6. Rough(canon)
    <3>1. CASE text[i] = "tab"
      <4>1. \E j \in 1..Len(canon) : canon[j] = text[i]
        BY <1>3, <2>4, <2>5, FilterKeeps
      <4> QED
        BY <3>1, <4>1 DEF Rough
    <3>2. CASE i > 1 /\ text[i - 1] \in WSP
      <4>1. MoreInLine(text, i - 1)
        <5>1. e \in ((i - 1) + 1)..Len(text)
          BY <1>5, <2>3
        <5>2. \A m \in (i - 1)..e : m = i - 1 \/ m \in i..e
          BY <1>5
        <5>3. text[i - 1] # "crlf"
          BY <3>2 DEF WSP
        <5> QED
          BY <2>3, <5>1, <5>2, <5>3 DEF MoreInLine
      <4>2. i - 1 \in 1..Len(text)
        BY <1>5, <3>2
      <4>3. i - 1 \in Kept(text)
        BY <3>2, <4>1, <4>2 DEF Kept
      <4>4. \E j \in 2..Len(canon) : canon[j - 1] = text[i - 1] /\ canon[j] = text[i]
        BY <1>3, <2>4, <2>5, <3>2, <4>3, FilterKeeps
      <4> QED
        BY <2>2, <3>2, <4>4 DEF Rough
    <3> QED
      BY <2>2, <3>1, <3>2
  <2> QED
    BY <1>2, <2>6
<1>10. ASSUME \A i \in 1..Len(text) : text[i] # "lf", LastVisible(text) = 0 PROVE canon # out
  <2>1. canon = <<"crlf">>
    BY <1>10, CanonicalOfNothing DEF canon
  <2>2. wire = text
    BY <1>1, <1>10
  <2>3. ASSUME NEW j \in 1..Len(out) PROVE FALSE
    <3>1. PICK i \in 1..Len(text) : Stays(text, i)
      BY <1>2, <2>2
    <3>2. text[i] \in WSP \union {"crlf"}
      BY <1>5, <1>10
    <3>3. text[i] # "crlf"
      BY <1>10, <3>1 DEF Stays, WSP
    <3>4. PICK e \in (i + 1)..Len(text) : text[e] \notin WSP \union {"crlf"}
      BY <3>1, <3>2, <3>3 DEF Stays, MoreInLine
    <3> QED
      BY <1>5, <1>10, <3>4
  <2>4. Len(<<"crlf">>) = 1
    OBVIOUS
  <2> QED
    BY <2>1, <2>3, <2>4, SMTT(30)
<1> QED
  BY <1>6, <1>7, <1>8, <1>9, <1>10 DEF canon, out, wire

-----------------------------------------------------------------------------
(* Headers. *)

HeaderText == Seq({"x", "sp", "tab", "nbsp"})

\* A space and a token behind two texts.
LEMMA SpaceWord ==
  ASSUME NEW a \in Text, NEW b \in Text, NEW t \in Token
  PROVE  /\ Append((a \o b) \o <<"sp">>, t) = a \o (b \o <<"sp", t>>)
         /\ b \o <<"sp", t>> \in Text
<1>1. "sp" \in Token
  BY DEF Token
<1>2. <<"sp">> \in Text /\ <<t>> \in Text /\ <<"sp", t>> = <<"sp">> \o <<t>>
  BY <1>1 DEF Text
<1>3. /\ a \o b \in Text /\ (a \o b) \o <<"sp">> \in Text /\ <<"sp">> \o <<t>> \in Text
      /\ b \o (<<"sp">> \o <<t>>) \in Text
  BY <1>2, ConcatFacts
<1>4. Append((a \o b) \o <<"sp">>, t) = ((a \o b) \o <<"sp">>) \o <<t>>
  BY <1>3, AppendConcat
<1>5. ((a \o b) \o <<"sp">>) \o <<t>> = (a \o b) \o (<<"sp">> \o <<t>>)
  BY <1>2, <1>3, ConcatAssoc, SMTT(30)
<1>6. (a \o b) \o (<<"sp">> \o <<t>>) = a \o (b \o (<<"sp">> \o <<t>>))
  BY <1>3, ConcatAssoc, SMTT(30)
<1> QED
  BY <1>2, <1>3, <1>4, <1>5, <1>6

\* relaxHeaderValue puts out words and single spaces only.
LEMMA RelaxHeaderWords ==
  ASSUME NEW value \in HeaderText
  PROVE  RelaxHeaderValue(value) \in Seq({"x", "sp"})
<1>1. value \in Text
  BY DEF HeaderText, Text, Token
<1>2. PICK o : IsRelaxHeader(o, value) /\ RelaxHeaderValue(value) = o[Len(value)]
  BY <1>1, RelaxHeaderFold
<1> DEFINE U == {k \in 0..Len(value) : o[k] \in Seq({"x", "sp"})}
<1>3. 0 \in U
  BY <1>1, <1>2 DEF IsRelaxHeader, Text
<1>4. ASSUME NEW h \in 0..(Len(value) - 1), h \in U PROVE h + 1 \in U
  <2> DEFINE k == h + 1
  <2>1. k \in 1..Len(value) /\ k - 1 = h /\ k \in 0..Len(value)
    OBVIOUS
  <2> HIDE DEF k
  <2>2. o[k] = IF value[k] \in {"sp", "tab", "nbsp"} THEN o[k - 1]
               ELSE IF o[k - 1] # <<>> /\ k > 1 /\ value[k - 1] \in {"sp", "tab", "nbsp"}
                 THEN o[k - 1] \o <<"sp", value[k]>>
               ELSE Append(o[k - 1], value[k])
    BY <1>2, <2>1 DEF IsRelaxHeader
  <2>3. value[k] \in {"x", "sp", "tab", "nbsp"}
    BY <2>1 DEF HeaderText
  <2>4. o[h] \in Seq({"x", "sp"})
    BY <1>4
  <2>5. o[h] \o <<"sp", "x">> \in Seq({"x", "sp"}) /\ Append(o[h], "x") \in Seq({"x", "sp"})
    BY <2>4
  <2>6. o[k] \in Seq({"x", "sp"})
    BY <2>1, <2>2, <2>3, <2>4, <2>5
  <2> QED
    BY <2>1, <2>6 DEF k
<1>5. 0..Len(value) \subseteq U
  <2>1. Len(value) \in Nat
    BY DEF Text
  <2> HIDE DEF U
  <2> QED
    BY <2>1, <1>1, <1>3, <1>4, UpTo
<1> QED
  BY <1>1, <1>2, <1>5 DEF Text

\* Between what the two have put out after k characters: the receiver keeps a
\* space at the beginning, and one where a word is to follow.
LEMMA HeaderStep ==
  ASSUME NEW value \in HeaderText, \A i \in 1..Len(value) : value[i] # "nbsp",
         NEW o, IsRelaxHeader(o, value), NEW r, IsRelaxed(r, value), NEW k \in 0..Len(value)
  PROVE  \/ /\ o[k] = <<>> /\ \A i \in 1..k : value[i] \in WSP
            /\ r[k] = IF k > 0 /\ Rest(value, k) THEN <<"sp">> ELSE <<>>
         \/ /\ k > 0 /\ o[k] # <<>> /\ o[k][1] = "x"
            /\ r[k] = (IF value[1] \in WSP THEN <<"sp">> ELSE <<>>) \o o[k]
                        \o (IF value[k] \in WSP /\ Rest(value, k) THEN <<"sp">> ELSE <<>>)
<1> DEFINE lead == IF value[1] \in WSP THEN <<"sp">> ELSE <<>>
           pend(i) == IF value[i] \in WSP /\ Rest(value, i) THEN <<"sp">> ELSE <<>>
           Blank(i) == /\ o[i] = <<>> /\ \A j \in 1..i : value[j] \in WSP
                       /\ r[i] = IF i > 0 /\ Rest(value, i) THEN <<"sp">> ELSE <<>>
           Words(i) == /\ i > 0 /\ o[i] # <<>> /\ o[i][1] = "x"
                       /\ r[i] = lead \o o[i] \o pend(i)
           U == {i \in 0..Len(value) : Blank(i) \/ Words(i)}
<1>1. /\ value \in Text /\ Len(value) \in Nat
      /\ \A i \in 1..Len(value) : value[i] \in {"x", "sp", "tab"}
  BY DEF HeaderText, Text, Token
<1>2. lead \in Text /\ <<>> \in Text /\ <<"sp">> \in Text /\ "x" \in Token /\ "sp" \in Token
  <2>1. "x" \in Token /\ "sp" \in Token
    BY DEF Token
  <2>2. <<>> \in Text /\ <<"sp">> \in Text
    BY <2>1 DEF Text
  <2> QED
    BY <2>1, <2>2
<1> HIDE DEF lead
<1>3. 0 \in U
  BY <1>1 DEF IsRelaxHeader, IsRelaxed
<1>4. ASSUME NEW h \in 0..(Len(value) - 1), h \in U PROVE h + 1 \in U
  <2> DEFINE n == h + 1
             t == value[n]
  <2>1. n \in 1..Len(value) /\ n - 1 = h /\ n \in 0..Len(value) /\ n > 0 /\ h \in 0..Len(value) /\ h \in Nat
    BY <1>1
  <2> HIDE DEF n
  <2>2. o[n] = IF t \in {"sp", "tab", "nbsp"} THEN o[h]
               ELSE IF o[h] # <<>> /\ n > 1 /\ value[h] \in {"sp", "tab", "nbsp"}
                 THEN o[h] \o <<"sp", t>>
               ELSE Append(o[h], t)
    BY <2>1 DEF IsRelaxHeader
  <2>3. r[n] = IF Stays(value, n) THEN Append(r[h], IF t \in WSP THEN "sp" ELSE t) ELSE r[h]
    BY <2>1 DEF IsRelaxed
  <2>4. o[h] \in Text /\ r[h] \in Text
    BY <2>1 DEF IsRelaxHeader, IsRelaxed
  <2>5. t \in {"x", "sp", "tab"}
    BY <1>1, <2>1
  <2>6. t \in WSP => /\ Rest(value, h) <=> Rest(value, n)
                     /\ Rest(value, n) <=> MoreInLine(value, n)
    BY <1>1, <2>1, RestStep
  <2>7. Visible(t) => Rest(value, h)
    BY <1>1, <2>1, RestStep
  <2>8. Blank(n) \/ Words(n)
    <3>1. CASE t \in WSP
      <4>1. o[n] = o[h]
        BY <2>2, <3>1 DEF WSP
      <4>2. r[n] = IF (n = 1 \/ value[h] \notin WSP) /\ Rest(value, n) THEN Append(r[h], "sp") ELSE r[h]
        BY <2>1, <2>3, <2>6, <3>1 DEF Stays
      <4>3. CASE Blank(h)
        <5>1. \A j \in 1..n : value[j] \in WSP
          <6>1. \A j \in 1..n : j = n \/ j \in 1..h
            BY <2>1
          <6> QED
            BY <3>1, <4>3, <6>1
        <5>2. CASE h = 0
          <6>1. r[h] = <<>> /\ n = 1
            BY <2>1, <4>3, <5>2
          <6>2. Append(<<>>, "sp") = <<"sp">>
            OBVIOUS
          <6> QED
            BY <2>1, <4>1, <4>2, <4>3, <5>1, <6>1, <6>2
        <5>3. CASE h > 0
          <6>1. value[h] \in WSP /\ n # 1
            BY <2>1, <4>3, <5>3
          <6>2. r[n] = r[h]
            BY <4>2, <6>1
          <6>3. r[h] = IF Rest(value, h) THEN <<"sp">> ELSE <<>>
            BY <4>3, <5>3
          <6>4. r[n] = IF n > 0 /\ Rest(value, n) THEN <<"sp">> ELSE <<>>
            BY <2>1, <2>6, <3>1, <6>2, <6>3
          <6> QED
            BY <4>1, <4>3, <5>1, <6>4
        <5>4. h = 0 \/ h > 0
          BY <2>1
        <5> QED
          BY <5>2, <5>3, <5>4, Zenon
      <4>4. CASE Words(h)
        <5>1. n # 1 /\ value[h] \in {"x", "sp", "tab"}
          BY <1>1, <2>1, <4>4
        <5>2. CASE value[h] \in WSP
          <6>1. pend(n) = pend(h)
            BY <2>6, <3>1, <5>2
          <6> QED
            BY <2>1, <4>1, <4>2, <4>4, <5>1, <5>2, <6>1
        <5>3. CASE value[h] \notin WSP
          <6>1. r[h] = lead \o o[h] \o <<>>
            BY <4>4, <5>3
          <6>2. lead \o o[h] \in Text /\ (lead \o o[h]) \o <<>> = lead \o o[h]
            BY <1>2, <2>4, ConcatFacts
          <6>3. Append(lead \o o[h], "sp") = lead \o o[h] \o <<"sp">>
            BY <1>2, <2>4, AppendJoin
          <6>4. r[n] = lead \o o[h] \o pend(n)
            BY <3>1, <4>2, <5>3, <6>1, <6>2, <6>3
          <6> QED
            BY <2>1, <4>1, <4>4, <6>4
        <5> QED
          BY <5>2, <5>3
      <4> QED
        BY <1>4, <4>3, <4>4
    <3>2. CASE t = "x"
      <4>1. /\ t \notin WSP /\ t \notin {"sp", "tab", "nbsp"} /\ t # "crlf" /\ Visible(t)
        BY <3>2 DEF WSP, Visible
      <4>2. r[n] = Append(r[h], "x") /\ pend(n) = <<>> /\ Rest(value, h)
        BY <2>3, <2>7, <3>2, <4>1 DEF Stays
      <4>3. CASE Blank(h)
        <5>1. o[n] = <<"x">>
          <6>1. Append(<<>>, "x") = <<"x">>
            OBVIOUS
          <6> QED
            BY <2>2, <3>2, <4>1, <4>3, <6>1
        <5>2. r[h] = lead
          <6>1. CASE h = 0
            <7>1. value[1] \notin WSP
              BY <2>1, <4>1, <6>1
            <7> QED
              BY <4>3, <6>1, <7>1 DEF lead
          <6>2. CASE h > 0
            <7>1. value[1] \in WSP
              BY <2>1, <4>3, <6>2
            <7> QED
              BY <4>2, <4>3, <6>2, <7>1 DEF lead
          <6> QED
            BY <2>1, <6>1, <6>2
        <5>3. Append(lead, "x") = lead \o <<"x">> /\ lead \o <<"x">> \in Text
          BY <1>2, AppendConcat, ConcatFacts
        <5>4. (lead \o <<"x">>) \o <<>> = lead \o <<"x">>
          BY <1>2, <5>3, ConcatFacts
        <5>5. <<"x">> # <<>> /\ <<"x">>[1] = "x"
          OBVIOUS
        <5> QED
          BY <2>1, <4>2, <5>1, <5>2, <5>3, <5>4, <5>5
      <4>4. CASE Words(h)
        <5>1. n > 1
          BY <2>1, <4>4
        <5>2. CASE value[h] \in WSP
          <6>1. o[n] = o[h] \o <<"sp", "x">>
            BY <2>2, <3>2, <4>1, <4>4, <5>1, <5>2 DEF WSP
          <6>2. r[h] = lead \o o[h] \o <<"sp">>
            BY <4>2, <4>4, <5>2
          <6>3. Append((lead \o o[h]) \o <<"sp">>, "x") = lead \o (o[h] \o <<"sp", "x">>)
            BY <1>2, <2>4, SpaceWord
          <6>4. /\ o[n] \in Text /\ lead \o o[n] \in Text /\ (lead \o o[n]) \o <<>> = lead \o o[n]
            <7>1. o[n] \in Text
              BY <1>2, <2>4, <6>1, SpaceWord
            <7>2. lead \o o[n] \in Text
              BY <1>2, <7>1, ConcatFacts
            <7> QED
              BY <1>2, <7>1, <7>2, ConcatFacts
          <6>5. o[n] # <<>> /\ o[n][1] = "x"
            <7>1. o[h][1] = "x" /\ Len(o[h]) \in Nat \ {0}
              BY <2>4, <4>4 DEF Text
            <7>2. \A s \in Text : Len(s) \in Nat \ {0} =>
                     s \o <<"sp", "x">> # <<>> /\ (s \o <<"sp", "x">>)[1] = s[1]
              BY DEF Text
            <7> QED
              BY <2>4, <6>1, <7>1, <7>2
          <6> QED
            BY <2>1, <4>2, <6>1, <6>2, <6>3, <6>4, <6>5
        <5>3. CASE value[h] \notin WSP
          <6>1. value[h] \notin {"sp", "tab", "nbsp"}
            BY <2>1, <4>4, <5>3 DEF WSP
          <6>2. o[n] = Append(o[h], "x")
            BY <2>2, <3>2, <4>1, <6>1
          <6>3. r[h] = (lead \o o[h]) \o <<>>
            BY <4>4, <5>3
          <6>4. lead \o o[h] \in Text /\ (lead \o o[h]) \o <<>> = lead \o o[h]
            BY <1>2, <2>4, ConcatFacts
          <6>5. Append(lead \o o[h], "x") = lead \o Append(o[h], "x")
            BY <1>2, <2>4, AppendConcat
          <6>6. /\ o[n] \in Text /\ o[n] # <<>> /\ o[n][1] = "x"
            <7>1. o[h][1] = "x" /\ Len(o[h]) \in Nat \ {0}
              BY <2>4, <4>4 DEF Text
            <7>2. /\ Append(o[h], "x") \in Text /\ Append(o[h], "x") # <<>>
                  /\ \A j \in 1..Len(o[h]) : Append(o[h], "x")[j] = o[h][j]
              BY <1>2, <2>4, AppendFacts
            <7>3. 1 \in 1..Len(o[h])
              BY <7>1
            <7> QED
              BY <6>2, <7>1, <7>2, <7>3
          <6>7. lead \o o[n] \in Text /\ (lead \o o[n]) \o <<>> = lead \o o[n]
            <7>1. lead \o o[n] \in Text
              BY <1>2, <6>6, ConcatFacts
            <7> QED
              BY <1>2, <7>1, ConcatFacts
          <6> QED
            BY <2>1, <4>2, <6>2, <6>3, <6>4, <6>5, <6>6, <6>7
        <5> QED
          BY <5>2, <5>3
      <4> QED
        BY <1>4, <4>3, <4>4
    <3> QED
      BY <2>5, <3>1, <3>2 DEF WSP
  <2> HIDE DEF Blank, Words
  <2> QED
    BY <2>1, <2>8 DEF n
<1>5. 0..Len(value) \subseteq U
  <2> HIDE DEF U
  <2> QED
    BY <1>1, <1>3, <1>4, UpTo
<1>6. Blank(k) \/ Words(k)
  <2> HIDE DEF Blank, Words
  <2> QED
    BY <1>5
<1> QED
  BY <1>6 DEF lead

\* A space that the receiver sees in front of a header's value is cut off.
LEMMA HeadCut ==
  ASSUME NEW value \in Text
  PROVE  LET line == Relaxed(value)
         IN  /\ line # <<>> /\ line[1] = "sp" => RelaxedHeader(value) = Tail(line)
             /\ line = <<>> \/ line[1] # "sp" => RelaxedHeader(value) = line
  BY DEF RelaxedHeader

\* What relaxHeaderValue hashes is what the receiver hashes for those values
\* without a no-break space, and for no other.
THEOREM HeaderMatches ==
  ASSUME NEW value \in HeaderText
  PROVE  RelaxHeaderValue(value) = RelaxedHeader(value) <=>
           \A i \in 1..Len(value) : value[i] # "nbsp"
<1> DEFINE line == Relaxed(value)
           words == RelaxHeaderValue(value)
           n == Len(value)
<1>1. value \in Text /\ n \in Nat /\ n \in 0..n /\ ~Rest(value, n)
  BY DEF HeaderText, Text, Token, Rest
<1>2. ASSUME \A i \in 1..n : value[i] # "nbsp" PROVE words = RelaxedHeader(value)
  <2>1. PICK o : IsRelaxHeader(o, value) /\ words = o[n]
    BY <1>1, RelaxHeaderFold
  <2>2. PICK r : IsRelaxed(r, value) /\ line = r[n]
    BY <1>1, RelaxedFold
  <2>3. o[n] \in Text
    BY <1>1, <2>1 DEF IsRelaxHeader
  <2> HIDE DEF line, words
  <2>4. \/ o[n] = <<>> /\ r[n] = IF n > 0 /\ Rest(value, n) THEN <<"sp">> ELSE <<>>
        \/ /\ n > 0 /\ o[n] # <<>> /\ o[n][1] = "x"
           /\ r[n] = (IF value[1] \in WSP THEN <<"sp">> ELSE <<>>) \o o[n]
                       \o (IF value[n] \in WSP /\ Rest(value, n) THEN <<"sp">> ELSE <<>>)
    BY <1>1, <1>2, <2>1, <2>2, HeaderStep, ZenonT(30)
  <2>5. CASE o[n] = <<>>
    <3>1. line = <<>>
      BY <1>1, <2>2, <2>4, <2>5
    <3> QED
      BY <2>1, <2>5, <3>1 DEF RelaxedHeader, line
  <2>6. CASE o[n] # <<>>
    <3>1. o[n][1] = "x"
      BY <2>4, <2>6
    <3>2. /\ <<"sp">> \in Text /\ <<>> \in Text
          /\ r[n] = (IF value[1] \in WSP THEN <<"sp">> ELSE <<>>) \o o[n] \o <<>>
      <4>1. <<"sp">> \in Text /\ <<>> \in Text
        BY DEF Text, Token
      <4> QED
        BY <1>1, <2>4, <2>6, <4>1
    <3>3. CASE value[1] \in WSP
      <4>1. <<"sp">> \o o[n] \in Text /\ (<<"sp">> \o o[n]) \o <<>> = <<"sp">> \o o[n]
        BY <2>3, <3>2, ConcatFacts
      <4>2. line = <<"sp">> \o o[n]
        BY <2>2, <3>2, <3>3, <4>1
      <4>3. line # <<>> /\ line[1] = "sp" /\ Tail(line) = o[n]
        BY <2>3, <4>2 DEF Text
      <4> QED
        BY <1>1, <2>1, <4>3, HeadCut DEF line
    <3>4. CASE value[1] \notin WSP
      <4>1. <<>> \o o[n] = o[n] /\ o[n] \o <<>> = o[n]
        BY <2>3, <3>2, ConcatFacts
      <4>2. line = o[n]
        BY <2>2, <3>2, <3>4, <4>1
      <4>3. line[1] # "sp"
        BY <3>1, <4>2
      <4> QED
        BY <1>1, <2>1, <4>2, <4>3, HeadCut DEF line
    <3> QED
      BY <3>3, <3>4
  <2> QED
    BY <2>5, <2>6
<1>3. ASSUME NEW i \in 1..n, value[i] = "nbsp" PROVE words # RelaxedHeader(value)
  <2>1. PICK f : IsFilter(f, Staying(value), Spaced(value)) /\ line = f[n]
    BY <1>1, RelaxedIsFilter
  <2>2. Spaced(value) \in Text /\ Len(Spaced(value)) = n /\ Spaced(value)[i] = "nbsp"
    BY <1>1, <1>3, SpacedFacts DEF WSP
  <2>3. i \in Staying(value)
    BY <1>3 DEF Staying, Stays, WSP
  <2>4. PICK j \in 1..Len(line) : line[j] = "nbsp"
    BY <2>1, <2>2, <2>3, FilterKeeps
  <2>5. line \in Text
    BY <1>1, RelaxedIsSmooth
  <2>6. words \in Seq({"x", "sp"})
    BY RelaxHeaderWords
  <2> HIDE DEF line, words
  <2>7. \A k \in 1..Len(words) : words[k] # "nbsp"
    BY <2>6
  <2>8. CASE line # <<>> /\ line[1] = "sp"
    <3>1. RelaxedHeader(value) = Tail(line)
      BY <1>1, <2>8, HeadCut DEF line
    <3>2. j # 1 /\ Len(line) \in Nat
      BY <2>4, <2>5, <2>8 DEF Text
    <3>3. j - 1 \in 1..Len(Tail(line)) /\ Tail(line)[j - 1] = "nbsp"
      BY <2>4, <2>5, <2>8, <3>2 DEF Text
    <3> QED
      BY <2>7, <3>1, <3>3
  <2>9. CASE line = <<>> \/ line[1] # "sp"
    <3>1. RelaxedHeader(value) = line
      BY <1>1, <2>9, HeadCut DEF line
    <3> QED
      BY <2>4, <2>7, <3>1
  <2> QED
    BY <2>8, <2>9
<1> QED
  BY <1>2, <1>3

-----------------------------------------------------------------------------
(* What composeMessage puts around a client's texts. *)

\* The two parts of a concatenation, position by position.
LEMMA ConcatAt ==
  ASSUME NEW a \in Text, NEW b \in Text
  PROVE  /\ a \o b \in Text /\ Len(a) \in Nat /\ Len(b) \in Nat /\ Len(a \o b) = Len(a) + Len(b)
         /\ \A i \in 1..Len(a) : (a \o b)[i] = a[i]
         /\ \A i \in 1..Len(b) : (a \o b)[Len(a) + i] = b[i]
  BY DEF Text

\* What the client's texts must not have.
NoLF(s)  == \A i \in 1..Len(s) : s[i] # "lf"
Clean(s) == NoLF(s) /\ ~Run(s)

Closed(s) == s \in Text /\ Len(s) > 0 /\ s[Len(s)] = "crlf"
Opens(s)  == s \in Text /\ Len(s) > 0 /\ s[1] = "crlf"

\* A run at position i of a text without bare LFs, of which j is visible.
RunAt(s, i, j) ==
  /\ i \in 1..Len(s) /\ j \in (i + 1)..Len(s)
  /\ s[i] \in WSP /\ s[j] \notin WSP \union {"crlf"}
  /\ \A k \in i..j : s[k] # "crlf"
  /\ s[i] = "tab" \/ (i > 1 /\ s[i - 1] \in WSP)

LEMMA RunIsAt ==
  ASSUME NEW s \in Text, NoLF(s)
  PROVE  Run(s) <=> \E i, j : RunAt(s, i, j)
<1>1. OnTheWire(s) = s /\ DOMAIN s = 1..Len(s)
  BY OnTheWireFacts DEF NoLF, Text
<1> QED
  BY <1>1 DEF Run, RunAt, MoreInLine

\* A run does not cross a line end, and so not the seam of two texts of which
\* the first ends or the second begins with one.
LEMMA SeamRun ==
  ASSUME NEW a \in Text, NEW b \in Text, Closed(a) \/ Opens(b), NEW i, NEW j
  PROVE  /\ RunAt(a, i, j) => RunAt(a \o b, i, j)
         /\ RunAt(b, i, j) => RunAt(a \o b, Len(a) + i, Len(a) + j)
         /\ RunAt(a \o b, i, j) => RunAt(a, i, j) \/ RunAt(b, i - Len(a), j - Len(a))
<1> DEFINE c == a \o b
           n == Len(a)
           l == Len(b)
<1>1. /\ n \in Nat /\ l \in Nat /\ Len(c) = n + l
      /\ \A k \in 1..n : c[k] = a[k]
      /\ \A k \in 1..l : c[n + k] = b[k]
  BY ConcatAt
<1>2. (n > 0 /\ c[n] = "crlf") \/ (l > 0 /\ c[n + 1] = "crlf")
  <2>1. CASE Closed(a)
    <3>1. n \in 1..n /\ a[n] = "crlf"
      BY <1>1, <2>1 DEF Closed
    <3> HIDE DEF c
    <3> QED
      BY <1>1, <3>1
  <2>2. CASE Opens(b)
    <3>1. 1 \in 1..l /\ b[1] = "crlf"
      BY <1>1, <2>2 DEF Opens
    <3> HIDE DEF c
    <3> QED
      BY <1>1, <3>1
  <2> QED
    BY <2>1, <2>2
<1> HIDE DEF c, n, l
<1>3. ASSUME RunAt(a, i, j) PROVE RunAt(c, i, j)
  <2>1. /\ i \in 1..n /\ j \in (i + 1)..n
        /\ a[i] \in WSP /\ a[j] \notin WSP \union {"crlf"}
        /\ \A k \in i..j : a[k] # "crlf"
        /\ a[i] = "tab" \/ (i > 1 /\ a[i - 1] \in WSP)
    BY <1>3 DEF RunAt, n
  <2>2. /\ i \in 1..Len(c) /\ j \in (i + 1)..Len(c) /\ j \in 1..n
        /\ i > 1 => i - 1 \in 1..n
    BY <1>1, <2>1
  <2>3. \A k \in i..j : k \in 1..n
    BY <1>1, <2>1
  <2>4. c[i] = a[i] /\ c[j] = a[j] /\ (i > 1 => c[i - 1] = a[i - 1])
    BY <1>1, <2>1, <2>2
  <2>5. \A k \in i..j : c[k] # "crlf"
    BY <1>1, <2>1, <2>3
  <2> QED
    BY <2>1, <2>2, <2>4, <2>5 DEF RunAt
<1>4. ASSUME RunAt(b, i, j) PROVE RunAt(c, n + i, n + j)
  <2>1. /\ i \in 1..l /\ j \in (i + 1)..l
        /\ b[i] \in WSP /\ b[j] \notin WSP \union {"crlf"}
        /\ \A k \in i..j : b[k] # "crlf"
        /\ b[i] = "tab" \/ (i > 1 /\ b[i - 1] \in WSP)
    BY <1>4 DEF RunAt, l
  <2>2. /\ n + i \in 1..Len(c) /\ n + j \in ((n + i) + 1)..Len(c) /\ j \in 1..l
        /\ i > 1 => n + i > 1 /\ i - 1 \in 1..l /\ n + (i - 1) = (n + i) - 1
    BY <1>1, <2>1
  <2>3. c[n + i] = b[i] /\ c[n + j] = b[j]
    BY <1>1, <2>1, <2>2
  <2>4. i > 1 => n + i > 1 /\ c[(n + i) - 1] = b[i - 1]
    BY <1>1, <2>2
  <2>5. ASSUME NEW k \in (n + i)..(n + j) PROVE c[k] # "crlf"
    <3>1. k - n \in i..j /\ k - n \in 1..l /\ n + (k - n) = k
      BY <1>1, <2>1
    <3>2. c[n + (k - n)] = b[k - n]
      BY <1>1, <3>1
    <3> QED
      BY <2>1, <3>1, <3>2
  <2> QED
    BY <2>1, <2>2, <2>3, <2>4, <2>5 DEF RunAt
<1>5. ASSUME RunAt(c, i, j) PROVE RunAt(a, i, j) \/ RunAt(b, i - n, j - n)
  <2>1. /\ i \in 1..Len(c) /\ j \in (i + 1)..Len(c)
        /\ c[i] \in WSP /\ c[j] \notin WSP \union {"crlf"}
        /\ \A k \in i..j : c[k] # "crlf"
        /\ c[i] = "tab" \/ (i > 1 /\ c[i - 1] \in WSP)
    BY <1>5 DEF RunAt
  <2>2. CASE i <= n
    <3>1. j <= n
      <4>1. ~(n \in i..j /\ n + 1 \in i..j)
        BY <1>2, <2>1
      <4> QED
        BY <1>1, <2>1, <2>2, <4>1
    <3>2. i \in 1..n /\ j \in (i + 1)..n /\ j \in 1..n /\ (i > 1 => i - 1 \in 1..n)
      BY <1>1, <2>1, <2>2, <3>1
    <3>3. c[i] = a[i] /\ c[j] = a[j] /\ (i > 1 => c[i - 1] = a[i - 1])
      BY <1>1, <3>2
    <3>4. ASSUME NEW k \in i..j PROVE a[k] # "crlf"
      <4>1. k \in 1..n
        <5>1. n \in Nat /\ i \in Nat /\ j \in Nat /\ i >= 1 /\ j <= n
          BY <1>1, <2>1, <3>2
        <5> HIDE DEF n
        <5> QED
          BY <5>1
      <4> QED
        BY <1>1, <2>1, <4>1
    <3> QED
      BY <2>1, <3>2, <3>3, <3>4 DEF RunAt, n
  <2>3. CASE i > n
    <3>1. /\ i - n \in 1..l /\ j - n \in ((i - n) + 1)..l /\ j - n \in 1..l
          /\ n + (i - n) = i /\ n + (j - n) = j
      BY <1>1, <2>1, <2>3
    <3>2. c[n + (i - n)] = b[i - n] /\ c[n + (j - n)] = b[j - n]
      BY <1>1, <3>1
    <3>3. c[i] = b[i - n] /\ c[j] = b[j - n]
      BY <3>1, <3>2
    <3>4. ASSUME NEW k \in (i - n)..(j - n) PROVE b[k] # "crlf"
      <4>1. n + k \in i..j /\ k \in 1..l
        BY <1>1, <2>1, <3>1
      <4> QED
        BY <1>1, <2>1, <4>1
    <3>5. ASSUME i > 1, c[i - 1] \in WSP PROVE i - n > 1 /\ b[(i - n) - 1] \in WSP
      <4>1. c[i - 1] # "crlf" /\ c[i] # "crlf"
        BY <2>1, <3>5 DEF WSP
      <4>2. i # n + 1
        BY <1>1, <1>2, <2>1, <4>1
      <4>3. (i - n) - 1 \in 1..l /\ n + ((i - n) - 1) = i - 1 /\ i - n > 1
        BY <1>1, <2>1, <2>3, <4>2
      <4>4. c[n + ((i - n) - 1)] = b[(i - n) - 1]
        BY <1>1, <4>3
      <4> QED
        BY <3>5, <4>3, <4>4
    <3>6. b[i - n] = "tab" \/ (i - n > 1 /\ b[(i - n) - 1] \in WSP)
      BY <2>1, <3>3, <3>5
    <3> QED
      BY <2>1, <3>1, <3>3, <3>4, <3>6 DEF RunAt, l
  <2> QED
    BY <1>1, <2>1, <2>2, <2>3
<1> QED
  BY <1>3, <1>4, <1>5 DEF c, n

\* So the whole is clean if its two parts are.
LEMMA Joined ==
  ASSUME NEW a \in Text, NEW b \in Text, Closed(a) \/ Opens(b)
  PROVE  /\ a \o b \in Text
         /\ Closed(b) => Closed(a \o b)
         /\ Clean(a \o b) <=> Clean(a) /\ Clean(b)
<1> DEFINE c == a \o b
           n == Len(a)
           l == Len(b)
<1>1. /\ c \in Text /\ n \in Nat /\ l \in Nat /\ Len(c) = n + l
      /\ \A k \in 1..n : c[k] = a[k]
      /\ \A k \in 1..l : c[n + k] = b[k]
  BY ConcatAt
<1>2. Closed(b) => Closed(c)
  <2> HAVE Closed(b)
  <2>1. l > 0 /\ b[l] = "crlf"
    BY DEF Closed
  <2> HIDE DEF c, n, l
  <2>2. l \in 1..l
    BY <1>1, <2>1
  <2>3. Len(c) > 0 /\ c[Len(c)] = "crlf"
    BY <1>1, <2>1, <2>2
  <2> QED
    BY <1>1, <2>3 DEF Closed
<1>3. \A i, j : /\ RunAt(a, i, j) => RunAt(c, i, j)
                /\ RunAt(b, i, j) => RunAt(c, n + i, n + j)
                /\ RunAt(c, i, j) => RunAt(a, i, j) \/ RunAt(b, i - n, j - n)
  BY SeamRun
<1>4. NoLF(c) <=> NoLF(a) /\ NoLF(b)
  <2>1. NoLF(c) => NoLF(a)
    <3> HAVE NoLF(c)
    <3>1. ASSUME NEW k \in 1..n PROVE a[k] # "lf"
      <4> HIDE DEF c, n, l
      <4>1. k \in 1..Len(c)
        BY <1>1
      <4> QED
        BY <1>1, <4>1 DEF NoLF
    <3> QED
      BY <3>1 DEF NoLF
  <2>2. NoLF(c) => NoLF(b)
    <3> HAVE NoLF(c)
    <3>1. ASSUME NEW k \in 1..l PROVE b[k] # "lf"
      <4> HIDE DEF c, n, l
      <4>1. n + k \in 1..Len(c)
        BY <1>1
      <4> QED
        BY <1>1, <4>1 DEF NoLF
    <3> QED
      BY <3>1 DEF NoLF
  <2>3. NoLF(a) /\ NoLF(b) => NoLF(c)
    <3> HAVE NoLF(a) /\ NoLF(b)
    <3>1. (\A k \in 1..n : a[k] # "lf") /\ \A k \in 1..l : b[k] # "lf"
      BY DEF NoLF
    <3> HIDE DEF c, n, l
    <3>2. ASSUME NEW k \in 1..Len(c) PROVE c[k] # "lf"
      <4>1. k \in 1..n \/ (k - n \in 1..l /\ n + (k - n) = k)
        BY <1>1
      <4>2. CASE k \in 1..n
        BY <1>1, <3>1, <4>2
      <4>3. CASE k - n \in 1..l /\ n + (k - n) = k
        <5>1. c[n + (k - n)] = b[k - n]
          BY <1>1, <4>3
        <5> QED
          BY <3>1, <4>3, <5>1
      <4> QED
        BY <4>1, <4>2, <4>3
    <3> QED
      BY <3>2 DEF NoLF
  <2> QED
    BY <2>1, <2>2, <2>3
<1> HIDE DEF c, n
<1>5. ASSUME NoLF(a), NoLF(b) PROVE Run(c) <=> Run(a) \/ Run(b)
  <2>1. NoLF(c)
    BY <1>4, <1>5
  <2>2. Run(a) <=> \E i, j : RunAt(a, i, j)
    BY <1>5, RunIsAt
  <2>3. Run(b) <=> \E i, j : RunAt(b, i, j)
    BY <1>5, RunIsAt
  <2>4. Run(c) <=> \E i, j : RunAt(c, i, j)
    BY <1>1, <2>1, RunIsAt
  <2> QED
    BY <1>3, <2>2, <2>3, <2>4
<1>6. Clean(c) <=> Clean(a) /\ Clean(b)
  BY <1>4, <1>5 DEF Clean
<1> QED
  BY <1>1, <1>2, <1>6 DEF c

\* What composeMessage itself writes into a body: visible characters and line
\* ends.
LEMMA ComposedIsClean ==
  ASSUME NEW s \in Text, \A i \in 1..Len(s) : s[i] \in {"x", "crlf"}
  PROVE  Clean(s)
<1>1. NoLF(s)
  BY DEF NoLF
<1>2. \A i, j : ~RunAt(s, i, j)
  BY DEF RunAt, WSP
<1> QED
  BY <1>1, <1>2, RunIsAt DEF Clean

LEMMA OwnPieces ==
  /\ Closed(<<"x", "crlf", "x", "crlf", "crlf">>) /\ Clean(<<"x", "crlf", "x", "crlf", "crlf">>)
  /\ Closed(<<"x", "crlf">>) /\ Clean(<<"x", "crlf">>)
  /\ Closed(<<"crlf">>) /\ Opens(<<"crlf">>) /\ Clean(<<"crlf">>)
<1>1. "x" \in Token /\ "crlf" \in Token
  BY DEF Token
<1>2. ASSUME NEW s, s = <<"x", "crlf", "x", "crlf", "crlf">> PROVE Closed(s) /\ Clean(s)
  <2>1. s \in Text
    BY <1>1, <1>2 DEF Text
  <2>2. Len(s) = 5 /\ s[1] = "x" /\ s[2] = "crlf" /\ s[3] = "x" /\ s[4] = "crlf" /\ s[5] = "crlf"
    BY <1>2
  <2>3. \A i \in 1..Len(s) : i = 1 \/ i = 2 \/ i = 3 \/ i = 4 \/ i = 5
    BY <2>2
  <2>4. \A i \in 1..Len(s) : s[i] \in {"x", "crlf"}
    BY <2>2, <2>3
  <2> QED
    BY <2>1, <2>2, <2>4, ComposedIsClean DEF Closed
<1>3. ASSUME NEW s, s = <<"x", "crlf">> PROVE Closed(s) /\ Clean(s)
  <2>1. s \in Text
    BY <1>1, <1>3 DEF Text
  <2>2. Len(s) = 2 /\ s[1] = "x" /\ s[2] = "crlf"
    BY <1>3
  <2>3. \A i \in 1..Len(s) : i = 1 \/ i = 2
    BY <2>2
  <2>4. \A i \in 1..Len(s) : s[i] \in {"x", "crlf"}
    BY <2>2, <2>3
  <2> QED
    BY <2>1, <2>2, <2>4, ComposedIsClean DEF Closed
<1>4. ASSUME NEW s, s = <<"crlf">> PROVE Closed(s) /\ Opens(s) /\ Clean(s)
  <2>1. s \in Text
    BY <1>1, <1>4 DEF Text
  <2>2. Len(s) = 1 /\ s[1] = "crlf"
    BY <1>4
  <2>3. \A i \in 1..Len(s) : s[i] \in {"x", "crlf"}
    BY <2>2
  <2> QED
    BY <2>1, <2>2, <2>3, ComposedIsClean DEF Closed, Opens
<1> QED
  BY <1>2, <1>3, <1>4

\* A text with the line end behind it, and one in its part.
LEMMA AroundText ==
  ASSUME NEW s \in Text
  PROVE  /\ Closed(s \o <<"crlf">>) /\ (Clean(s \o <<"crlf">>) <=> Clean(s))
         /\ Closed(Part(s)) /\ (Clean(Part(s)) <=> Clean(s)) /\ Part(s)[1] = "x"
<1> DEFINE pre == <<"x", "crlf", "x", "crlf", "crlf">>
           end == <<"crlf">>
<1>1. pre \in Text /\ Closed(pre) /\ Clean(pre) /\ end \in Text /\ Closed(end) /\ Opens(end) /\ Clean(end)
  BY OwnPieces DEF Closed
<1>2. Len(pre) = 5 /\ pre[1] = "x"
  OBVIOUS
<1>3. Part(s) = (pre \o s) \o end
  BY DEF Part
<1> HIDE DEF pre, end
<1>4. Closed(s \o end) /\ (Clean(s \o end) <=> Clean(s))
  BY <1>1, Joined
<1>5. pre \o s \in Text /\ (Clean(pre \o s) <=> Clean(s))
  BY <1>1, Joined
<1>6. Closed((pre \o s) \o end) /\ (Clean((pre \o s) \o end) <=> Clean(s))
  BY <1>1, <1>5, Joined
<1>7. ((pre \o s) \o end)[1] = "x"
  <2>1. 1 \in 1..Len(pre) /\ 1 \in 1..Len(pre \o s)
    <3>1. Len(s) \in Nat /\ Len(pre \o s) = Len(pre) + Len(s)
      BY <1>1, ConcatAt
    <3> QED
      BY <1>2, <3>1
  <2>2. (pre \o s)[1] = pre[1]
    BY <1>1, <2>1, ConcatAt
  <2>3. ((pre \o s) \o end)[1] = (pre \o s)[1]
    BY <1>1, <1>5, <2>1, ConcatAt
  <2> QED
    BY <1>2, <2>2, <2>3
<1> QED
  BY <1>3, <1>4, <1>6, <1>7 DEF end

-----------------------------------------------------------------------------
(* A message on its way. *)

\* The body of a message survives if the client's texts are clean and something
\* is visible.
LEMMA MailBody ==
  ASSUME NEW m \in Mail
  PROVE  CanonicalizeBody(ComposeBody(m)) = Relaxed(OnTheWire(ComposeBody(m))) <=>
           /\ Clean(m.body) /\ Clean(m.html)
           /\ m.html # <<>> \/ \E i \in DOMAIN m.body : m.body[i] = "x"
<1> DEFINE body == m.body
           html == m.html
           text == ComposeBody(m)
<1>1. /\ body \in Text /\ DOMAIN body = 1..Len(body) /\ Len(body) \in Nat
      /\ \A i \in 1..Len(body) : body[i] \in {"x", "sp", "tab", "crlf", "lf"}
  <2>1. body \in Seq({"x", "sp", "tab", "crlf", "lf"})
    BY DKIMAssumption
  <2> QED
    BY <2>1 DEF Text, Token
<1>2. html \in Text
  <2>1. html \in Seq({"x", "sp", "tab", "crlf", "lf"})
    BY DKIMAssumption
  <2> QED
    BY <2>1 DEF Text, Token
<1>3. text = IF html # <<>> THEN (Part(body) \o Part(html)) \o <<"x", "crlf">> ELSE body \o <<"crlf">>
  BY DEF ComposeBody
<1> HIDE DEF text, body, html
<1>4. ASSUME Closed(text)
      PROVE  CanonicalizeBody(text) = Relaxed(OnTheWire(text)) <=>
               Clean(text) /\ \E i \in 1..Len(text) : Visible(text[i])
  <2>1. text \in Text /\ text # <<>> /\ text[Len(text)] = "crlf"
    BY <1>4 DEF Closed, Text
  <2> QED
    BY <2>1, BodyMatches DEF Clean, NoLF
<1>5. CASE html # <<>>
  <2> DEFINE first == Part(body)
             second == Part(html)
             last == <<"x", "crlf">>
  <2>1. /\ first \in Text /\ Closed(first) /\ (Clean(first) <=> Clean(body)) /\ first[1] = "x"
        /\ second \in Text /\ Closed(second) /\ (Clean(second) <=> Clean(html))
    BY <1>1, <1>2, AroundText DEF Closed
  <2>2. last \in Text /\ Closed(last) /\ Clean(last)
    BY OwnPieces DEF Closed
  <2>3. text = (first \o second) \o last
    BY <1>3, <1>5
  <2> HIDE DEF first, second, last
  <2>4. /\ first \o second \in Text /\ Closed(first \o second)
        /\ Clean(first \o second) <=> Clean(body) /\ Clean(html)
    BY <2>1, Joined
  <2>5. Closed(text) /\ (Clean(text) <=> Clean(body) /\ Clean(html))
    BY <2>2, <2>3, <2>4, Joined
  <2>6. 1 \in 1..Len(text) /\ Visible(text[1])
    <3>1. 1 \in 1..Len(first) /\ 1 \in 1..Len(first \o second)
      <4>1. ASSUME NEW s, Closed(s) PROVE Len(s) \in Nat /\ Len(s) > 0
        BY <4>1 DEF Closed, Text
      <4>2. Len(first) \in Nat /\ Len(first) > 0
        BY <2>1, <4>1
      <4>3. Len(first \o second) \in Nat /\ Len(first \o second) > 0
        BY <2>4, <4>1
      <4> QED
        BY <4>2, <4>3
    <3>2. (first \o second)[1] = first[1]
      BY <2>1, <3>1, ConcatAt
    <3>3. text[1] = (first \o second)[1]
      BY <2>2, <2>3, <2>4, <3>1, ConcatAt
    <3>4. Len(text) \in Nat /\ Len(text) > 0
      BY <2>5 DEF Closed, Text
    <3> QED
      BY <2>1, <3>2, <3>3, <3>4 DEF Visible, WSP
  <2> QED
    BY <1>4, <1>5, <2>5, <2>6 DEF body, html, text
<1>6. CASE html = <<>>
  <2>1. text = body \o <<"crlf">>
    BY <1>3, <1>6
  <2>2. Closed(text) /\ (Clean(text) <=> Clean(body))
    BY <1>1, <2>1, AroundText
  <2>3. Clean(html)
    <3>1. \A i \in 1..Len(html) : html[i] \in {"x", "crlf"}
      BY <1>6
    <3> QED
      BY <1>2, <3>1, ComposedIsClean
  <2>4. "crlf" \in Token /\ <<"crlf">> \in Text /\ Len(<<"crlf">>) = 1 /\ <<"crlf">>[1] = "crlf"
    BY OwnPieces DEF Closed, Token
  <2>5. /\ Len(text) = Len(body) + 1 /\ text[Len(body) + 1] = "crlf"
        /\ \A i \in 1..Len(body) : text[i] = body[i]
    <3> DEFINE end == <<"crlf">>
    <3>1. end \in Text /\ Len(end) = 1 /\ end[1] = "crlf"
      BY <2>4
    <3> HIDE DEF end
    <3>2. /\ Len(body \o end) = Len(body) + Len(end)
          /\ \A i \in 1..Len(body) : (body \o end)[i] = body[i]
          /\ \A i \in 1..Len(end) : (body \o end)[Len(body) + i] = end[i]
      BY <1>1, <3>1, ConcatAt
    <3>3. text = body \o end
      BY <2>1 DEF end
    <3>4. 1 \in 1..Len(end)
      BY <3>1
    <3> QED
      BY <1>1, <3>1, <3>2, <3>3, <3>4
  <2>6. ASSUME Clean(body)
        PROVE  (\E i \in 1..Len(text) : Visible(text[i])) <=> \E i \in 1..Len(body) : body[i] = "x"
    <3>1. ASSUME NEW i \in 1..Len(text), Visible(text[i]) PROVE i \in 1..Len(body) /\ body[i] = "x"
      <4>1. i # Len(body) + 1
        BY <2>5, <3>1 DEF Visible
      <4>2. i \in 1..Len(body)
        BY <1>1, <2>5, <4>1
      <4>3. body[i] # "lf" /\ text[i] = body[i]
        BY <2>5, <2>6, <4>2 DEF Clean, NoLF
      <4> QED
        BY <1>1, <3>1, <4>2, <4>3 DEF Visible, WSP
    <3>2. ASSUME NEW i \in 1..Len(body), body[i] = "x" PROVE i \in 1..Len(text) /\ Visible(text[i])
      <4>1. i \in 1..Len(text)
        BY <1>1, <2>5
      <4>2. text[i] = body[i]
        BY <2>5
      <4> QED
        BY <3>2, <4>1, <4>2 DEF Visible, WSP
    <3> QED
      BY <3>1, <3>2
  <2> QED
    BY <1>1, <1>4, <1>6, <2>2, <2>3, <2>6 DEF body, html, text
<1> QED
  BY <1>5, <1>6

\* One header survives if what follows the space behind its colon does.
LEMMA OneHeader ==
  ASSUME NEW s \in HeaderText
  PROVE  RelaxHeaderValue(<<"sp">> \o s) = RelaxedHeader(<<"sp">> \o s) <=>
           \A i \in 1..Len(s) : s[i] # "nbsp"
<1> DEFINE v == <<"sp">> \o s
<1>1. v \in HeaderText /\ Len(s) \in Nat /\ Len(v) = Len(s) + 1 /\ v[1] = "sp"
  BY DEF HeaderText
<1>2. \A i \in 1..Len(s) : v[1 + i] = s[i]
  BY DEF HeaderText
<1> HIDE DEF v
<1>3. RelaxHeaderValue(v) = RelaxedHeader(v) <=> \A i \in 1..Len(v) : v[i] # "nbsp"
  BY <1>1, HeaderMatches
<1>4. ASSUME \A i \in 1..Len(v) : v[i] # "nbsp", NEW i \in 1..Len(s) PROVE s[i] # "nbsp"
  <2>1. 1 + i \in 1..Len(v)
    BY <1>1
  <2> QED
    BY <1>2, <1>4, <2>1
<1>5. ASSUME \A i \in 1..Len(s) : s[i] # "nbsp", NEW i \in 1..Len(v) PROVE v[i] # "nbsp"
  <2>1. CASE i = 1
    BY <1>1, <2>1
  <2>2. CASE i # 1
    <3>1. i - 1 \in 1..Len(s) /\ 1 + (i - 1) = i
      BY <1>1, <2>2
    <3>2. v[1 + (i - 1)] = s[i - 1]
      BY <1>2, <3>1
    <3> QED
      BY <1>5, <3>1, <3>2
  <2> QED
    BY <2>1, <2>2
<1> QED
  BY <1>3, <1>4, <1>5 DEF v

\* The signed headers of a message survive if the client's do.
LEMMA MailHeaders ==
  ASSUME NEW m \in Mail
  PROVE  LET h == ComposeHeaders(m)
         IN  [name \in DOMAIN h |-> RelaxHeaderValue(h[name])] = [name \in DOMAIN h |-> RelaxedHeader(h[name])]
               <=> \A name \in DOMAIN m.head : \A i \in DOMAIN m.head[name] : m.head[name][i] # "nbsp"
<1> DEFINE h == ComposeHeaders(m)
           H == m.head
           word == <<"x">>
           sign == [name \in DOMAIN h |-> RelaxHeaderValue(h[name])]
           check == [name \in DOMAIN h |-> RelaxedHeader(h[name])]
           Plainly(name) == \A i \in DOMAIN H[name] : H[name][i] # "nbsp"
<1>1. /\ DOMAIN h = DOMAIN H \union {"date", "message-id"}
      /\ \A name \in DOMAIN H : h[name] = <<"sp">> \o H[name]
      /\ \A name \in DOMAIN h : name \notin DOMAIN H => h[name] = <<"sp">> \o word
  BY DEF ComposeHeaders
<1>2. \A name \in DOMAIN H : H[name] \in HeaderText /\ DOMAIN H[name] = 1..Len(H[name])
  BY DKIMAssumption DEF HeaderText
<1>3. word \in HeaderText /\ \A i \in 1..Len(word) : word[i] # "nbsp"
  <2>1. word \in HeaderText
    BY DEF HeaderText
  <2>2. Len(word) = 1 /\ word[1] = "x"
    OBVIOUS
  <2> QED
    BY <2>1, <2>2
<1> HIDE DEF h, H, word
<1>4. ASSUME NEW name \in DOMAIN H
      PROVE  RelaxHeaderValue(h[name]) = RelaxedHeader(h[name]) <=> Plainly(name)
  <2>1. PICK s : s = H[name]
    OBVIOUS
  <2>2. s \in HeaderText /\ DOMAIN s = 1..Len(s) /\ h[name] = <<"sp">> \o s
    BY <1>1, <1>2, <2>1
  <2> QED
    BY <2>1, <2>2, OneHeader
<1>5. ASSUME NEW name \in DOMAIN h, name \notin DOMAIN H
      PROVE  RelaxHeaderValue(h[name]) = RelaxedHeader(h[name])
  BY <1>1, <1>3, <1>5, OneHeader
<1>6. sign = check <=> \A name \in DOMAIN h : RelaxHeaderValue(h[name]) = RelaxedHeader(h[name])
  <2>1. /\ \A name \in DOMAIN h : sign[name] = RelaxHeaderValue(h[name])
        /\ \A name \in DOMAIN h : check[name] = RelaxedHeader(h[name])
    OBVIOUS
  <2>2. (\A name \in DOMAIN h : RelaxHeaderValue(h[name]) = RelaxedHeader(h[name])) => sign = check
    OBVIOUS
  <2> HIDE DEF sign, check
  <2> QED
    BY <2>1, <2>2
<1> HIDE DEF sign, check, Plainly
<1>7. sign = check <=> \A name \in DOMAIN H : Plainly(name)
  BY <1>1, <1>4, <1>5, <1>6
<1> QED
  BY <1>7 DEF sign, check, h, H, Plainly

\* What each stage has made of the client's message.
OnItsWay ==
  /\ mail \in Mail
  /\ stage \in {"queued", "signed", "sent", "checked"}
  /\ stage \in {"signed", "sent"} =>
       /\ bh = CanonicalizeBody(ComposeBody(mail))
       /\ data = [name \in DOMAIN ComposeHeaders(mail) |-> RelaxHeaderValue(ComposeHeaders(mail)[name])]
       /\ raw = [headers |-> ComposeHeaders(mail),
                 body    |-> IF stage = "sent" THEN OnTheWire(ComposeBody(mail)) ELSE ComposeBody(mail)]
  /\ stage = "checked" => (verdict = "pass" <=> Plain(mail))

\* Plain, with clean texts.
LEMMA PlainIsClean ==
  ASSUME NEW m \in Mail
  PROVE  Plain(m) <=>
           /\ Clean(m.body) /\ Clean(m.html)
           /\ m.html # <<>> \/ \E i \in DOMAIN m.body : m.body[i] = "x"
           /\ \A name \in DOMAIN m.head : \A i \in DOMAIN m.head[name] : m.head[name][i] # "nbsp"
<1>1. DOMAIN m.body = 1..Len(m.body) /\ DOMAIN m.html = 1..Len(m.html)
  BY DKIMAssumption
<1> QED
  BY <1>1 DEF Plain, Clean, NoLF

\* The receiver's verdict on a message that is on its way is what Plain says.
LEMMA VerdictOnTheWay ==
  ASSUME OnItsWay, Verify
  PROVE  verdict' = "pass" <=> Plain(mail)
<1> DEFINE B == ComposeBody(mail)
           H == ComposeHeaders(mail)
<1>1. mail \in Mail /\ stage = "sent"
  BY DEF OnItsWay, Verify
<1>2. /\ bh = CanonicalizeBody(B) /\ raw = [headers |-> H, body |-> OnTheWire(B)]
      /\ data = [name \in DOMAIN H |-> RelaxHeaderValue(H[name])]
  BY <1>1 DEF OnItsWay
<1>3. raw.headers = H /\ raw.body = OnTheWire(B)
  BY <1>2
<1> HIDE DEF B, H
<1>4. verdict' = "pass" <=> /\ bh = Relaxed(raw.body)
                            /\ data = [name \in DOMAIN raw.headers |-> RelaxedHeader(raw.headers[name])]
  BY DEF Verify
<1>5. verdict' = "pass" <=>
        /\ CanonicalizeBody(B) = Relaxed(OnTheWire(B))
        /\ [name \in DOMAIN H |-> RelaxHeaderValue(H[name])] = [name \in DOMAIN H |-> RelaxedHeader(H[name])]
  BY <1>2, <1>3, <1>4
<1>6. PICK m : m = mail
  OBVIOUS
<1>7. CanonicalizeBody(B) = Relaxed(OnTheWire(B)) <=>
        /\ Clean(m.body) /\ Clean(m.html)
        /\ m.html # <<>> \/ \E i \in DOMAIN m.body : m.body[i] = "x"
  BY <1>1, <1>6, MailBody DEF B
<1>8. [name \in DOMAIN H |-> RelaxHeaderValue(H[name])] = [name \in DOMAIN H |-> RelaxedHeader(H[name])]
        <=> \A name \in DOMAIN m.head : \A i \in DOMAIN m.head[name] : m.head[name][i] # "nbsp"
  BY <1>1, <1>6, MailHeaders DEF H
<1>9. Plain(m) <=>
        /\ Clean(m.body) /\ Clean(m.html)
        /\ m.html # <<>> \/ \E i \in DOMAIN m.body : m.body[i] = "x"
        /\ \A name \in DOMAIN m.head : \A i \in DOMAIN m.head[name] : m.head[name][i] # "nbsp"
  BY <1>1, <1>6, PlainIsClean
<1> QED
  BY <1>5, <1>6, <1>7, <1>8, <1>9

\* Every step takes a message on by one stage, and leaves it as OnItsWay says.
LEMMA OnItsWayInductive == Spec => []OnItsWay
<1>1. Init => OnItsWay
  BY DEF Init, OnItsWay
<1>2. OnItsWay /\ [Next]_vars => OnItsWay'
  <2> SUFFICES ASSUME OnItsWay, [Next]_vars PROVE OnItsWay'
    OBVIOUS
  <2>1. CASE Sign
    <3>1. /\ stage' = "signed" /\ mail' = mail
          /\ raw' = [headers |-> ComposeHeaders(mail), body |-> ComposeBody(mail)]
          /\ bh' = CanonicalizeBody(raw'.body)
          /\ data' = [name \in DOMAIN raw'.headers |-> RelaxHeaderValue(raw'.headers[name])]
      BY <2>1 DEF Sign
    <3>2. raw'.body = ComposeBody(mail) /\ raw'.headers = ComposeHeaders(mail)
      BY <3>1
    <3>3. mail' \in Mail
      BY <3>1 DEF OnItsWay
    <3> QED
      BY <3>1, <3>2, <3>3 DEF OnItsWay
  <2>2. CASE Transmit
    <3>1. /\ stage = "signed" /\ stage' = "sent" /\ mail' = mail /\ bh' = bh /\ data' = data
          /\ raw' = [raw EXCEPT !.body = OnTheWire(@)]
      BY <2>2 DEF Transmit
    <3>2. raw = [headers |-> ComposeHeaders(mail), body |-> ComposeBody(mail)]
      BY <3>1 DEF OnItsWay
    <3>3. raw' = [headers |-> ComposeHeaders(mail), body |-> OnTheWire(ComposeBody(mail))]
      BY <3>1, <3>2
    <3>4. mail' \in Mail
      BY <3>1 DEF OnItsWay
    <3>5. /\ bh' = CanonicalizeBody(ComposeBody(mail))
          /\ data' = [name \in DOMAIN ComposeHeaders(mail) |-> RelaxHeaderValue(ComposeHeaders(mail)[name])]
      BY <3>1 DEF OnItsWay
    <3> QED
      BY <3>1, <3>3, <3>4, <3>5 DEF OnItsWay
  <2>3. CASE Verify
    <3>1. verdict' = "pass" <=> Plain(mail)
      BY <2>3, VerdictOnTheWay
    <3>2. stage' = "checked" /\ mail' = mail
      BY <2>3 DEF Verify
    <3>3. Plain(mail)' <=> Plain(mail)
      BY <3>2 DEF Plain
    <3> QED
      BY <3>1, <3>2, <3>3 DEF OnItsWay
  <2>4. CASE UNCHANGED vars
    BY <2>4 DEF vars, OnItsWay, Plain
  <2> QED
    BY <2>1, <2>2, <2>3, <2>4 DEF Next
<1> QED
  BY <1>1, <1>2, PTL DEF Spec

\* The receiver accepts the signature of a plain message, and of no other,
\* whatever the texts and headers are that clients send and however long.
THEOREM SurvivesIffPlain == Spec => []VerifiesIffPlain
<1>1. OnItsWay => VerifiesIffPlain
  BY DEF OnItsWay, VerifiesIffPlain
<1> QED
  BY <1>1, OnItsWayInductive, PTL
=============================================================================
