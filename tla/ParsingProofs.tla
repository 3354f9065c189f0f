--------------------------- MODULE ParsingProofs ---------------------------
EXTENDS ParsingTerms, FiniteSetTheorems, FunctionTheorems, SequenceTheorems, TLAPS

\* A nonempty set of numbers has a least one. The subset ordering is well-founded
\* on finite sets, and n is less than m when 0..n is a proper subset of 0..m.
LEMMA LeastNumber ==
    ASSUME NEW T, T \subseteq Nat, T # {}
    PROVE  \E x \in T : \A y \in T : x <= y
<1> DEFINE UpToIts == {0..n : n \in T}
<1>1. IsWellFoundedOn(StrictSubsetOrdering(Nat), FiniteSubsetsOf(Nat))
  BY FS_StrictSubsetOrderingWellFounded
<1>2. ASSUME NEW X \in UpToIts PROVE X \in FiniteSubsetsOf(Nat)
  <2>1. PICK n \in T : X = 0..n  OBVIOUS
  <2>2. 0 \in Int /\ n \in Int /\ X \subseteq Nat  BY <2>1
  <2>3. IsFiniteSet(X)  BY <2>1, <2>2, FS_Interval
  <2> QED BY <2>2, <2>3 DEF FiniteSubsetsOf
<1>3. UpToIts # {}  OBVIOUS
<1>4. UpToIts \subseteq FiniteSubsetsOf(Nat)  BY <1>2
<1> HIDE DEF UpToIts
<1>5. PICK X \in UpToIts : \A Y \in UpToIts : ~ (<<Y, X>> \in StrictSubsetOrdering(Nat))
  BY <1>1, <1>4, <1>3, WFMin
<1>6. PICK x \in T : X = 0..x  BY DEF UpToIts
<1>7. ASSUME NEW y \in T, y < x PROVE FALSE
  <2>1. 0..y \in UpToIts  BY DEF UpToIts
  <2>2. 0..y \subseteq X /\ 0..y # X /\ X \subseteq Nat  BY <1>6, <1>7
  <2>3. <<0..y, X>> \in StrictSubsetOrdering(Nat)  BY <2>2 DEF StrictSubsetOrdering
  <2> QED BY <2>1, <2>3, <1>5
<1> QED BY <1>7

\* Induction, for a set in place of a predicate.
LEMMA InductiveSet ==
    ASSUME NEW T, 0 \in T, \A n \in Nat : n \in T => n + 1 \in T
    PROVE  Nat \subseteq T
<1> SUFFICES ASSUME Nat \ T # {} PROVE FALSE  OBVIOUS
<1>1. PICK x \in Nat \ T : \A y \in Nat \ T : x <= y  BY LeastNumber
<1>2. x # 0  BY <1>1
<1>3. x - 1 \in Nat /\ x - 1 \in T  BY <1>1, <1>2
<1>4. x - 1 + 1 \in T  BY <1>3
<1> QED BY <1>1, <1>4

\* What is computed step by step along a list exists, so a recursive function is
\* what its equation says.
LEMMA Recursion ==
    ASSUME NEW A, NEW n \in Nat, NEW base \in A, NEW step \in [(1..n) \X A -> A]
    PROVE  \E f : Recursive(f, n, A, base, step)
<1> DEFINE T == {m \in Nat : m <= n => \E f : Recursive(f, m, A, base, step)}
<1>1. 0 \in T
  <2>1. Recursive([i \in 0..0 |-> base], 0, A, base, step)  BY DEF Recursive
  <2> QED BY <2>1
<1>2. ASSUME NEW m \in Nat, m \in T PROVE m + 1 \in T
  <2> SUFFICES ASSUME m + 1 <= n PROVE \E f : Recursive(f, m + 1, A, base, step)  OBVIOUS
  <2>1. PICK f : Recursive(f, m, A, base, step)  BY <1>2
  <2>2. f \in [0..m -> A] /\ f[m] \in A /\ m + 1 \in 1..n  BY <2>1 DEF Recursive
  <2> DEFINE last == step[<<m + 1, f[m]>>]
             g == [i \in 0..(m + 1) |-> IF i = m + 1 THEN last ELSE f[i]]
  <2>3. last \in A  BY <2>2
  <2>4. g \in [0..(m + 1) -> A] /\ g[0] = base  BY <2>1, <2>2, <2>3 DEF Recursive
  <2>5. ASSUME NEW i \in 1..(m + 1) PROVE g[i] = step[<<i, g[i - 1]>>]
    <3>1. CASE i = m + 1
      <4>1. i - 1 = m /\ g[i - 1] = f[m] /\ g[i] = last  BY <3>1
      <4> QED BY <4>1, <3>1
    <3>2. CASE i # m + 1
      <4>1. i \in 1..m /\ i - 1 \in 0..m /\ g[i] = f[i] /\ g[i - 1] = f[i - 1]  BY <3>2
      <4> QED BY <4>1, <2>1 DEF Recursive
    <3> QED BY <3>1, <3>2
  <2> HIDE DEF g
  <2> QED BY <2>4, <2>5 DEF Recursive
<1> HIDE DEF T
<1>3. Nat \subseteq T  BY <1>1, <1>2, InductiveSet
<1> QED BY <1>3 DEF T

--------
(* Dates: the arithmetic of _span is right for every two dates. *)

\* Every number is that of one month of one year ...
LEMMA MonthNumbers ==
    ASSUME NEW n \in Int
    PROVE  /\ (n - 1) \div 12 \in Int
           /\ ((n - 1) % 12) + 1 \in 1..12
           /\ 12 * ((n - 1) \div 12) + ((n - 1) % 12) + 1 = n  BY SMT

\* ... and of one only.
LEMMA NumbersDetermineMonths ==
    ASSUME NEW y \in Int, NEW z \in Int, NEW m \in 1..12, NEW n \in 1..12,
           12 * y + m = 12 * z + n
    PROVE  y = z /\ m = n  BY SMT

\* Counting the months of a calendar one by one gives what _span computes.
LEMMA SpanCountsMonths ==
    ASSUME NEW first \in Dates, NEW last \in Dates, Span(first, last) > 0
    PROVE  Cardinality(CalendarMonths(first, last)) = Span(first, last)
<1> DEFINE from == Or(first.month, 1)
           to == Or(last.month, 12)
           a == first.year
           b == last.year
           lo == 12 * a + from
           hi == 12 * b + to
           Months == CalendarMonths(first, last)
           number == [m \in Months |-> 12 * m.year + m.month]
<1>1. from \in 1..12 /\ to \in 1..12 /\ a \in Int /\ b \in Int  BY DEF Dates, Or, Known, Absent
<1>2. Span(first, last) = hi - lo + 1  BY <1>1, SMT DEF Span
<1>3. \A m \in Months : /\ m.year \in a..b
                        /\ m.month \in 1..12
                        /\ m = [year |-> m.year, month |-> m.month]  BY DEF CalendarMonths
<1>4. \A m \in Months : /\ a < m.year \/ (a = m.year /\ from <= m.month)
                        /\ m.year < b \/ (m.year = b /\ m.month <= to)
  BY DEF CalendarMonths, NotAfter, Month
<1>5. \A y \in Int, k \in 1..12 :
        (12 * y + k \in lo..hi) => [year |-> y, month |-> k] \in Months
  <2> SUFFICES ASSUME NEW y \in Int, NEW k \in 1..12, 12 * y + k \in lo..hi
               PROVE  [year |-> y, month |-> k] \in Months  OBVIOUS
  <2> HIDE DEF from, to, a, b
  <2>1. 12 * a + from <= 12 * y + k /\ 12 * y + k <= 12 * b + to  BY <1>1
  <2>2. a < y \/ (a = y /\ from <= k)  BY <2>1, <1>1, SMT
  <2>3. y < b \/ (y = b /\ k <= to)  BY <2>1, <1>1, SMT
  <2>4. y \in a..b  BY <2>2, <2>3, <1>1, SMT
  <2> QED BY <2>2, <2>3, <2>4 DEF CalendarMonths, NotAfter, Month, from, to, a, b
<1> HIDE DEF from, to, a, b, Months
<1>6. number \in [Months -> lo..hi]
  <2> SUFFICES ASSUME NEW m \in Months
               PROVE  12 * m.year + m.month \in lo..hi  OBVIOUS
  <2> DEFINE y == m.year
             k == m.month
  <2>1. y \in a..b /\ k \in 1..12  BY <1>3
  <2>2. /\ a < y \/ (a = y /\ from <= k)
        /\ y < b \/ (y = b /\ k <= to)  BY <1>4
  <2> HIDE DEF y, k
  <2>3. 12 * y + k \in lo..hi  BY <2>1, <2>2, <1>1, SMT
  <2> QED BY <2>3 DEF y, k
<1>7. \A m \in Months, n \in Months : number[m] = number[n] => m = n
  <2> SUFFICES ASSUME NEW m \in Months, NEW n \in Months,
                      12 * m.year + m.month = 12 * n.year + n.month
               PROVE  m = n  OBVIOUS
  <2>1. /\ m.year \in Int /\ n.year \in Int
        /\ m.month \in 1..12 /\ n.month \in 1..12  BY <1>1, <1>3
  <2>2. m.year = n.year /\ m.month = n.month  BY <2>1, NumbersDetermineMonths
  <2> QED BY <1>3, <2>2
<1>8. \A n \in lo..hi : \E m \in Months : number[m] = n
  <2> SUFFICES ASSUME NEW n \in lo..hi
               PROVE  \E m \in Months : 12 * m.year + m.month = n  OBVIOUS
  <2> DEFINE y == (n - 1) \div 12
             k == ((n - 1) % 12) + 1
  <2>1. n \in Int  BY <1>1
  <2>2. y \in Int /\ k \in 1..12 /\ 12 * y + k = n  BY <2>1, MonthNumbers
  <2> HIDE DEF y, k
  <2>3. [year |-> y, month |-> k] \in Months  BY <1>5, <2>2
  <2> QED BY <2>2, <2>3
<1>9. number \in Bijection(Months, lo..hi)
  <2> HIDE DEF number, lo, hi
  <2> QED BY <1>6, <1>7, <1>8, Fun_IsBij
<1>10. ExistsBijection(lo..hi, Months)  BY <1>9, Fun_ExistsBij, Fun_ExistsBijSymmetric
<1>11. lo \in Int /\ hi \in Int  BY <1>1
<1>12. IsFiniteSet(lo..hi) /\ Cardinality(lo..hi) = IF lo > hi THEN 0 ELSE hi - lo + 1
  <2> HIDE DEF lo, hi
  <2> QED BY <1>11, FS_Interval
<1>13. Cardinality(lo..hi) = hi - lo + 1
  <2> HIDE DEF lo, hi
  <2> QED BY <1>2, <1>11, <1>12
<1>14. Cardinality(Months) = Cardinality(lo..hi)
  <2> HIDE DEF lo, hi
  <2> QED BY <1>10, <1>12, FS_Bijection
<1> QED BY <1>2, <1>13, <1>14 DEF Months

\* Whatever dates a range has, _finish (src/app/parsing/dates.py) reports the
\* number of its calendar months, both ends included, or leaves it unreported.
THEOREM MonthsAreCounted ==
    ASSUME Today \in Dates,
           NEW range \in [given : BOOLEAN, start : Dates, end : Dates,
                          current : BOOLEAN, months : {Absent}]
    PROVE  Finish(range).months \in
               {Absent, Cardinality(CalendarMonths(range.start, Ending(range)))}
<1> DEFINE last == Ending(range)
<1>1. range.start \in Dates /\ last \in Dates /\ range.months = Absent  BY DEF Ending
<1>2. CASE /\ Known(range.start.year) /\ Known(last.year)
           /\ Span(range.start, last) > 0
  <2>1. Finish(range).months = Span(range.start, last)  BY <1>2 DEF Finish
  <2> QED BY <1>1, <1>2, <2>1, SpanCountsMonths
<1>3. CASE ~(/\ Known(range.start.year) /\ Known(last.year)
             /\ Span(range.start, last) > 0)
  <2>1. Finish(range) = range  BY <1>3 DEF Finish
  <2> QED BY <1>1, <2>1
<1> QED BY <1>2, <1>3

--------
(* Keep. *)

\* Keep is computed step by step.
LEMMA KeepDef ==
    ASSUME NEW S, NEW seq \in Seq(S), NEW places
    PROVE  \E kept : KeepSteps(kept, S, seq, places)
<1> DEFINE N == Len(seq)
           Longer(n, before) == IF n \in places THEN Append(before, seq[n]) ELSE before
           step == [x \in (1..N) \X Seq(S) |-> Longer(x[1], x[2])]
           F(f) == [n \in 0..N |-> IF n = 0 THEN <<>>
                                   ELSE IF n \in places THEN Append(f[n - 1], seq[n]) ELSE f[n - 1]]
           kept == CHOOSE f : f = F(f)
           T == {n \in Nat : n <= N => kept[n] \in Seq(S)}
<1>1. N \in Nat /\ \A n \in 1..N : seq[n] \in S  BY LenProperties
<1>2. \A n \in 1..N, before \in Seq(S) : Longer(n, before) \in Seq(S)  BY <1>1, AppendProperties
<1>3. step \in [(1..N) \X Seq(S) -> Seq(S)]  BY <1>2
<1>4. \A n \in 1..N, before \in Seq(S) : step[<<n, before>>] = Longer(n, before)  OBVIOUS
<1>5. <<>> \in Seq(S)  BY EmptySeq
<1> HIDE DEF step, N
<1>6. PICK f : Recursive(f, N, Seq(S), <<>>, step)  BY <1>1, <1>3, <1>5, Recursion
<1>7. /\ f \in [0..N -> Seq(S)] /\ f[0] = <<>>
      /\ \A i \in 1..N : f[i] = step[<<i, f[i - 1]>>]  BY <1>6 DEF Recursive
<1>8. ASSUME NEW i \in 1..N PROVE f[i] = Longer(i, f[i - 1])
  <2>1. f[i - 1] \in Seq(S)  BY <1>1, <1>7
  <2> HIDE DEF Longer
  <2> QED BY <1>7, <2>1, <1>4
<1>9. ASSUME NEW i \in 0..N PROVE f[i] = F(f)[i]  BY <1>1, <1>7, <1>8, i = 0 \/ i \in 1..N
<1>10. f = F(f)  BY <1>7, <1>9
<1>11. kept = F(kept)  BY <1>10
<1>12. Keep(seq, places) = kept[N]  BY DEF Keep, N
<1> HIDE DEF kept
<1>13. kept[0] = <<>> /\ \A n \in 1..N : kept[n] = Longer(n, kept[n - 1])
  <2>1. \A n \in 0..N : kept[n] = F(kept)[n]  BY <1>11
  <2>2. 0 \in 0..N /\ \A n \in 1..N : n \in 0..N /\ n # 0  BY <1>1
  <2> QED BY <2>1, <2>2
<1>14. 0 \in T  BY <1>13, <1>5
<1>15. ASSUME NEW n \in Nat, n \in T PROVE n + 1 \in T
  <2> SUFFICES ASSUME n + 1 <= N PROVE kept[n + 1] \in Seq(S)  OBVIOUS
  <2>1. n + 1 \in 1..N /\ kept[n] \in Seq(S)  BY <1>1, <1>15
  <2>2. kept[n + 1] = Longer(n + 1, kept[n])  BY <1>13, <2>1, (n + 1) - 1 = n
  <2> HIDE DEF Longer
  <2> QED BY <1>2, <2>1, <2>2
<1> HIDE DEF T
<1>16. Nat \subseteq T  BY <1>14, <1>15, InductiveSet
<1>17. \A n \in 0..N : kept[n] \in Seq(S)  BY <1>1, <1>16 DEF T
<1>18. DOMAIN kept = 0..N /\ kept = [n \in DOMAIN kept |-> kept[n]]  BY <1>11
<1>19. kept \in [0..N -> Seq(S)]  BY <1>17, <1>18
<1>20. KeepSteps(kept, S, seq, places)  BY <1>12, <1>13, <1>19 DEF N, KeepSteps
<1> QED BY <1>20

\* Keep enumerates the places that are kept, in their order.
LEMMA KeepProperties ==
    ASSUME NEW S, NEW seq \in Seq(S), NEW places
    PROVE  /\ Keep(seq, places) \in Seq(S)
           /\ \E at : KeepsAt(at, Keep(seq, places), seq, places \cap 1..Len(seq))
<1> DEFINE N == Len(seq)
<1>1. N \in Nat /\ \A n \in 1..N : seq[n] \in S  BY LenProperties
<1>2. PICK kept : KeepSteps(kept, S, seq, places)  BY KeepDef
<1> DEFINE Upto(n) == \E at : KeepsAt(at, kept[n], seq, places \cap 1..n)
           T == {n \in Nat : n <= N => Upto(n)}
<1>10. /\ kept \in [0..N -> Seq(S)] /\ kept[0] = <<>>
       /\ \A n \in 1..N :
             kept[n] = IF n \in places THEN Append(kept[n - 1], seq[n]) ELSE kept[n - 1]
       /\ Keep(seq, places) = kept[N]  BY <1>2 DEF KeepSteps
<1> HIDE DEF N
<1>3. 0 \in T
  <2>1. kept[0] = <<>> /\ Len(kept[0]) = 0 /\ 1..0 = {}  BY <1>10, EmptySeq
  <2>2. KeepsAt([i \in 1..0 |-> i], kept[0], seq, places \cap 1..0)
    BY <2>1 DEF Enumerates, KeepsAt
  <2> QED BY <2>2
<1>4. ASSUME NEW n \in Nat, n \in T PROVE n + 1 \in T
  <2> HIDE DEF Upto
  <2> SUFFICES ASSUME n + 1 <= N PROVE Upto(n + 1)  OBVIOUS
  <2>0. Upto(n)  BY <1>1, <1>4
  <2> USE DEF Upto
  <2>1. PICK at : KeepsAt(at, kept[n], seq, places \cap 1..n)  BY <2>0
  <2>2. n \in 0..N /\ n + 1 \in 1..N /\ kept[n] \in Seq(S) /\ Len(kept[n]) \in Nat
    BY <1>1, <1>10, LenProperties
  <2>3. kept[n + 1] = IF n + 1 \in places THEN Append(kept[n], seq[n + 1]) ELSE kept[n]
    BY <1>10, <2>2, (n + 1) - 1 = n
  <2>4. CASE n + 1 \in places
    <3> DEFINE L == Len(kept[n])
               more == [i \in 1..(L + 1) |-> IF i = L + 1 THEN n + 1 ELSE at[i]]
    <3>1. /\ kept[n + 1] = Append(kept[n], seq[n + 1]) /\ Len(kept[n + 1]) = L + 1
          /\ \A i \in 1..L : kept[n + 1][i] = kept[n][i]
          /\ kept[n + 1][L + 1] = seq[n + 1]  BY <1>1, <2>2, <2>3, <2>4, AppendProperties
    <3>2. L \in Nat /\ places \cap 1..(n + 1) = (places \cap 1..n) \cup {n + 1}  BY <2>2, <2>4
    <3>3. at \in [1..L -> places \cap 1..n] /\ \A i \in 1..L : at[i] \in places \cap 1..n
      BY <2>1 DEF Enumerates, KeepsAt
    <3> HIDE DEF L
    <3>4. more[L + 1] = n + 1 /\ \A i \in 1..L : more[i] = at[i]  BY <3>2
    <3>5. more \in [1..(L + 1) -> places \cap 1..(n + 1)]  BY <3>2, <3>3
    <3>6. \A i, k \in 1..(L + 1) : i < k => more[i] < more[k]
      <4> SUFFICES ASSUME NEW i \in 1..(L + 1), NEW k \in 1..(L + 1), i < k
                   PROVE  more[i] < more[k]  OBVIOUS
      <4>1. i \in 1..L /\ (k \in 1..L \/ k = L + 1)  BY <3>2
      <4>2. CASE k \in 1..L  BY <4>1, <4>2, <3>4, <2>1 DEF Enumerates, KeepsAt, L
      <4>3. CASE k = L + 1
        <5>1. at[i] \in 1..n  BY <4>1, <3>3
        <5> HIDE DEF more
        <5> QED BY <4>1, <4>3, <3>4, <5>1
      <4> QED BY <4>1, <4>2, <4>3
    <3>7. \A place \in places \cap 1..(n + 1) : \E i \in 1..(L + 1) : more[i] = place
      <4> SUFFICES ASSUME NEW place \in places \cap 1..(n + 1)
                   PROVE  \E i \in 1..(L + 1) : more[i] = place  OBVIOUS
      <4>1. CASE place = n + 1  BY <4>1, <3>2, <3>4
      <4>2. CASE place # n + 1
        <5>1. PICK i \in 1..L : at[i] = place
          <6>1. place \in places \cap 1..n  BY <4>2, <3>2
          <6> QED BY <6>1, <2>1 DEF Enumerates, KeepsAt, L
        <5> QED BY <5>1, <3>2, <3>4
      <4> QED BY <4>1, <4>2
    <3>8. \A i \in 1..(L + 1) : kept[n + 1][i] = seq[more[i]]
      <4> SUFFICES ASSUME NEW i \in 1..(L + 1) PROVE kept[n + 1][i] = seq[more[i]]  OBVIOUS
      <4>1. i \in 1..L \/ i = L + 1  BY <3>2
      <4>2. ASSUME i \in 1..L PROVE kept[n][i] = seq[at[i]]  BY <4>2, <2>1 DEF L, KeepsAt
      <4> HIDE DEF more
      <4> QED BY <4>1, <4>2, <3>1, <3>4
    <3> HIDE DEF more
    <3>9. KeepsAt(more, kept[n + 1], seq, places \cap 1..(n + 1))
      BY <3>1, <3>5, <3>6, <3>7, <3>8 DEF Enumerates, KeepsAt
    <3> QED BY <3>9
  <2>5. CASE n + 1 \notin places
    <3>1. places \cap 1..(n + 1) = places \cap 1..n  BY <2>5
    <3> QED BY <3>1, <2>1, <2>3, <2>5
  <2> QED BY <2>4, <2>5
<1> HIDE DEF T, Upto
<1>5. Nat \subseteq T  BY <1>3, <1>4, InductiveSet
<1>6. Upto(N)  BY <1>1, <1>5 DEF T
<1>7. kept[N] \in Seq(S) /\ Keep(seq, places) = kept[N]  BY <1>1, <1>10
<1> QED BY <1>6, <1>7 DEF Upto, N

\* There is one way to list the places of a set.
LEMMA OneEnumeration ==
    ASSUME NEW places, places \subseteq Nat, NEW n \in Nat, NEW m \in Nat, NEW at, NEW to,
           Enumerates(at, n, places), Enumerates(to, m, places)
    PROVE  n = m /\ at = to
<1> DEFINE Differ == {i \in Nat : i \in 1..n /\ i \in 1..m /\ at[i] # to[i]}
<1>1. /\ \A i \in 1..n : at[i] \in places /\ at[i] \in Nat
      /\ \A i \in 1..m : to[i] \in places /\ to[i] \in Nat
      /\ at \in [1..n -> places] /\ to \in [1..m -> places]  BY DEF Enumerates
<1>2. Differ = {}
  <2> SUFFICES ASSUME Differ # {} PROVE FALSE  OBVIOUS
  <2>1. PICK i \in Differ : \A k \in Differ : i <= k  BY LeastNumber
  <2>2. \A k \in 1..(i - 1) : at[k] = to[k]  BY <2>1
  <2>3. i \in 1..n /\ i \in 1..m /\ at[i] \in Nat /\ to[i] \in Nat /\ at[i] # to[i]
    BY <1>1, <2>1
  <2>4. CASE at[i] < to[i]
    <3>1. PICK k \in 1..m : to[k] = at[i]  BY <1>1, <2>3 DEF Enumerates
    <3>2. CASE k < i
      <4>1. k \in 1..n /\ at[k] = at[i]  BY <3>1, <3>2, <2>2, <2>3
      <4> QED BY <4>1, <3>2, <2>3, <1>1 DEF Enumerates
    <3>3. CASE i <= k
      <4>1. i < k => to[i] < to[k]  BY <3>1, <2>3 DEF Enumerates
      <4> QED BY <4>1, <3>1, <3>3, <2>3, <2>4, <1>1
    <3> QED BY <3>2, <3>3, <2>3
  <2>5. CASE to[i] < at[i]
    <3>1. PICK k \in 1..n : at[k] = to[i]  BY <1>1, <2>3 DEF Enumerates
    <3>2. CASE k < i
      <4>1. k \in 1..m /\ to[k] = to[i]  BY <3>1, <3>2, <2>2, <2>3
      <4> QED BY <4>1, <3>2, <2>3, <1>1 DEF Enumerates
    <3>3. CASE i <= k
      <4>1. i < k => at[i] < at[k]  BY <3>1, <2>3 DEF Enumerates
      <4> QED BY <4>1, <3>1, <3>3, <2>3, <2>5, <1>1
    <3> QED BY <3>2, <3>3, <2>3
  <2> QED BY <2>3, <2>4, <2>5
<1>3. ASSUME n < m PROVE FALSE
  <2>1. n + 1 \in 1..m  BY <1>3
  <2>2. PICK k \in 1..n : at[k] = to[n + 1]  BY <1>1, <2>1 DEF Enumerates
  <2>3. k \in 1..m /\ to[k] = to[n + 1] /\ k < n + 1  BY <1>2, <1>3, <2>2
  <2> QED BY <1>1, <2>1, <2>3 DEF Enumerates
<1>4. ASSUME m < n PROVE FALSE
  <2>1. m + 1 \in 1..n  BY <1>4
  <2>2. PICK k \in 1..m : to[k] = at[m + 1]  BY <1>1, <2>1 DEF Enumerates
  <2>3. k \in 1..n /\ at[k] = at[m + 1] /\ k < m + 1  BY <1>2, <1>4, <2>2
  <2> QED BY <1>1, <2>1, <2>3 DEF Enumerates
<1>5. n = m  BY <1>3, <1>4
<1>6. \A i \in 1..n : at[i] = to[i]  BY <1>2, <1>5
<1> QED BY <1>1, <1>5, <1>6

\* Whoever can list the places knows what is kept.
LEMMA KeepIs ==
    ASSUME NEW S, NEW seq \in Seq(S), NEW places, NEW n \in Nat, NEW at,
           Enumerates(at, n, places \cap 1..Len(seq))
    PROVE  /\ Keep(seq, places) \in Seq(S)
           /\ Len(Keep(seq, places)) = n
           /\ KeepsAt(at, Keep(seq, places), seq, places \cap 1..Len(seq))
<1> DEFINE K == Keep(seq, places)
<1>1. PICK to : KeepsAt(to, K, seq, places \cap 1..Len(seq))  BY KeepProperties
<1>2. K \in Seq(S)  BY KeepProperties
<1>3. Len(K) \in Nat /\ places \cap 1..Len(seq) \subseteq Nat  BY <1>2, LenProperties
<1> HIDE DEF K
<1>4. n = Len(K) /\ at = to  BY <1>1, <1>3, OneEnumeration DEF KeepsAt
<1>5. Len(K) = n /\ KeepsAt(at, K, seq, places \cap 1..Len(seq))  BY <1>1, <1>4
<1> QED BY <1>2, <1>5 DEF K

\* Everything is kept, or nothing.
LEMMA KeepAll ==
    ASSUME NEW S, NEW seq \in Seq(S), NEW places, \A i \in 1..Len(seq) : i \in places
    PROVE  Keep(seq, places) = seq
<1> DEFINE at == [i \in 1..Len(seq) |-> i]
<1>1. Len(seq) \in Nat  BY LenProperties
<1>2. Enumerates(at, Len(seq), places \cap 1..Len(seq))  BY <1>1 DEF Enumerates
<1>3. \A i \in 1..Len(seq) : at[i] = i  OBVIOUS
<1> HIDE DEF at
<1>4. PICK n \in Nat : n = Len(seq)  BY <1>1
<1>5. Enumerates(at, n, places \cap 1..Len(seq))  BY <1>2, <1>4
<1>6. Keep(seq, places) \in Seq(S)  BY <1>5, KeepIs
<1>7. Len(Keep(seq, places)) = n  BY <1>5, KeepIs
<1>8. KeepsAt(at, Keep(seq, places), seq, places \cap 1..Len(seq))  BY <1>5, KeepIs
<1>9. \A i \in 1..n : Keep(seq, places)[i] = seq[i]  BY <1>3, <1>4, <1>7, <1>8 DEF KeepsAt
<1> QED BY <1>4, <1>6, <1>7, <1>9, SeqEqual

\* Where nothing is to be kept, nothing is.
LEMMA KeepNone ==
    ASSUME NEW S, NEW seq \in Seq(S), NEW places, places \cap 1..Len(seq) = {}
    PROVE  Keep(seq, places) = <<>>
<1> DEFINE at == [i \in 1..0 |-> i]
<1>1. Enumerates(at, 0, places \cap 1..Len(seq))  BY DEF Enumerates
<1> HIDE DEF at
<1>2. Keep(seq, places) \in Seq(S) /\ Len(Keep(seq, places)) = 0  BY <1>1, KeepIs
<1> QED BY <1>2, EmptySeq

--------
(* FlattenSeq. *)

\* FlattenSeq of the library is computed step by step.
LEMMA FlattenDef ==
    ASSUME NEW S, NEW seqs \in Seq(Seq(S))
    PROVE  \E flat : FlattenSteps(flat, S, seqs)
<1> DEFINE N == Len(seqs)
           step == [x \in (1..N) \X Seq(S) |-> x[2] \o seqs[x[1]]]
           F(f) == [i \in 1..N |-> IF i = 1 THEN seqs[i] ELSE f[i - 1] \o seqs[i]]
           flatten == CHOOSE f : f = F(f)
<1>1. N \in Nat /\ \A n \in 1..N : seqs[n] \in Seq(S)  BY LenProperties
<1>2. \A n \in 1..N, before \in Seq(S) : before \o seqs[n] \in Seq(S)  BY <1>1, ConcatProperties
<1>3. step \in [(1..N) \X Seq(S) -> Seq(S)]  BY <1>2
<1>4. \A n \in 1..N, before \in Seq(S) : step[<<n, before>>] = before \o seqs[n]  OBVIOUS
<1>5. <<>> \in Seq(S)  BY EmptySeq
<1> HIDE DEF step, N
<1>6. PICK f : Recursive(f, N, Seq(S), <<>>, step)  BY <1>1, <1>3, <1>5, Recursion
<1>7. /\ f \in [0..N -> Seq(S)] /\ f[0] = <<>>
      /\ \A i \in 1..N : f[i] = step[<<i, f[i - 1]>>]  BY <1>6 DEF Recursive
<1>8. ASSUME NEW i \in 1..N, NEW m \in Nat, i = m + 1 PROVE f[i] = f[m] \o seqs[i]
  <2>1. m = i - 1 /\ f[i - 1] \in Seq(S)  BY <1>1, <1>7, <1>8
  <2> QED BY <1>7, <2>1, <1>4
<1>20. 1 \in 1..N => f[1] = seqs[1]
  <2> SUFFICES ASSUME 1 \in 1..N PROVE f[1] = seqs[1]  OBVIOUS
  <2>1. f[1] = f[0] \o seqs[1] /\ seqs[1] \in Seq(S)  BY <1>1, <1>8, 1 = 0 + 1
  <2> QED BY <2>1, <1>7, ConcatEmptySeq
<1> DEFINE g == [i \in 1..N |-> f[i]]
<1>9. ASSUME NEW i \in 1..N PROVE g[i] = F(g)[i]
  <2>1. CASE i = 1  BY <1>20, <2>1
  <2>2. CASE i # 1
    <3>1. i - 1 \in 1..N /\ g[i - 1] = f[i - 1] /\ i - 1 \in Nat /\ i = (i - 1) + 1
      BY <1>1, <2>2
    <3>2. f[i] = f[i - 1] \o seqs[i]  BY <3>1, <1>8
    <3> QED BY <3>1, <3>2, <2>2
  <2> QED BY <2>1, <2>2
<1>10. g = F(g)  BY <1>9
<1>11. flatten = F(flatten)  BY <1>10
<1>12. N # 0 => FlattenSeq(seqs) = flatten[N]  BY DEF FlattenSeq, N
<1> HIDE DEF flatten
<1> DEFINE T == {n \in Nat : n \in 1..N => flatten[n] = f[n]}
<1>13. 0 \in T  OBVIOUS
<1>14. ASSUME NEW n \in Nat, n \in T PROVE n + 1 \in T
  <2> SUFFICES ASSUME n + 1 \in 1..N PROVE flatten[n + 1] = f[n + 1]  OBVIOUS
  <2>1. flatten[n + 1] = F(flatten)[n + 1]  BY <1>11
  <2>2. CASE n = 0  BY <1>20, <2>1, <2>2
  <2>3. CASE n # 0
    <3>1. n \in 1..N /\ flatten[n] = f[n] /\ (n + 1) - 1 = n  BY <1>1, <1>14, <2>3
    <3>2. f[n + 1] = f[n] \o seqs[n + 1]  BY <1>8, <3>1
    <3>3. n + 1 # 1  BY <2>3
    <3>4. F(flatten)[n + 1] = flatten[n] \o seqs[n + 1]  BY <3>1, <3>3
    <3> QED BY <2>1, <3>1, <3>2, <3>4
  <2> QED BY <2>2, <2>3
<1> HIDE DEF T
<1>15. Nat \subseteq T  BY <1>13, <1>14, InductiveSet
<1>16. N # 0 => flatten[N] = f[N]  BY <1>1, <1>15 DEF T
<1>17. N = 0 => seqs = <<>> /\ FlattenSeq(seqs) = <<>>  BY EmptySeq DEF N, FlattenSeq
<1>18. FlattenSeq(seqs) = f[N]  BY <1>7, <1>12, <1>16, <1>17
<1>19. FlattenSteps(f, S, seqs)  BY <1>7, <1>8, <1>18 DEF FlattenSteps, N
<1> QED BY <1>19

\* A list of one list is that list.
LEMMA FlattenOne ==
    ASSUME NEW S, NEW a \in Seq(S)
    PROVE  FlattenSeq(<<a>>) = a
<1>1. <<a>> \in Seq(Seq(S)) /\ Len(<<a>>) = 1  OBVIOUS
<1>2. PICK flat : FlattenSteps(flat, S, <<a>>)  BY <1>1, FlattenDef
<1>3. flat[0] = <<>> /\ FlattenSeq(<<a>>) = flat[1]  BY <1>1, <1>2 DEF FlattenSteps
<1>4. flat[1] = flat[0] \o <<a>>[1]
  BY <1>1, <1>2, 1 \in 1..1, 0 \in Nat, 1 = 0 + 1 DEF FlattenSteps
<1> QED BY <1>3, <1>4, ConcatEmptySeq

\* A list of two lists is one after the other.
LEMMA FlattenTwo ==
    ASSUME NEW S, NEW a \in Seq(S), NEW b \in Seq(S)
    PROVE  FlattenSeq(<<a, b>>) = a \o b
<1>1. <<a, b>> \in Seq(Seq(S)) /\ Len(<<a, b>>) = 2  OBVIOUS
<1>2. PICK flat : FlattenSteps(flat, S, <<a, b>>)  BY <1>1, FlattenDef
<1>3. flat[0] = <<>> /\ FlattenSeq(<<a, b>>) = flat[2]  BY <1>1, <1>2 DEF FlattenSteps
<1>4. flat[1] = flat[0] \o <<a, b>>[1]
  BY <1>1, <1>2, 1 \in 1..2, 0 \in Nat, 1 = 0 + 1 DEF FlattenSteps
<1>5. flat[2] = flat[1] \o <<a, b>>[2]
  BY <1>1, <1>2, 2 \in 1..2, 1 \in Nat, 2 = 1 + 1 DEF FlattenSteps
<1> QED BY <1>3, <1>4, <1>5, ConcatEmptySeq

\* Every place of a flattened list is a place of one of its lists, after all the
\* earlier ones.
LEMMA FlattenProperties ==
    ASSUME NEW S, NEW seqs \in Seq(Seq(S))
    PROVE  /\ FlattenSeq(seqs) \in Seq(S)
           /\ \E off : FlattensAt(off, FlattenSeq(seqs), seqs)
<1> DEFINE N == Len(seqs)
<1>1. N \in Nat /\ \A n \in 1..N : seqs[n] \in Seq(S) /\ Len(seqs[n]) \in Nat  BY LenProperties
<1>2. PICK flat : FlattenSteps(flat, S, seqs)  BY FlattenDef
<1>3. flat \in [0..N -> Seq(S)] /\ flat[0] = <<>> /\ FlattenSeq(seqs) = flat[N]
  BY <1>2 DEF FlattenSteps
<1>4. \A n \in 1..N, m \in Nat : n = m + 1 => flat[n] = flat[m] \o seqs[n]
  BY <1>2 DEF FlattenSteps
<1> DEFINE Off(n) == Len(flat[n - 1])
           off == [n \in 1..N |-> Off(n)]
           Within(n) == \A i \in 1..n : \A k \in 1..Len(seqs[i]) :
                          off[i] + k \in 1..Len(flat[n]) /\ flat[n][off[i] + k] = seqs[i][k]
           Covers(n) == \A j \in 1..Len(flat[n]) :
                          \E i \in 1..n : \E k \in 1..Len(seqs[i]) : j = off[i] + k
           Apart(n) == \A i \in 1..n : off[i] + Len(seqs[i]) <= Len(flat[n])
           T == {n \in Nat : n <= N => Within(n) /\ Covers(n) /\ Apart(n)}
<1> HIDE DEF N
<1>5. \A n \in 0..N : flat[n] \in Seq(S) /\ Len(flat[n]) \in Nat  BY <1>1, <1>3, LenProperties
<1>6. off \in [1..N -> Nat]  BY <1>1, <1>5
<1>7. \A n \in 1..N, m \in Nat : n = m + 1 => off[n] = Len(flat[m])  BY <1>1
<1> HIDE DEF off
<1>8. 0 \in T
  <2>1. Len(flat[0]) = 0 /\ 1..0 = {}  BY <1>3
  <2> QED BY <2>1
<1>9. ASSUME NEW m \in Nat, m \in T PROVE m + 1 \in T
  <2> DEFINE n == m + 1
  <2> HIDE DEF Within, Covers, Apart
  <2> SUFFICES ASSUME n <= N PROVE Within(n) /\ Covers(n) /\ Apart(n)  OBVIOUS
  <2>1. Within(m) /\ Covers(m) /\ Apart(m) /\ n \in 1..N /\ m \in 0..N  BY <1>1, <1>9
  <2>2. /\ flat[m] \in Seq(S) /\ Len(flat[m]) \in Nat
        /\ flat[n] \in Seq(S) /\ Len(flat[n]) \in Nat
        /\ seqs[n] \in Seq(S) /\ Len(seqs[n]) \in Nat  BY <1>1, <1>5, <2>1
  <2>3. flat[n] = flat[m] \o seqs[n] /\ off[n] = Len(flat[m])  BY <1>4, <1>7, <2>1
  <2>4. Len(flat[n]) = off[n] + Len(seqs[n])
    <3>1. Len(flat[m] \o seqs[n]) = Len(flat[m]) + Len(seqs[n])  BY <2>2, ConcatProperties
    <3> QED BY <3>1, <2>3
  <2>10. \A j \in 1..Len(flat[n]) :
            flat[n][j] = IF j <= off[n] THEN flat[m][j] ELSE seqs[n][j - off[n]]
    <3>1. \A j \in 1..(Len(flat[m]) + Len(seqs[n])) :
             (flat[m] \o seqs[n])[j] = IF j <= Len(flat[m]) THEN flat[m][j]
                                       ELSE seqs[n][j - Len(flat[m])]
      BY <2>2, ConcatProperties
    <3> QED BY <3>1, <2>3, <2>4
  <2>5. \A i \in 1..n : i \in 1..m \/ i = n  OBVIOUS
  <2> HIDE DEF n
  <2>6. off[n] \in Nat  BY <2>2, <2>3
  <2>7. Within(n)
    <3> SUFFICES ASSUME NEW i \in 1..n, NEW k \in 1..Len(seqs[i])
                 PROVE  off[i] + k \in 1..Len(flat[n]) /\ flat[n][off[i] + k] = seqs[i][k]
      BY DEF Within
    <3>1. CASE i \in 1..m
      <4>1. off[i] + k \in 1..off[n] /\ flat[m][off[i] + k] = seqs[i][k]
        BY <2>1, <2>3, <3>1 DEF Within
      <4>2. off[i] + k <= off[n] /\ off[i] + k \in 1..Len(flat[n])
        <5>1. Len(seqs[n]) \in Nat  BY <2>2
        <5> QED BY <4>1, <5>1, <2>4, <2>6
      <4> QED BY <4>1, <4>2, <2>10
    <3>2. CASE i = n
      <4>1. off[n] + k \in 1..Len(flat[n]) /\ ~(off[n] + k <= off[n])
            /\ (off[n] + k) - off[n] = k
        <5>1. Len(seqs[n]) \in Nat /\ k \in 1..Len(seqs[n])  BY <2>2, <3>2
        <5> QED BY <5>1, <2>4, <2>6, SMTT(30)
      <4> QED BY <4>1, <2>10, <3>2
    <3> QED BY <3>1, <3>2, <2>5
  <2>8. Covers(n)
    <3> SUFFICES ASSUME NEW j \in 1..Len(flat[n])
                 PROVE  \E i \in 1..n : \E k \in 1..Len(seqs[i]) : j = off[i] + k
      BY DEF Covers
    <3>1. CASE j <= off[n]
      <4>1. j \in 1..Len(flat[m])  BY <2>2, <2>3, <3>1
      <4>2. PICK i \in 1..m : \E k \in 1..Len(seqs[i]) : j = off[i] + k
        BY <2>1, <4>1 DEF Covers
      <4>3. i \in 1..n  BY DEF n
      <4> QED BY <4>2, <4>3
    <3>2. CASE ~(j <= off[n])
      <4>1. j - off[n] \in 1..Len(seqs[n]) /\ j = off[n] + (j - off[n]) /\ n \in 1..n
        BY <2>1, <2>2, <2>4, <2>6, <3>2, SMTT(30)
      <4> QED BY <4>1
    <3> QED BY <3>1, <3>2
  <2>9. Apart(n)
    <3> SUFFICES ASSUME NEW i \in 1..n PROVE off[i] + Len(seqs[i]) <= Len(flat[n])
      BY DEF Apart
    <3>1. CASE i \in 1..m
      <4>1. i \in 1..N /\ off[i] + Len(seqs[i]) <= Len(flat[m])  BY <2>1, <3>1, <1>1 DEF Apart
      <4>2. off[i] \in Nat /\ Len(seqs[i]) \in Nat  BY <4>1, <1>1, <1>6
      <4>3. off[i] + Len(seqs[i]) <= off[n] /\ Len(seqs[n]) \in Nat  BY <4>1, <2>2, <2>3
      <4> QED BY <4>2, <4>3, <2>4, <2>6, SMTT(30)
    <3>2. CASE i = n  BY <3>2, <2>2, <2>4, <2>6
    <3> QED BY <3>1, <3>2, <2>5
  <2> QED BY <2>7, <2>8, <2>9
<1> HIDE DEF T
<1>10. Nat \subseteq T  BY <1>8, <1>9, InductiveSet
<1> HIDE DEF Within, Covers, Apart
<1>11. \A n \in 0..N : Within(n) /\ Covers(n) /\ Apart(n)  BY <1>1, <1>10 DEF T
<1>12. Within(N) /\ Covers(N)  BY <1>1, <1>11
<1>13. ASSUME NEW i \in 1..N, NEW k \in 1..N, i < k PROVE off[i] + Len(seqs[i]) <= off[k]
  <2>1. k - 1 \in 0..N /\ k - 1 \in Nat /\ k = (k - 1) + 1 /\ i \in 1..(k - 1)  BY <1>1, <1>13
  <2>2. Apart(k - 1) /\ off[k] = Len(flat[k - 1])  BY <2>1, <1>7, <1>11
  <2> QED BY <2>1, <2>2 DEF Apart
<1>14. FlattensAt(off, flat[N], seqs)  BY <1>6, <1>12, <1>13 DEF FlattensAt, Within, Covers, N
<1>15. flat[N] \in Seq(S)  BY <1>1, <1>5
<1> QED BY <1>3, <1>14, <1>15

\* Two places in the same sequence are the same place in their concatenation
\* only if they are one.
LEMMA OnePlace ==
    ASSUME NEW S, NEW seqs \in Seq(Seq(S)), NEW off, NEW flat, FlattensAt(off, flat, seqs),
           NEW i \in 1..Len(seqs), NEW k \in 1..Len(seqs[i]),
           NEW j \in 1..Len(seqs), NEW l \in 1..Len(seqs[j]),
           off[i] + k = off[j] + l
    PROVE  i = j /\ k = l
<1>1. /\ seqs[i] \in Seq(S) /\ seqs[j] \in Seq(S) /\ Len(seqs) \in Nat
      /\ off[i] \in Nat /\ off[j] \in Nat  BY LenProperties DEF FlattensAt
<1>2. Len(seqs[i]) \in Nat /\ Len(seqs[j]) \in Nat  BY <1>1, LenProperties
<1>3. ASSUME i < j PROVE FALSE
  <2>1. off[i] + Len(seqs[i]) <= off[j]  BY <1>3 DEF FlattensAt
  <2> QED BY <2>1, <1>1, <1>2, SMTT(30)
<1>4. ASSUME j < i PROVE FALSE
  <2>1. off[j] + Len(seqs[j]) <= off[i]  BY <1>4 DEF FlattensAt
  <2> QED BY <2>1, <1>1, <1>2, SMTT(30)
<1>5. i = j  BY <1>1, <1>3, <1>4
<1> QED BY <1>1, <1>2, <1>5

--------
(* The index of entities. *)

\* If the first place is kept it is kept first.
LEMMA KeepFirst ==
    ASSUME NEW S, NEW seq \in Seq(S), seq # <<>>, NEW places, 1 \in places
    PROVE  Keep(seq, places) # <<>> /\ Keep(seq, places)[1] = seq[1]
<1> DEFINE K == Keep(seq, places)
           P == places \cap 1..Len(seq)
<1>1. K \in Seq(S) /\ \E at : KeepsAt(at, K, seq, P)  BY KeepProperties
<1>2. Len(seq) \in Nat /\ Len(seq) # 0  BY LenProperties, EmptySeq
<1>3. 1 \in P /\ \A i \in P : i \in Nat /\ 1 <= i  BY <1>2
<1> HIDE DEF K, P
<1>4. PICK at : KeepsAt(at, K, seq, P)  BY <1>1
<1>5. /\ \A i \in 1..Len(K) : at[i] \in P /\ K[i] = seq[at[i]]
      /\ \A i, k \in 1..Len(K) : i < k => at[i] < at[k]
      /\ \A p \in P : \E i \in 1..Len(K) : at[i] = p  BY <1>4 DEF KeepsAt, Enumerates
<1>6. Len(K) \in Nat  BY <1>1, LenProperties
<1>7. PICK i \in 1..Len(K) : at[i] = 1  BY <1>3, <1>5
<1>8. i = 1
  <2>1. 1 \in 1..Len(K) /\ at[1] \in Nat /\ 1 <= at[1]  BY <1>3, <1>5, <1>6
  <2>2. 1 < i => at[1] < at[i]  BY <1>5, <2>1
  <2> QED BY <1>6, <1>7, <2>1, <2>2
<1>9. K[1] = seq[1] /\ Len(K) # 0  BY <1>5, <1>6, <1>7, <1>8
<1> QED BY <1>1, <1>9, EmptySeq DEF K

\* What Keep keeps, whatever the order.
LEMMA KeepMembers ==
    ASSUME NEW S, NEW seq \in Seq(S), NEW places, places \subseteq 1..Len(seq)
    PROVE  /\ Keep(seq, places) \in Seq(S)
           /\ \A i \in 1..Len(Keep(seq, places)) : \E p \in places : Keep(seq, places)[i] = seq[p]
           /\ \A p \in places : \E i \in 1..Len(Keep(seq, places)) : Keep(seq, places)[i] = seq[p]
           /\ (\A p, q \in places : seq[p] = seq[q] => p = q) =>
                 \A i, k \in 1..Len(Keep(seq, places)) :
                    Keep(seq, places)[i] = Keep(seq, places)[k] => i = k
<1> DEFINE K == Keep(seq, places)
<1>1. places \cap 1..Len(seq) = places /\ Len(seq) \in Nat  BY LenProperties
<1>2. K \in Seq(S)  BY KeepProperties
<1>3. \E at : KeepsAt(at, K, seq, places \cap 1..Len(seq))  BY KeepProperties
<1> HIDE DEF K
<1>4. PICK at : KeepsAt(at, K, seq, places)  BY <1>1, <1>3
<1>5. /\ \A i \in 1..Len(K) : at[i] \in places /\ K[i] = seq[at[i]]
      /\ \A i, k \in 1..Len(K) : i < k => at[i] < at[k]
      /\ \A p \in places : \E i \in 1..Len(K) : at[i] = p  BY <1>4 DEF KeepsAt, Enumerates
<1>6. Len(K) \in Nat  BY <1>2, LenProperties
<1>7. ASSUME \A p, q \in places : seq[p] = seq[q] => p = q,
             NEW i \in 1..Len(K), NEW k \in 1..Len(K), K[i] = K[k]
      PROVE  i = k
  <2>4. /\ at[i] \in places /\ at[k] \in places
        /\ K[i] = seq[at[i]] /\ K[k] = seq[at[k]]  BY <1>5
  <2>5. seq[at[i]] = seq[at[k]]  BY <1>7, <2>4
  <2>1. at[i] = at[k]  BY <1>7, <2>4, <2>5
  <2>2. at[i] \in Int  BY <1>1, <2>4
  <2>3. ~(i < k) /\ ~(k < i)  BY <1>5, <2>1, <2>2
  <2> QED BY <1>6, <2>3
<1>8. ASSUME NEW i \in 1..Len(K) PROVE \E p \in places : K[i] = seq[p]  BY <1>5
<1>9. ASSUME NEW p \in places PROVE \E i \in 1..Len(K) : K[i] = seq[p]
  <2>1. PICK i \in 1..Len(K) : at[i] = p  BY <1>5
  <2> QED BY <1>5, <2>1
<1> QED BY <1>2, <1>7, <1>8, <1>9 DEF K

\* The first of what is kept, when only one element is.
LEMMA FirstKept ==
    ASSUME NEW S, NEW seq \in Seq(S), NEW p \in 1..Len(seq),
           NEW places, places \cap 1..Len(seq) = {p}
    PROVE  First(Keep(seq, places)) = <<seq[p]>>
<1> DEFINE K == Keep(seq, places)
<1>1. K \in Seq(S) /\ \E at : KeepsAt(at, K, seq, {p})  BY KeepProperties
<1> HIDE DEF K
<1>2. PICK at : KeepsAt(at, K, seq, {p})  BY <1>1
<1>3. /\ \A i \in 1..Len(K) : K[i] = seq[at[i]] /\ at[i] = p
      /\ \E i \in 1..Len(K) : at[i] = p  BY <1>2 DEF KeepsAt, Enumerates
<1>4. 1 \in 1..Len(K) /\ K # <<>>  BY <1>1, <1>3, LenProperties, EmptySeq
<1> QED BY <1>3, <1>4 DEF First, K

\* Distinct has every value of a list once, and no other.
LEMMA DistinctProperties ==
    ASSUME NEW S, NEW seq \in Seq(S)
    PROVE  /\ Distinct(seq) \in Seq(S)
           /\ \A i, k \in 1..Len(Distinct(seq)) : Distinct(seq)[i] = Distinct(seq)[k] => i = k
           /\ \A i \in 1..Len(Distinct(seq)) : \E k \in 1..Len(seq) : Distinct(seq)[i] = seq[k]
           /\ \A k \in 1..Len(seq) : \E i \in 1..Len(Distinct(seq)) : Distinct(seq)[i] = seq[k]
<1> DEFINE places == {i \in DOMAIN seq : \A k \in 1..(i - 1) : seq[k] # seq[i]}
           D == Keep(seq, places)
<1>1. DOMAIN seq = 1..Len(seq) /\ Len(seq) \in Nat  BY LenProperties
<1>2. places \subseteq 1..Len(seq)  BY <1>1
<1>3. ASSUME NEW i \in places, NEW k \in places, seq[i] = seq[k] PROVE i = k
  <2>1. ~(i < k) /\ ~(k < i)  BY <1>1, <1>3
  <2> QED BY <1>2, <2>1
<1>4. ASSUME NEW k \in 1..Len(seq) PROVE \E p \in places : seq[p] = seq[k]
  <2> DEFINE Same == {l \in 1..Len(seq) : seq[l] = seq[k]}
  <2>1. Same \subseteq Nat /\ Same # {}  OBVIOUS
  <2> HIDE DEF Same
  <2>2. PICK l \in Same : \A m \in Same : l <= m  BY <2>1, LeastNumber
  <2>3. l \in 1..Len(seq) /\ seq[l] = seq[k]  BY DEF Same
  <2>4. \A m \in 1..(l - 1) : seq[m] # seq[l]  BY <2>2, <2>3, <1>1 DEF Same
  <2> QED BY <2>3, <2>4, <1>1
<1> HIDE DEF places
<1>5. /\ D \in Seq(S)
      /\ \A i \in 1..Len(D) : \E p \in places : D[i] = seq[p]
      /\ \A p \in places : \E i \in 1..Len(D) : D[i] = seq[p]
      /\ \A i, k \in 1..Len(D) : D[i] = D[k] => i = k  BY <1>2, <1>3, KeepMembers
<1> HIDE DEF D
<1>6. \A i \in 1..Len(D) : \E k \in 1..Len(seq) : D[i] = seq[k]  BY <1>2, <1>5
<1>7. \A k \in 1..Len(seq) : \E i \in 1..Len(D) : D[i] = seq[k]  BY <1>4, <1>5
<1> QED BY <1>5, <1>6, <1>7 DEF D, Distinct, places

\* The first of the distinct values is the first of the values.
LEMMA DistinctFirst ==
    ASSUME NEW S, NEW seq \in Seq(S), seq # <<>>
    PROVE  Distinct(seq) # <<>> /\ Distinct(seq)[1] = seq[1]
<1> DEFINE places == {i \in DOMAIN seq : \A k \in 1..(i - 1) : seq[k] # seq[i]}
<1>1. 1 \in places
  <2>1. Len(seq) \in Nat /\ Len(seq) # 0 /\ DOMAIN seq = 1..Len(seq)  BY LenProperties, EmptySeq
  <2> QED BY <2>1
<1> HIDE DEF places
<1>2. Keep(seq, places) # <<>> /\ Keep(seq, places)[1] = seq[1]  BY <1>1, KeepFirst
<1> QED BY <1>2 DEF Distinct, places

\* ByType takes each type once, and every type with the suffix.
LEMMA ByTypeAsks ==
    ASSUME NEW S, NEW included \in Seq(S), NEW suffixes
    PROVE  \E types \in Seq({e.type : e \in S}) : Asks(types, included, suffixes)
<1> DEFINE Types == {e.type : e \in S}
           all == [i \in DOMAIN included |-> included[i].type]
           types == Distinct(all)
           asked == {i \in DOMAIN types : \E s \in suffixes : IsSuffix(s, types[i])}
           wanted == Keep(types, asked)
           places == PlacesOfType(included, suffixes)
<1>1. Len(included) \in Nat /\ DOMAIN included = 1..Len(included)
      /\ \A i \in 1..Len(included) : included[i] \in S  BY LenProperties
<1>2. all \in Seq(Types) /\ Len(all) = Len(included)
      /\ \A i \in 1..Len(included) : all[i] = included[i].type  BY <1>1
<1>3. ByType(included, suffixes)
        = FlattenSeq([i \in DOMAIN wanted |-> Keep(included, HavingType(included, wanted[i]))])
  BY DEF ByType, OfType, Filter, HavingType
<1> HIDE DEF all, Types
<1>4. /\ types \in Seq(Types)
      /\ \A i, k \in 1..Len(types) : types[i] = types[k] => i = k
      /\ \A i \in 1..Len(types) : \E k \in 1..Len(all) : types[i] = all[k]
      /\ \A k \in 1..Len(all) : \E i \in 1..Len(types) : types[i] = all[k]
  BY <1>2, DistinctProperties
<1>5. 1 \in places => types # <<>> /\ types[1] = included[1].type
  <2>1. 1 \in places => all # <<>> /\ all[1] = included[1].type
    BY <1>1, <1>2, EmptySeq DEF PlacesOfType
  <2> QED BY <2>1, <1>2, DistinctFirst
<1> HIDE DEF types
<1>6. DOMAIN types = 1..Len(types) /\ asked \subseteq 1..Len(types)  BY <1>4, LenProperties
<1>7. 1 \in places => 1 \in asked
  <2> SUFFICES ASSUME 1 \in places PROVE 1 \in asked  OBVIOUS
  <2>1. 1 \in DOMAIN types  BY <1>4, <1>5, LenProperties, EmptySeq
  <2> QED BY <1>5, <2>1 DEF PlacesOfType
<1>8. ASSUME NEW i \in asked PROVE \E p \in places : types[i] = included[p].type
  <2>1. i \in 1..Len(types) /\ \E s \in suffixes : IsSuffix(s, types[i])  BY <1>6
  <2>2. PICK k \in 1..Len(all) : types[i] = all[k]  BY <2>1, <1>4
  <2> QED BY <2>1, <2>2, <1>2 DEF PlacesOfType
<1>9. ASSUME NEW p \in places PROVE \E i \in asked : types[i] = included[p].type
  <2>1. p \in 1..Len(included) /\ \E s \in suffixes : IsSuffix(s, included[p].type)
    BY DEF PlacesOfType
  <2>2. PICK i \in 1..Len(types) : types[i] = included[p].type  BY <2>1, <1>2, <1>4
  <2> QED BY <2>1, <2>2, <1>6
<1> HIDE DEF asked, places
<1>10. /\ wanted \in Seq(Types)
       /\ \A i \in 1..Len(wanted) : \E p \in asked : wanted[i] = types[p]
       /\ \A p \in asked : \E i \in 1..Len(wanted) : wanted[i] = types[p]
       /\ (\A p, q \in asked : types[p] = types[q] => p = q) =>
             \A i, k \in 1..Len(wanted) : wanted[i] = wanted[k] => i = k
  BY <1>4, <1>6, KeepMembers
<1>11. 1 \in places => wanted # <<>> /\ wanted[1] = included[1].type
  BY <1>4, <1>5, <1>7, KeepFirst
<1> HIDE DEF wanted
<1>12. \A i, k \in 1..Len(wanted) : wanted[i] = wanted[k] => i = k  BY <1>4, <1>6, <1>10
<1>13. \A i \in 1..Len(wanted) : \E p \in places : wanted[i] = included[p].type
  BY <1>8, <1>10
<1>14. \A p \in places : \E i \in 1..Len(wanted) : wanted[i] = included[p].type
  BY <1>9, <1>10
<1>15. Asks(wanted, included, suffixes)
  BY <1>3, <1>11, <1>12, <1>13, <1>14 DEF Asks, places
<1> QED BY <1>10, <1>15 DEF Types

\* by_type returns the entities of some of the types, each once.
LEMMA ByTypeProperties ==
    ASSUME NEW S, NEW included \in Seq(S), NEW suffixes
    PROVE  /\ ByType(included, suffixes) \in Seq(S)
           /\ \E at : Finds(at, ByType(included, suffixes), included,
                            PlacesOfType(included, suffixes))
<1>1. Len(included) \in Nat /\ DOMAIN included = 1..Len(included)  BY LenProperties
<1>2. PICK wanted \in Seq({e.type : e \in S}) : Asks(wanted, included, suffixes)  BY ByTypeAsks
<1> DEFINE N == Len(wanted)
           Typed1(i) == HavingType(included, wanted[i])
           seqs == [i \in DOMAIN wanted |-> Keep(included, Typed1(i))]
           found == FlattenSeq(seqs)
           places == PlacesOfType(included, suffixes)
<1>3. ByType(included, suffixes) = found  BY <1>2 DEF Asks
<1>9. N \in Nat /\ DOMAIN wanted = 1..N  BY LenProperties
<1>10. \A i, k \in 1..N : wanted[i] = wanted[k] => i = k  BY <1>2 DEF Asks
<1>11. ASSUME NEW i \in 1..N, NEW p \in Typed1(i) PROVE p \in places
  <2>1. PICK q \in places : wanted[i] = included[q].type  BY <1>2 DEF Asks
  <2> QED BY <2>1, <1>1 DEF PlacesOfType, HavingType
<1>12. ASSUME NEW p \in places PROVE \E i \in 1..N : p \in Typed1(i)
  <2>1. PICK i \in 1..N : wanted[i] = included[p].type  BY <1>2 DEF Asks
  <2> QED BY <2>1, <1>1 DEF PlacesOfType, HavingType
<1> HIDE DEF N
<1>13. /\ seqs \in Seq(Seq(S)) /\ Len(seqs) = N
       /\ \A i \in 1..N : seqs[i] = Keep(included, Typed1(i))
  <2>1. \A i \in 1..N : Keep(included, Typed1(i)) \in Seq(S)  BY KeepProperties
  <2> HIDE DEF Typed1
  <2> QED BY <2>1, <1>9
<1>14. \A i \in 1..N : \E at : KeepsAt(at, seqs[i], included, Typed1(i))
  <2> SUFFICES ASSUME NEW i \in 1..N
               PROVE  \E at : KeepsAt(at, Keep(included, Typed1(i)), included, Typed1(i))
    BY <1>13
  <2>1. Typed1(i) \cap 1..Len(included) = Typed1(i)  BY <1>1 DEF HavingType
  <2> QED BY <2>1, KeepProperties
<1> HIDE DEF seqs
<1> DEFINE a == [i \in 1..N |-> CHOOSE at : KeepsAt(at, seqs[i], included, Typed1(i))]
<1>15. \A i \in 1..N : KeepsAt(a[i], seqs[i], included, Typed1(i))  BY <1>14
<1> HIDE DEF a
<1>16. \A i \in 1..N :
         /\ \A k \in 1..Len(seqs[i]) :
               /\ a[i][k] \in Typed1(i)
               /\ seqs[i][k] = included[a[i][k]]
         /\ \A k, l \in 1..Len(seqs[i]) : k < l => a[i][k] < a[i][l]
         /\ \A p \in Typed1(i) : \E k \in 1..Len(seqs[i]) : a[i][k] = p
  BY <1>15 DEF KeepsAt, Enumerates
<1>17. found \in Seq(S) /\ \E off : FlattensAt(off, found, seqs)  BY <1>13, FlattenProperties
<1>18. PICK off : FlattensAt(off, found, seqs)  BY <1>17
<1> HIDE DEF found
<1>19. \A i \in 1..N : Typed1(i) \subseteq places /\ Typed1(i) \subseteq Nat
  <2>1. places \subseteq Nat  BY DEF PlacesOfType
  <2> HIDE DEF Typed1, places
  <2> QED BY <2>1, <1>11
<1> DEFINE Place(j, p) == \E i \in 1..N : \E k \in 1..Len(seqs[i]) : j = off[i] + k /\ p = a[i][k]
           at == [j \in 1..Len(found) |-> CHOOSE p : Place(j, p)]
<1>20. ASSUME NEW j \in 1..Len(found) PROVE \E p : Place(j, p)
  <2>1. PICK i \in 1..N : \E k \in 1..Len(seqs[i]) : j = off[i] + k
    BY <1>13, <1>18 DEF FlattensAt
  <2>2. PICK k \in 1..Len(seqs[i]) : j = off[i] + k  BY <2>1
  <2>3. Place(j, a[i][k])  BY <2>2
  <2> QED BY <2>3
<1>21. ASSUME NEW j \in 1..Len(found)
       PROVE  \E i \in 1..N : \E k \in 1..Len(seqs[i]) : j = off[i] + k /\ at[j] = a[i][k]
  <2>1. Place(j, at[j])  BY <1>20
  <2> QED BY <2>1
<1> HIDE DEF at, Place
<1>22. at \in [1..Len(found) -> places]
  <2>1. ASSUME NEW j \in 1..Len(found) PROVE at[j] \in places
    <3>1. PICK i \in 1..N : \E k \in 1..Len(seqs[i]) : j = off[i] + k /\ at[j] = a[i][k]
      BY <1>21
    <3>2. PICK k \in 1..Len(seqs[i]) : at[j] = a[i][k]  BY <3>1
    <3>3. a[i][k] \in Typed1(i)  BY <1>16
    <3> HIDE DEF Typed1, places
    <3> QED BY <3>2, <3>3, <1>19
  <2> QED BY <2>1 DEF at
<1>23. ASSUME NEW j \in 1..Len(found) PROVE found[j] = included[at[j]]
  <2>1. PICK i \in 1..N : \E k \in 1..Len(seqs[i]) : j = off[i] + k /\ at[j] = a[i][k]  BY <1>21
  <2>2. PICK k \in 1..Len(seqs[i]) : j = off[i] + k /\ at[j] = a[i][k]  BY <2>1
  <2>3. found[off[i] + k] = seqs[i][k]  BY <1>13, <1>18 DEF FlattensAt
  <2>4. seqs[i][k] = included[a[i][k]]  BY <1>16
  <2> QED BY <2>2, <2>3, <2>4
<1>24. ASSUME NEW j \in 1..Len(found), NEW m \in 1..Len(found), at[j] = at[m] PROVE j = m
  <2>1. PICK i \in 1..N : \E k \in 1..Len(seqs[i]) : j = off[i] + k /\ at[j] = a[i][k]  BY <1>21
  <2>2. PICK k \in 1..Len(seqs[i]) : j = off[i] + k /\ at[j] = a[i][k]  BY <2>1
  <2>3. PICK h \in 1..N : \E l \in 1..Len(seqs[h]) : m = off[h] + l /\ at[m] = a[h][l]  BY <1>21
  <2>4. PICK l \in 1..Len(seqs[h]) : m = off[h] + l /\ at[m] = a[h][l]  BY <2>3
  <2> HIDE DEF Typed1
  <2>5. at[j] \in Typed1(i) /\ at[j] \in Typed1(h)  BY <1>16, <1>24, <2>2, <2>4
  <2> USE DEF Typed1
  <2>6. i = h  BY <2>5, <1>10 DEF HavingType
  <2>7. a[i][k] \in Nat /\ Len(seqs[i]) \in Nat  BY <1>13, <1>16, <1>19, LenProperties
  <2>8. ~(k < l) /\ ~(l < k)  BY <1>16, <1>24, <2>2, <2>4, <2>6, <2>7
  <2>9. k = l  BY <2>6, <2>7, <2>8
  <2> QED BY <2>2, <2>4, <2>6, <2>9
<1>25. ASSUME NEW p \in places PROVE \E j \in 1..Len(found) : at[j] = p
  <2>2. PICK i \in 1..N : p \in Typed1(i)  BY <1>12
  <2>3. PICK k \in 1..Len(seqs[i]) : a[i][k] = p  BY <2>2, <1>16
  <2>4. off[i] + k \in 1..Len(found)  BY <1>13, <1>18 DEF FlattensAt
  <2>5. PICK h \in 1..N : \E l \in 1..Len(seqs[h]) : off[i] + k = off[h] + l /\ at[off[i] + k] = a[h][l]
    BY <1>21, <2>4
  <2>6. PICK l \in 1..Len(seqs[h]) : off[i] + k = off[h] + l /\ at[off[i] + k] = a[h][l]
    BY <2>5
  <2>7. i = h /\ k = l
    <3>1. off[i] + k = off[h] + l  BY <2>6
    <3>2. seqs \in Seq(Seq(S)) /\ i \in 1..Len(seqs) /\ h \in 1..Len(seqs)  BY <1>13
    <3> QED BY <3>1, <3>2, <1>18, OnePlace
  <2> QED BY <2>3, <2>4, <2>6, <2>7
<1>26. Finds(at, found, included, places)  BY <1>22, <1>23, <1>24, <1>25 DEF Finds
<1> QED BY <1>3, <1>17, <1>26

\* Two sets in bijection have the same size.
LEMMA SameSize ==
    ASSUME NEW A, NEW B, IsFiniteSet(A), NEW f \in [A -> B],
           \A x, y \in A : f[x] = f[y] => x = y, \A z \in B : \E x \in A : f[x] = z
    PROVE  IsFiniteSet(B) /\ Cardinality(A) = Cardinality(B)
<1>1. f \in Bijection(A, B)  BY DEF Bijection, Injection, Surjection, IsInjective
<1>2. ExistsBijection(A, B)  BY <1>1, Fun_ExistsBij
<1> QED BY <1>2, FS_Bijection

\* Every entity of a response is found by the type of which all names end.
LEMMA AllOfSomeType ==
    ASSUME NEW S, \A e \in S : e.type \in Seq(STRING), NEW included \in Seq(S)
    PROVE  PlacesOfType(included, {<<>>}) = 1..Len(included)
<1> SUFFICES ASSUME NEW i \in 1..Len(included) PROVE IsSuffix(<<>>, included[i].type)
  BY DEF PlacesOfType
<1> DEFINE type == included[i].type
<1>1. type \in Seq(STRING)  BY ElementOfSeq
<1> HIDE DEF type
<1>2. Len(Reverse(<<>>)) = 0 /\ Len(Reverse(type)) \in Nat  BY <1>1, LenProperties DEF Reverse
<1>3. SubSeq(Reverse(<<>>), 1, 0) = <<>> /\ SubSeq(Reverse(type), 1, 0) = <<>>  BY SubSeqEmpty
<1> QED BY <1>2, <1>3 DEF IsSuffix, IsPrefix, type

\* The places that Merge keeps have different URNs, if they have any, and every
\* URN is at one of them, before its other places.
LEMMA FirstPlacesProperties ==
    ASSUME NEW S, NEW all \in Seq(S)
    PROVE  /\ FirstPlaces(all) \subseteq 1..Len(all)
           /\ \A i, k \in FirstPlaces(all) : all[i].urn = all[k].urn /\ all[i].urn # NoUrn => i = k
           /\ \A i \in 1..Len(all) : \E k \in FirstPlaces(all) : all[k].urn = all[i].urn
           /\ \A i \in 1..Len(all) : all[i].urn = NoUrn => i \in FirstPlaces(all)
<1>1. DOMAIN all = 1..Len(all) /\ Len(all) \in Nat  BY LenProperties
<1>2. FirstPlaces(all) \subseteq 1..Len(all)  BY <1>1 DEF FirstPlaces
<1>3. ASSUME NEW i \in FirstPlaces(all), NEW k \in FirstPlaces(all),
             all[i].urn = all[k].urn, all[i].urn # NoUrn
      PROVE  i = k
  <2>1. ~(i < k)  BY <1>1, <1>2, <1>3 DEF FirstPlaces
  <2>2. ~(k < i)  BY <1>1, <1>2, <1>3 DEF FirstPlaces
  <2> QED BY <1>1, <1>2, <2>1, <2>2
<1>4. ASSUME NEW i \in 1..Len(all) PROVE \E k \in FirstPlaces(all) : all[k].urn = all[i].urn
  <2> DEFINE Same == {l \in 1..Len(all) : all[l].urn = all[i].urn}
  <2>1. Same \subseteq Nat /\ Same # {}  OBVIOUS
  <2> HIDE DEF Same
  <2>2. PICK l \in Same : \A m \in Same : l <= m  BY <2>1, LeastNumber
  <2>3. l \in 1..Len(all) /\ all[l].urn = all[i].urn  BY DEF Same
  <2>4. \A m \in 1..(l - 1) : all[m].urn # all[l].urn  BY <2>2, <2>3, <1>1 DEF Same
  <2>5. l \in FirstPlaces(all)  BY <2>3, <2>4, <1>1 DEF FirstPlaces
  <2> QED BY <2>3, <2>5
<1>5. \A i \in 1..Len(all) : all[i].urn = NoUrn => i \in FirstPlaces(all)
  BY <1>1 DEF FirstPlaces
<1> QED BY <1>2, <1>3, <1>4, <1>5

\* The last of the entities with a URN is the only one.
LEMMA GetTheOnlyOne ==
    ASSUME NEW S, NEW included \in Seq(S), NEW p \in 1..Len(included),
           \A i \in 1..Len(included) : included[i].urn = included[p].urn => i = p
    PROVE  Get(included, included[p].urn) = included[p]
<1> DEFINE places == {i \in DOMAIN included : included[i].urn = included[p].urn}
           found == Keep(included, places)
           at == [i \in 1..1 |-> p]
<1>1. Get(included, included[p].urn) = found[Len(found)]  BY DEF Get, WithUrn, Filter, Last
<1>2. DOMAIN included = 1..Len(included) /\ places \cap 1..Len(included) = {p}  BY LenProperties
<1>3. Enumerates(at, 1, {p})  BY DEF Enumerates
<1> HIDE DEF at, places
<1>6. Enumerates(at, 1, places \cap 1..Len(included))  BY <1>2, <1>3
<1>4. Len(found) = 1 /\ KeepsAt(at, found, included, places \cap 1..Len(included))
  BY <1>6, KeepIs
<1>5. found[1] = included[at[1]]  BY <1>4 DEF KeepsAt
<1> QED BY <1>1, <1>4, <1>5 DEF at

\* The first entity with its URN is the one that entities, over the merged
\* responses, keeps for that URN.
LEMMA SelectFirst ==
    ASSUME NEW S, NEW all \in Seq(S), NEW p \in 1..Len(all),
           \A k \in 1..(p - 1) : all[k].urn # all[p].urn
    PROVE  FoundFirst(all, p)
<1> DEFINE I == {i \in 1..Len(all) : all[i].urn = all[p].urn}
<1>2. p \in I /\ \A i \in I : p <= i  OBVIOUS
<1>3. \A x \in I : (\A y \in I : x <= y) => x = p  BY <1>2
<1> HIDE DEF I
<1>4. Min(I) = p  BY <1>2, <1>3 DEF Min
<1> QED BY <1>2, <1>4 DEF I, FoundFirst

\* What OneEntityPerUrn says of two responses, of any length.
LEMMA MergedOncePerUrn ==
    ASSUME NEW S, \A e \in S : e.type \in Seq(STRING), NEW first \in Seq(S), NEW second \in Seq(S)
    PROVE  OncePerUrn(first \o second, Merge(<<first, second>>))
<1> DEFINE all == first \o second
           F == FirstPlaces(all)
           merged == Merge(<<first, second>>)
           found == ByType(merged, {<<>>})
<1>1. all \in Seq(S) /\ FlattenSeq(<<first, second>>) = all  BY ConcatProperties, FlattenTwo
<1>2. merged = Keep(all, F)  BY <1>1 DEF Merge
<1> HIDE DEF all, merged
<1>3. /\ Len(all) \in Nat /\ DOMAIN all = 1..Len(all)
      /\ F \subseteq 1..Len(all)
      /\ \A i, k \in F : all[i].urn = all[k].urn /\ all[i].urn # NoUrn => i = k
      /\ \A i \in 1..Len(all) : \E k \in F : all[k].urn = all[i].urn
      /\ \A i \in 1..Len(all) : all[i].urn = NoUrn => i \in F
  BY <1>1, LenProperties, FirstPlacesProperties
<1>4. merged \in Seq(S) /\ \E at : KeepsAt(at, merged, all, F \cap 1..Len(all))
  BY <1>1, <1>2, KeepProperties
<1> HIDE DEF F
<1>5. PICK at : KeepsAt(at, merged, all, F)  BY <1>3, <1>4, F \cap 1..Len(all) = F
<1>6. Len(merged) \in Nat /\ DOMAIN merged = 1..Len(merged)  BY <1>4, LenProperties
<1>7. /\ \A i \in 1..Len(merged) : at[i] \in F /\ merged[i] = all[at[i]]
      /\ \A i, k \in 1..Len(merged) : i < k => at[i] < at[k]
      /\ \A p \in F : \E i \in 1..Len(merged) : at[i] = p  BY <1>5 DEF KeepsAt, Enumerates
<1>8. ASSUME NEW i \in 1..Len(merged), NEW k \in 1..Len(merged), at[i] = at[k] PROVE i = k
  <2>0. at[i] \in F /\ at[k] \in F  BY <1>7
  <2>1. at[i] \in Nat /\ at[k] \in Nat
    <3>1. F \subseteq Nat  BY <1>3
    <3> QED BY <2>0, <3>1
  <2>2. ~(i < k)  BY <2>1, <1>7, <1>8
  <2>3. ~(k < i)  BY <2>1, <1>7, <1>8
  <2> QED BY <2>2, <2>3, <1>6
<1>9. ASSUME NEW i \in 1..Len(merged), NEW k \in 1..Len(merged),
             merged[i].urn = merged[k].urn, merged[i].urn # NoUrn
      PROVE  i = k
  <2>1. at[i] \in F /\ at[k] \in F /\ merged[i] = all[at[i]] /\ merged[k] = all[at[k]]  BY <1>7
  <2>2. all[at[i]].urn = all[at[k]].urn /\ all[at[i]].urn # NoUrn  BY <2>1, <1>9
  <2>3. at[i] = at[k]  BY <2>1, <2>2, <1>3
  <2> QED BY <2>3, <1>8
<1>10. found \in Seq(S) /\ \E to : Finds(to, found, merged, 1..Len(merged))
  <2>1. \E to : Finds(to, found, merged, PlacesOfType(merged, {<<>>}))
    BY <1>4, ByTypeProperties
  <2>2. found \in Seq(S)  BY <1>4, ByTypeProperties
  <2>3. PlacesOfType(merged, {<<>>}) = 1..Len(merged)  BY <1>4, AllOfSomeType
  <2> QED BY <2>1, <2>2, <2>3
<1> HIDE DEF found
<1>11. PICK to : Finds(to, found, merged, 1..Len(merged))  BY <1>10
<1>12. Len(found) \in Nat /\ DOMAIN found = 1..Len(found)  BY <1>10, LenProperties
<1>13. /\ to \in [1..Len(found) -> 1..Len(merged)]
       /\ \A j \in 1..Len(found) : found[j] = merged[to[j]]
       /\ \A j, k \in 1..Len(found) : to[j] = to[k] => j = k
       /\ \A p \in 1..Len(merged) : \E j \in 1..Len(found) : to[j] = p  BY <1>11 DEF Finds
<1>14. Len(found) = Len(merged)
  <2>1. PICK n \in Nat, o \in Nat : n = Len(found) /\ o = Len(merged)  BY <1>6, <1>12
  <2>2. IsFiniteSet(1..n) /\ Cardinality(1..n) = n
    BY FS_Interval, 1 \in Int, n \in Int, n \in Nat
  <2>3. Cardinality(1..o) = o  BY FS_Interval, 1 \in Int, o \in Int, o \in Nat
  <2>4. to \in [1..n -> 1..o]  BY <2>1, <1>13
  <2>5. \A x, y \in 1..n : to[x] = to[y] => x = y  BY <2>1, <1>13
  <2>6. \A z \in 1..o : \E x \in 1..n : to[x] = z  BY <2>1, <1>13
  <2>7. Cardinality(1..n) = Cardinality(1..o)  BY <2>2, <2>4, <2>5, <2>6, SameSize
  <2> QED BY <2>1, <2>2, <2>3, <2>7
<1>15. ToSet(found) = ToSet(merged)
  <2>1. ASSUME NEW j \in 1..Len(found) PROVE found[j] \in ToSet(merged)
    <3>1. to[j] \in DOMAIN merged /\ found[j] = merged[to[j]]  BY <1>6, <1>13
    <3> QED BY <3>1 DEF ToSet
  <2>2. ASSUME NEW m \in 1..Len(merged) PROVE merged[m] \in ToSet(found)
    <3>1. PICK j \in 1..Len(found) : to[j] = m  BY <1>13
    <3>2. j \in DOMAIN found /\ found[j] = merged[m]  BY <3>1, <1>12, <1>13
    <3> QED BY <3>2 DEF ToSet
  <2> QED BY <2>1, <2>2, <1>6, <1>12 DEF ToSet
<1>16. ASSUME NEW i \in 1..Len(found), found[i].urn # NoUrn
       PROVE  /\ Get(merged, found[i].urn) = found[i]
              /\ \A k \in 1..Len(found) : found[k].urn = found[i].urn => k = i
              /\ LET I == {j \in 1..Len(all) : all[j].urn = found[i].urn}
                 IN found[i] = all[IF I # {} THEN Min(I) ELSE 0]
  <2> DEFINE m == to[i]
             p == at[m]
  <2>1. /\ m \in 1..Len(merged) /\ found[i] = merged[m]
        /\ p \in F /\ p \in 1..Len(all) /\ merged[m] = all[p]  BY <1>3, <1>7, <1>13
  <2>2. \A k \in 1..Len(merged) : merged[k].urn = merged[m].urn => k = m  BY <2>1, <1>9, <1>16
  <2>3. Get(merged, merged[m].urn) = merged[m]  BY <2>1, <2>2, <1>4, GetTheOnlyOne
  <2>4. ASSUME NEW k \in 1..Len(found), found[k].urn = found[i].urn PROVE k = i
    <3>1. to[k] \in 1..Len(merged) /\ merged[to[k]].urn = merged[m].urn  BY <2>1, <2>4, <1>13
    <3> QED BY <3>1, <2>2, <1>13
  <2>5. \A k \in 1..(p - 1) : all[k].urn # all[p].urn  BY <2>1, <1>16 DEF F, FirstPlaces
  <2> DEFINE I == {j \in 1..Len(all) : all[j].urn = all[p].urn}
  <2> HIDE DEF m, p
  <2>6. I # {} /\ Min(I) = p
    <3>1. p \in 1..Len(all) /\ \A k \in 1..(p - 1) : all[k].urn # all[p].urn  BY <2>1, <2>5
    <3>2. FoundFirst(all, p)  BY <3>1, <1>1, SelectFirst
    <3> QED BY <3>2 DEF FoundFirst
  <2>7. I = {j \in 1..Len(all) : all[j].urn = found[i].urn}  BY <2>1
  <2> HIDE DEF I
  <2>8. found[i] = all[IF I # {} THEN Min(I) ELSE 0]  BY <2>1, <2>6
  <2>9. Get(merged, found[i].urn) = found[i]  BY <2>1, <2>3
  <2> QED BY <2>4, <2>7, <2>8, <2>9
<1>17. ASSUME NEW i \in 1..Len(all), all[i].urn # NoUrn
       PROVE  \E k \in 1..Len(found) : found[k].urn = all[i].urn
  <2>1. PICK p \in F : all[p].urn = all[i].urn  BY <1>3
  <2>2. PICK m \in 1..Len(merged) : at[m] = p  BY <1>7
  <2>3. PICK k \in 1..Len(found) : to[k] = m  BY <1>13
  <2>4. found[k] = merged[m] /\ merged[m] = all[p]  BY <2>2, <2>3, <1>7, <1>13
  <2> QED BY <2>1, <2>4
<1>18. Cardinality({i \in 1..Len(all) : all[i].urn = NoUrn})
         = Cardinality({i \in 1..Len(found) : found[i].urn = NoUrn})
  <2> DEFINE A == {i \in 1..Len(found) : found[i].urn = NoUrn}
             B == {i \in 1..Len(all) : all[i].urn = NoUrn}
             f == [i \in A |-> at[to[i]]]
  <2>1. IsFiniteSet(1..Len(found))  BY <1>12, FS_Interval
  <2>2. IsFiniteSet(A)  BY <2>1, FS_Subset
  <2>3. f \in [A -> B]
    <3>1. ASSUME NEW j \in A PROVE at[to[j]] \in B
      <4>1. j \in 1..Len(found) /\ found[j].urn = NoUrn /\ to[j] \in 1..Len(merged)  BY <1>13
      <4>2. found[j] = merged[to[j]] /\ merged[to[j]] = all[at[to[j]]] /\ at[to[j]] \in F
        BY <4>1, <1>7, <1>13
      <4> QED BY <4>1, <4>2, <1>3
    <3> HIDE DEF A, B
    <3> QED BY <3>1
  <2>4. ASSUME NEW x \in A, NEW y \in A, f[x] = f[y] PROVE x = y
    <3>1. to[x] \in 1..Len(merged) /\ to[y] \in 1..Len(merged) /\ at[to[x]] = at[to[y]]
      BY <2>4, <1>13
    <3>2. to[x] = to[y]  BY <3>1, <1>8
    <3> QED BY <3>2, <1>13
  <2>5. ASSUME NEW z \in B PROVE \E x \in A : f[x] = z
    <3>1. z \in F  BY <1>3
    <3>2. PICK m \in 1..Len(merged) : at[m] = z  BY <3>1, <1>7
    <3>3. PICK k \in 1..Len(found) : to[k] = m  BY <1>13
    <3>4. k \in A  BY <3>2, <3>3, <1>7, <1>13
    <3> QED BY <3>2, <3>3, <3>4
  <2> HIDE DEF A, B, f
  <2>6. Cardinality(A) = Cardinality(B)  BY <2>2, <2>3, <2>4, <2>5, SameSize
  <2> QED BY <2>6 DEF A, B
<1> QED BY <1>3, <1>12, <1>14, <1>15, <1>16, <1>17, <1>18 DEF all, merged, found, OncePerUrn, SelectInSeq

\* The kinds of what a step reads.
LEMMA Kinds ==
    /\ \A section, items : ReadItems(section, items) => read'.kind = "items"
    /\ \A roles, order : ReadCareer(roles, order) => read'.kind = "career"
    /\ \A e : ReadEducation(e) => read'.kind = "education"
    /\ \A root : ReadCard(root) => read'.kind = "card"
    /\ \A others, card : ReadPerson(others, card) => read'.kind = "person"
    /\ \A before, company, place, after :
          ReadPage(before, company, place, after) => read'.kind = "page"
    /\ \A link : ReadLink(link) => read'.kind = "link"
    /\ \A first, second : ReadResponses(first, second) => read'.kind = "responses"
    /\ Forget => read'.kind = "nothing"
<1>1. ASSUME NEW section, NEW items, ReadItems(section, items) PROVE read'.kind = "items"
  BY <1>1 DEF ReadItems
<1>2. ASSUME NEW roles, NEW order, ReadCareer(roles, order) PROVE read'.kind = "career"
  BY <1>2 DEF ReadCareer
<1>3. ASSUME NEW e, ReadEducation(e) PROVE read'.kind = "education"  BY <1>3 DEF ReadEducation
<1>4. ASSUME NEW root, ReadCard(root) PROVE read'.kind = "card"  BY <1>4 DEF ReadCard
<1>5. ASSUME NEW others, NEW card, ReadPerson(others, card) PROVE read'.kind = "person"
  BY <1>5 DEF ReadPerson
<1>6. ASSUME NEW before, NEW company, NEW place, NEW after, ReadPage(before, company, place, after)
      PROVE  read'.kind = "page"  BY <1>6 DEF ReadPage
<1>7. ASSUME NEW link, ReadLink(link) PROVE read'.kind = "link"  BY <1>7 DEF ReadLink
<1>8. ASSUME NEW first, NEW second, ReadResponses(first, second) PROVE read'.kind = "responses"
  BY <1>8 DEF ReadResponses
<1>9. Forget => read'.kind = "nothing"  BY DEF Forget, Idle
<1> QED BY <1>1, <1>2, <1>3, <1>4, <1>5, <1>6, <1>7, <1>8, <1>9

\* Whatever the responses, merging them leaves one entity for each URN, and it is
\* the same entity whether it is looked up by URN or by type.
THEOREM EachUrnNamesOneEntity == Spec => []OneEntityPerUrn
<1> DEFINE S == UNION {ToSet(response) : response \in Responses}
<1>1. ASSUME NEW response \in Responses PROVE response \in Seq(S)
  <2>1. response \in Seq(ToSet(response)) /\ ToSet(response) \subseteq S  BY ResponsesAssumption
  <2> HIDE DEF S
  <2> QED BY <2>1
<1>2. ASSUME NEW e \in S PROVE e.type \in Seq(STRING)
  <2>1. PICK response \in Responses : e \in ToSet(response)  OBVIOUS
  <2>2. PICK i \in DOMAIN response : e = response[i]  BY <2>1 DEF ToSet
  <2> QED BY <2>2, ResponsesAssumption
<1> HIDE DEF S
<1>3. read = Idle => OneEntityPerUrn  BY DEF Idle, OneEntityPerUrn
<1>4. ASSUME NEW first \in Responses, NEW second \in Responses, ReadResponses(first, second)
      PROVE  OneEntityPerUrn'
  <2>1. /\ read'.first = first /\ read'.second = second
        /\ read'.merged = Merge(<<first, second>>)  BY <1>4 DEF ReadResponses
  <2>2. first \in Seq(S) /\ second \in Seq(S)  BY <1>1
  <2> QED BY <2>1, <2>2, <1>2, MergedOncePerUrn DEF OneEntityPerUrn
<1>5. ASSUME Next PROVE OneEntityPerUrn'
  <2>1. ASSUME read'.kind # "responses" PROVE OneEntityPerUrn'  BY <2>1 DEF OneEntityPerUrn
  <2> QED BY <1>4, <1>5, <2>1, Kinds DEF Next, Receive
<1>6. OneEntityPerUrn /\ UNCHANGED read => OneEntityPerUrn'  BY DEF OneEntityPerUrn
<1> QED BY <1>3, <1>5, <1>6, PTL DEF Spec

--------
(* Links. *)

\* What the slug is before the first question mark, hash or slash is a part of it,
\* before the first such piece.
LEMMA PartBefore ==
    ASSUME NEW S, NEW seq \in Seq(S), NEW I, I \subseteq 2..Len(seq), seq # <<>>
    PROVE  /\ CutBefore(seq, I) \in Seq(S)
           /\ \E m : IsPartBefore(CutBefore(seq, I), seq, I, m)
<1>1. Len(seq) \in Nat /\ Len(seq) # 0  BY LenProperties, EmptySeq
<1>2. CASE I = {}
  <2>1. CutBefore(seq, I) = seq  BY <1>2 DEF CutBefore
  <2>2. IsPartBefore(seq, seq, I, Len(seq))  BY <1>1, <1>2 DEF IsPartBefore
  <2> QED BY <2>1, <2>2
<1>3. CASE I # {}
  <2>1. I \subseteq Nat  BY <1>1
  <2>2. PICK c \in I : \A i \in I : c <= i  BY <1>3, <2>1, LeastNumber
  <2>3. Min(I) = c
    <3>1. \A x \in I : (\A y \in I : x <= y) => x = c  BY <2>1, <2>2
    <3> QED BY <2>2, <3>1 DEF Min
  <2>4. c \in 2..Len(seq) /\ c # 0 /\ c - 1 \in 1..Len(seq) /\ c \in Nat  BY <1>1, <2>2
  <2>5. CutBefore(seq, I) = SubSeq(seq, 1, c - 1)  BY <1>3, <2>3, <2>4 DEF CutBefore
  <2>6. /\ SubSeq(seq, 1, c - 1) \in Seq(S)
        /\ Len(SubSeq(seq, 1, c - 1)) = c - 1
        /\ \A i \in 1..(c - 1) : SubSeq(seq, 1, c - 1)[i] = seq[i]
    BY <1>1, <2>4, SubSeqProperties
  <2>7. \A i \in 1..(c - 1) : i \notin I  BY <2>1, <2>2, <2>4
  <2>8. IsPartBefore(SubSeq(seq, 1, c - 1), seq, I, c - 1)  BY <2>4, <2>6, <2>7 DEF IsPartBefore
  <2> QED BY <2>5, <2>6, <2>8
<1> QED BY <1>2, <1>3

\* A list of one value is that value alone.
LEMMA OfLengthOne ==
    ASSUME NEW S, NEW seq \in Seq(S), Len(seq) = 1
    PROVE  seq = <<seq[1]>>
<1>1. seq[1] \in S  BY LenProperties
<1>2. <<seq[1]>> \in Seq(S) /\ Len(<<seq[1]>>) = 1 /\ <<seq[1]>>[1] = seq[1]  BY <1>1
<1>3. \A i \in 1..1 : <<seq[1]>>[i] = seq[i]  BY <1>2
<1> QED BY <1>2, <1>3, SeqEqual

\* A list of two values is one and the other.
LEMMA OfLengthTwo ==
    ASSUME NEW S, NEW seq \in Seq(S), Len(seq) = 2
    PROVE  seq = <<seq[1], seq[2]>>
<1> DEFINE pair == <<seq[1], seq[2]>>
<1>1. seq[1] \in S /\ seq[2] \in S  BY LenProperties
<1>2. pair \in Seq(S) /\ Len(pair) = 2 /\ pair[1] = seq[1] /\ pair[2] = seq[2]  BY <1>1
<1>3. \A i \in 1..2 : i = 1 \/ i = 2  OBVIOUS
<1> HIDE DEF pair
<1>4. \A i \in 1..2 : pair[i] = seq[i]  BY <1>2, <1>3
<1> QED BY <1>2, <1>4, SeqEqual DEF pair

\* A list of three values is the three of them.
LEMMA OfLengthThree ==
    ASSUME NEW S, NEW seq \in Seq(S), Len(seq) = 3
    PROVE  seq = <<seq[1], seq[2], seq[3]>>
<1> DEFINE triple == <<seq[1], seq[2], seq[3]>>
<1>1. seq[1] \in S /\ seq[2] \in S /\ seq[3] \in S
  <2>1. \A i \in 1..3 : seq[i] \in S  BY LenProperties
  <2> QED BY <2>1
<1>2. triple \in Seq(S) /\ Len(triple) = 3
      /\ triple[1] = seq[1] /\ triple[2] = seq[2] /\ triple[3] = seq[3]  BY <1>1
<1>3. \A i \in 1..3 : i = 1 \/ i = 2 \/ i = 3  OBVIOUS
<1> HIDE DEF triple
<1>4. \A i \in 1..3 : triple[i] = seq[i]  BY <1>2, <1>3
<1> QED BY <1>2, <1>4, SeqEqual DEF triple

\* A name, with stray punctuation behind it, is stripped to the name.
LEMMA StrippedToName ==
    ASSUME NEW S, NEW slug \in Seq(S), slug # <<>>, slug[1] \notin Strays,
           \A i \in 2..Len(slug) : slug[i] \in Strays
    PROVE  Stripped(slug) = <<slug[1]>>
<1> DEFINE I == {i \in 1..Len(slug) : slug[i] \notin Strays}
<1>1. Len(slug) \in Nat /\ Len(slug) # 0  BY LenProperties, EmptySeq
<1>2. I = {1}
  <2>1. 1 \in I /\ \A i \in 1..Len(slug) : i = 1 \/ i \in 2..Len(slug)  BY <1>1
  <2> QED BY <2>1
<1>3. Stripped(slug) = SubSeq(slug, 1, IF I # {} THEN Max(I) ELSE 0)
  BY DEF Stripped, SelectLastInSeq
<1>4. Max({1}) = 1
  <2>1. \A x \in {1} : x >= 1  OBVIOUS
  <2>2. (CHOOSE x \in {1} : \A y \in {1} : x >= y) \in {1}  BY <2>1
  <2> QED BY <2>2 DEF Max
<1> HIDE DEF I
<1>5. Stripped(slug) = SubSeq(slug, 1, 1)  BY <1>2, <1>3, <1>4
<1>6. /\ SubSeq(slug, 1, 1) \in Seq(S) /\ Len(SubSeq(slug, 1, 1)) = 1
      /\ SubSeq(slug, 1, 1)[1] = slug[1]
  <2>1. \A i \in 1..1 : slug[i] \in S  BY <1>1, LenProperties
  <2>2. \A i \in 1..1 : SubSeq(slug, 1, 1)[i] = slug[1 + i - 1]
    BY <2>1, 1 \in Int, SubSeqProperties
  <2>3. SubSeq(slug, 1, 1) \in Seq(S) /\ Len(SubSeq(slug, 1, 1)) = 1
    BY <2>1, 1 \in Int, SubSeqProperties
  <2> QED BY <2>2, <2>3
<1> QED BY <1>5, <1>6, OfLengthOne

\* A name that something odd follows is cleaned to the name, unless it is a word
\* LinkedIn keeps for itself.
LEMMA CleanedToName ==
    ASSUME NEW S, NEW pieces \in Seq(S), NameFirst(pieces)
    PROVE  CleanSlug(pieces) = IF LowerPiece(pieces[1].text) \in Reserved THEN Refused
                               ELSE <<pieces[1].text>>
<1> DEFINE Texts1 == {e.text : e \in S}
           texts == Decoded(pieces)
           I == {i \in 1..Len(texts) : texts[i] \in Separators}
           part == UpTo(texts, LAMBDA c : c \in Separators)
           name == pieces[1].text
<1>1. Len(pieces) \in Nat /\ Len(pieces) # 0 /\ DOMAIN pieces = 1..Len(pieces)
      /\ \A i \in 1..Len(pieces) : pieces[i] \in S  BY LenProperties, EmptySeq DEF NameFirst
<1>2. texts \in Seq(Texts1) /\ Len(texts) = Len(pieces)
      /\ \A i \in 1..Len(pieces) : texts[i] = pieces[i].text  BY <1>1 DEF Decoded
<1>3. part = CutBefore(texts, I)  BY DEF UpTo, SelectInSeq, CutBefore
<1> HIDE DEF Texts1, texts, part
<1>4. I \subseteq 2..Len(texts)
  <2>1. \A i \in 1..Len(pieces) : i = 1 \/ i \in 2..Len(pieces)  BY <1>1
  <2>2. texts[1] \notin Separators /\ 1 \in 1..Len(pieces)  BY <1>1, <1>2 DEF NameFirst
  <2> QED BY <2>1, <2>2, <1>2
<1>5. texts # <<>>  BY <1>1, <1>2, EmptySeq
<1> HIDE DEF I
<1>6. part \in Seq(Texts1) /\ \E m : IsPartBefore(part, texts, I, m)
  BY <1>2, <1>3, <1>4, <1>5, PartBefore
<1>7. PICK m : IsPartBefore(part, texts, I, m)  BY <1>6
<1>8. m \in 1..Len(pieces) /\ Len(part) = m
      /\ \A i \in 1..m : part[i] = pieces[i].text /\ pieces[i].text \notin Separators
  <2>1. m \in 1..Len(pieces) /\ Len(part) = m /\ \A i \in 1..m : part[i] = texts[i] /\ i \notin I
    BY <1>2, <1>7 DEF IsPartBefore
  <2>2. \A i \in 1..m : i \in 1..Len(pieces)  BY <1>1, <2>1
  <2> QED BY <2>1, <2>2, <1>2 DEF I
<1>9. m \in Nat /\ 1 \in 1..m  BY <1>1, <1>8
<1>10. part # <<>> /\ part[1] = name /\ name \notin Strays
  BY <1>8, <1>9, EmptySeq DEF NameFirst
<1>11. ASSUME NEW i \in 2..Len(part) PROVE part[i] \in Strays
  <2>1. i \in 2..Len(pieces) /\ i \in 1..m /\ \A k \in 2..i : k \in 1..m  BY <1>1, <1>8, <1>9
  <2>2. \A k \in 2..i : pieces[k].text \notin Separators  BY <2>1, <1>8
  <2> QED BY <2>1, <2>2, <1>8 DEF NameFirst
<1>12. Stripped(part) = <<name>>  BY <1>6, <1>10, <1>11, StrippedToName
<1>13. Lowered(<<name>>) = <<LowerPiece(name)>>  BY DEF Lowered
<1>14. Lowered(<<name>>) \in {<<r>> : r \in Reserved} <=> LowerPiece(name) \in Reserved
  BY <1>13
<1>15. CleanSlug(pieces) = IF Lowered(Stripped(part)) \in {<<r>> : r \in Reserved}
                           THEN Refused ELSE Stripped(part)  BY DEF CleanSlug, part, texts
<1> QED BY <1>12, <1>14, <1>15

\* All references to a profile have its key, and what is none is refused.
LEMMA KeyOfLink ==
    ASSUME NEW link \in Links, NEW name, name = LowerPiece(link.slug[1].text)
    PROVE  CacheKey(ExtractPublicIdentifier(link)) =
             IF /\ name \notin Reserved
                /\ IF link.form = "bare" THEN ~Plain(link.slug, Separators \cup Strays)
                   ELSE IsLinkedInHost(link.host) /\ link.section = "in"
             THEN <<name>> ELSE Refused
<1> DEFINE S == ToSet(link.slug)
           pieces == link.slug
           text == pieces[1].text
<1>1. pieces \in Seq(S) /\ NameFirst(pieces) /\ ~pieces[1].encoded
  BY LinksAssumption DEF NameFirst
<1>2. CacheKey(Refused) = Refused /\ CacheKey(<<text>>) = <<name>>
  BY DEF CacheKey, Refused, Lowered
<1>3. CacheKey(CleanSlug(pieces)) = IF name \in Reserved THEN Refused ELSE <<name>>
  BY <1>1, <1>2, CleanedToName
<1>4. CASE link.form = "bare"  BY <1>2, <1>3, <1>4 DEF ExtractPublicIdentifier, FromBareSlug
<1>5. CASE link.form # "bare"
  <2> DEFINE I == {i \in 1..Len(pieces) : ~pieces[i].encoded /\ pieces[i].text \in Separators}
             slug == UpTo(pieces, LAMBDA p : ~p.encoded /\ p.text \in Separators)
  <2>1. slug = CutBefore(pieces, I)  BY DEF UpTo, SelectInSeq, CutBefore
  <2>2. ExtractPublicIdentifier(link) =
          IF IsLinkedInHost(link.host) /\ link.section = "in" /\ slug # <<>>
          THEN CleanSlug(slug) ELSE Refused  BY <1>5 DEF ExtractPublicIdentifier, FromUrl
  <2> HIDE DEF slug, S
  <2>3. Len(pieces) \in Nat /\ pieces # <<>> /\ Len(pieces) # 0
    BY <1>1, LenProperties, EmptySeq DEF NameFirst
  <2>4. I \subseteq 2..Len(pieces)
    <3>1. \A i \in 1..Len(pieces) : i = 1 \/ i \in 2..Len(pieces)  BY <2>3
    <3>2. text \notin Separators  BY <1>1 DEF NameFirst
    <3> QED BY <3>1, <3>2
  <2> HIDE DEF I
  <2>5. slug \in Seq(S) /\ \E m : IsPartBefore(slug, pieces, I, m)
    BY <1>1, <2>1, <2>3, <2>4, PartBefore
  <2>6. PICK m : IsPartBefore(slug, pieces, I, m)  BY <2>5
  <2>7. m \in 1..Len(pieces) /\ Len(slug) = m /\ \A i \in 1..m : slug[i] = pieces[i]
    BY <2>6 DEF IsPartBefore
  <2>8. slug # <<>> /\ slug[1] = pieces[1] /\ m \in Nat  BY <2>3, <2>7, EmptySeq
  <2>9. ASSUME NEW i \in 2..Len(slug)
        PROVE  slug[i].text \in Strays \/ \E k \in 2..i : slug[k].text \in Separators
    <3>1. i \in 2..Len(pieces) /\ i \in 1..m /\ \A k \in 2..i : k \in 1..m  BY <2>3, <2>7, <2>8
    <3> QED BY <3>1, <2>7, <1>1 DEF NameFirst
  <2>10. NameFirst(slug)  BY <2>8, <2>9, <1>1 DEF NameFirst
  <2>11. CacheKey(CleanSlug(slug)) = IF name \in Reserved THEN Refused ELSE <<name>>
    BY <2>5, <2>8, <2>10, <1>2, CleanedToName
  <2> QED BY <2>2, <2>8, <2>11, <1>2, <1>5
<1> QED BY <1>4, <1>5

\* However a link to a profile is written, and whatever follows it, the cache key is
\* that of the profile, and no other profile has it.
THEOREM EachProfileHasOneKey == Spec => []OneKeyPerProfile
<1>1. read = Idle => OneKeyPerProfile  BY DEF Idle, OneKeyPerProfile
<1>2. ASSUME NEW link \in Links, ReadLink(link) PROVE OneKeyPerProfile'
  <2>1. read'.link = link /\ read'.slug = ExtractPublicIdentifier(link)  BY <1>2 DEF ReadLink
  <2> QED BY <2>1, KeyOfLink DEF OneKeyPerProfile, IsLinkedInHost
<1>3. ASSUME Next PROVE OneKeyPerProfile'
  <2>1. ASSUME read'.kind # "link" PROVE OneKeyPerProfile'  BY <2>1 DEF OneKeyPerProfile
  <2> QED BY <1>2, <1>3, <2>1, Kinds DEF Next, Receive
<1>4. OneKeyPerProfile /\ UNCHANGED read => OneKeyPerProfile'  BY DEF OneKeyPerProfile
<1> QED BY <1>1, <1>3, <1>4, PTL DEF Spec

--------
(* The top card of a page. *)

\* The least of a set of numbers is Min of the library.
LEMMA Least ==
    ASSUME NEW I, I \subseteq Nat, NEW p \in I, \A i \in I : p <= i
    PROVE  Min(I) = p
<1>1. \A x \in I : (\A y \in I : x <= y) => x = p  OBVIOUS
<1> QED BY <1>1 DEF Min

\* The greatest of a set of numbers is Max of the library.
LEMMA Greatest ==
    ASSUME NEW I, I \subseteq Nat, NEW p \in I, \A i \in I : i <= p
    PROVE  Max(I) = p
<1>1. \A x \in I : (\A y \in I : x >= y) => x = p  OBVIOUS
<1>2. \A y \in I : p >= y  OBVIOUS
<1> QED BY <1>1, <1>2 DEF Max

\* Each line of such a page is at the place its part has.
LEMMA PlacesOfLines ==
    ASSUME NEW S, NEW before \in Seq(S), NEW name \in S, NEW card \in Seq(S), NEW contact \in S,
           NEW after \in Seq(S), NEW lines, Layout(lines, before, name, card, contact, after)
    PROVE  /\ lines \in Seq(S)
           /\ PlacedAs(lines, Len(before), name, card, contact, after)
<1> DEFINE b == Len(before)
           m == Len(card)
           a == Len(after)
           one == before \o <<name>>
           two == one \o card
           end == <<contact>> \o after
<1>1. b \in Nat /\ m \in Nat /\ a \in Nat  BY LenProperties
<1>2. <<name>> \in Seq(S) /\ Len(<<name>>) = 1 /\ <<contact>> \in Seq(S) /\ Len(<<contact>>) = 1
  OBVIOUS
<1>3. /\ one \in Seq(S) /\ Len(one) = b + 1
      /\ \A i \in 1..(b + 1) : one[i] = IF i <= b THEN before[i] ELSE <<name>>[i - b]
  BY <1>2, ConcatProperties
<1>4. one[b + 1] = name  BY <1>1, <1>3, (b + 1) - b = 1
<1> HIDE DEF one
<1>5. /\ two \in Seq(S) /\ Len(two) = b + 1 + m
      /\ \A i \in 1..(b + 1 + m) : two[i] = IF i <= b + 1 THEN one[i] ELSE card[i - (b + 1)]
  <2>1. one \in Seq(S) /\ Len(one) = b + 1 /\ Len(card) = m  BY <1>3
  <2>2. two = one \o card  OBVIOUS
  <2> HIDE DEF two, m, b
  <2>3. /\ two \in Seq(S) /\ Len(two) = Len(one) + Len(card)
        /\ \A i \in 1..(Len(one) + Len(card)) :
              two[i] = IF i <= Len(one) THEN one[i] ELSE card[i - Len(one)]
    BY <2>1, <2>2, ConcatProperties
  <2> QED BY <2>1, <2>3
<1>6. /\ end \in Seq(S) /\ Len(end) = 1 + a
      /\ \A i \in 1..(1 + a) : end[i] = IF i <= 1 THEN <<contact>>[i] ELSE after[i - 1]
  BY <1>2, ConcatProperties
<1>7. end[1] = contact /\ \A i \in 1..a : end[1 + i] = after[i]  BY <1>1, <1>6
<1> HIDE DEF two, end
<1>8. /\ lines \in Seq(S) /\ Len(lines) = (b + 1 + m) + (1 + a)
      /\ \A i \in 1..((b + 1 + m) + (1 + a)) :
            lines[i] = IF i <= b + 1 + m THEN two[i] ELSE end[i - (b + 1 + m)]
  BY <1>5, <1>6, ConcatProperties DEF Layout, two, one, end
<1>9. lines[b + 1] = two[b + 1] /\ two[b + 1] = one[b + 1]  BY <1>1, <1>5, <1>8
<1>10. ASSUME NEW i \in 1..m PROVE lines[b + 1 + i] = card[i]  BY <1>1, <1>5, <1>8
<1>11. lines[b + 1 + m + 1] = end[1]
  <2>1. /\ b + 1 + m + 1 \in 1..((b + 1 + m) + (1 + a)) /\ ~(b + 1 + m + 1 <= b + 1 + m)
        /\ (b + 1 + m + 1) - (b + 1 + m) = 1  BY <1>1
  <2> QED BY <1>8, <2>1
<1>12. ASSUME NEW i \in 1..a PROVE lines[b + 1 + m + 1 + i] = end[1 + i]  BY <1>1, <1>8
<1>13. Len(lines) = b + 1 + m + 1 + a  BY <1>1, <1>8
<1> QED BY <1>1, <1>4, <1>7, <1>8, <1>9, <1>10, <1>11, <1>12, <1>13 DEF PlacedAs

\* On a page where the name is where the card begins, the block that is read as the
\* card is the card.
LEMMA BlockIsCard ==
    ASSUME NEW S, NEW before, NEW line, NEW card, NEW contact, NEW after, NEW lines,
           CardPage(lines, before, line, card, contact, after, S)
    PROVE  /\ NameAt(lines, line.text) = Len(before) + 1
           /\ Block(SubSeqUpTo(lines, Len(before) + 2, Len(before) + 9), line.text) = card
<1> DEFINE b == Len(before)
           m == Len(card)
           a == Len(after)
           name == line.text
           I == {i \in 1..Len(lines) : lines[i].text = name}
<1>20. /\ before \in Seq(S) /\ line \in S /\ card \in Seq(S) /\ contact \in S /\ after \in Seq(S)
       /\ Layout(lines, before, line, card, contact, after)
       /\ contact.kind = "contact" /\ contact.text # line.text /\ Len(card) <= 7
       /\ \A i \in 1..Len(card) : card[i].kind # "contact" /\ card[i].text # line.text
       /\ \A i \in 1..Len(after) : after[i].text # line.text  BY DEF CardPage
<1>1. /\ lines \in Seq(S) /\ b \in Nat /\ m \in Nat /\ a \in Nat
      /\ Len(lines) = b + 1 + m + 1 + a
      /\ lines[b + 1] = line /\ lines[b + 1 + m + 1] = contact
      /\ \A i \in 1..m : lines[b + 1 + i] = card[i]
      /\ \A i \in 1..a : lines[b + 1 + m + 1 + i] = after[i]
  BY <1>20, PlacesOfLines DEF PlacedAs
<1> HIDE DEF b, m, a
<1>2. b + 1 \in I  BY <1>1
<1>3. ASSUME NEW i \in I PROVE i <= b + 1
  <2> SUFFICES ASSUME i > b + 1 PROVE FALSE  BY <1>1
  <2>1. i \in 1..(b + 1 + m + 1 + a) /\ lines[i].text = name  BY <1>1
  <2>2. CASE i <= b + 1 + m
    <3>1. i - (b + 1) \in 1..m /\ b + 1 + (i - (b + 1)) = i  BY <1>1, <2>1, <2>2
    <3>2. lines[i] = card[i - (b + 1)]  BY <1>1, <3>1
    <3> QED BY <2>1, <3>1, <3>2, <1>20 DEF m
  <2>3. CASE i = b + 1 + m + 1  BY <1>1, <2>1, <2>3, <1>20
  <2>4. CASE i > b + 1 + m + 1
    <3>1. i - (b + 1 + m + 1) \in 1..a /\ b + 1 + m + 1 + (i - (b + 1 + m + 1)) = i
      BY <1>1, <2>1, <2>4
    <3>2. lines[i] = after[i - (b + 1 + m + 1)]  BY <1>1, <3>1
    <3> QED BY <2>1, <3>1, <3>2, <1>20 DEF a
  <2> QED BY <1>1, <2>1, <2>2, <2>3, <2>4
<1>4. NameAt(lines, name) = b + 1
  <2>1. NameAt(lines, name) = IF I # {} THEN Max(I) ELSE 0  BY DEF NameAt, SelectLastInSeq
  <2>2. I \subseteq Nat  OBVIOUS
  <2> HIDE DEF I
  <2>3. Max(I) = b + 1  BY <1>2, <1>3, <2>2, Greatest
  <2> QED BY <2>1, <2>3, <1>2
<1> DEFINE e == IF Len(lines) < b + 9 THEN Len(lines) ELSE b + 9
           tail == SubSeqUpTo(lines, b + 2, b + 9)
           more == tail \o <<[kind |-> "contact"]>>
           J == {i \in 1..Len(more) : more[i].kind = "contact"}
           part == SubSeq(tail, 1, m)
<1>5. e \in Int /\ b + m + 2 <= e /\ e <= Len(lines)  BY <1>1, <1>20 DEF m
<1>6. tail = SubSeq(lines, b + 2, e)  BY DEF SubSeqUpTo
<1> HIDE DEF e, tail
<1>7. /\ tail \in Seq(S) /\ Len(tail) = e - (b + 1)
      /\ \A i \in 1..(e - (b + 1)) : tail[i] = lines[b + 1 + i]
  <2>1. b + 2 \in Int /\ \A i \in (b + 2)..e : lines[i] \in S
    <3>1. \A i \in (b + 2)..e : i \in 1..Len(lines)  BY <1>1, <1>5
    <3> QED BY <1>1, <3>1, LenProperties
  <2>2. /\ SubSeq(lines, b + 2, e) \in Seq(S)
        /\ Len(SubSeq(lines, b + 2, e)) = IF b + 2 <= e THEN e - (b + 2) + 1 ELSE 0
    BY <1>5, <2>1, SubSeqProperties
  <2>3. \A i \in 1..(e - (b + 2) + 1) : SubSeq(lines, b + 2, e)[i] = lines[(b + 2) + i - 1]
    BY <1>5, <2>1, SubSeqProperties
  <2>4. e - (b + 2) + 1 = e - (b + 1) /\ b + 2 <= e /\ \A i \in Int : (b + 2) + i - 1 = b + 1 + i
    BY <1>1, <1>5
  <2>5. \A i \in 1..(e - (b + 1)) : tail[i] = lines[b + 1 + i]
    <3> SUFFICES ASSUME NEW i \in 1..(e - (b + 1)) PROVE tail[i] = lines[b + 1 + i]  OBVIOUS
    <3>1. i \in 1..(e - (b + 2) + 1) /\ (b + 2) + i - 1 = b + 1 + i  BY <1>1, <1>5, <2>4
    <3> QED BY <2>3, <3>1, <1>6
  <2> QED BY <2>2, <2>4, <2>5, <1>6
<1>8. /\ e - (b + 1) \in Nat /\ m + 1 \in 1..(e - (b + 1))
      /\ \A i \in 1..m : i \in 1..(e - (b + 1))
  <2>1. b \in Nat /\ m \in Nat /\ e \in Int /\ m + 1 <= e - (b + 1)  BY <1>1, <1>5
  <2> QED BY <2>1
<1>9. tail[m + 1] = contact /\ \A i \in 1..m : tail[i] = card[i]
  <2>1. tail[m + 1] = lines[b + 1 + (m + 1)] /\ b + 1 + (m + 1) = b + 1 + m + 1
    BY <1>1, <1>7, <1>8
  <2>2. \A i \in 1..m : tail[i] = lines[b + 1 + i]  BY <1>7, <1>8
  <2> QED BY <1>1, <2>1, <2>2
<1>10. /\ Len(more) = e - (b + 1) + 1
       /\ \A i \in 1..(e - (b + 1)) : more[i] = tail[i]
  <2> DEFINE R == S \cup {[kind |-> "contact"]}
  <2>1. tail \in Seq(R) /\ <<[kind |-> "contact"]>> \in Seq(R)
        /\ Len(<<[kind |-> "contact"]>>) = 1  BY <1>7
  <2> HIDE DEF R
  <2>2. /\ Len(more) = Len(tail) + 1
        /\ \A i \in 1..(Len(tail) + 1) :
              more[i] = IF i <= Len(tail) THEN tail[i]
                        ELSE <<[kind |-> "contact"]>>[i - Len(tail)]
    BY <2>1, ConcatProperties
  <2>3. \A i \in 1..(e - (b + 1)) : i \in 1..(e - (b + 1) + 1) /\ i <= e - (b + 1)  BY <1>8
  <2> HIDE DEF more
  <2> QED BY <2>2, <2>3, <1>7
<1> HIDE DEF more
<1>11. m + 1 \in J /\ \A i \in J : m + 1 <= i
  <2>1. m + 1 \in J  BY <1>8, <1>9, <1>10, <1>20
  <2>2. \A i \in 1..m : more[i].kind # "contact"  BY <1>8, <1>9, <1>10, <1>20 DEF m
  <2> QED BY <1>1, <2>1, <2>2
<1>12. Min(J) = m + 1 /\ J # {}
  <2>1. J \subseteq Nat  OBVIOUS
  <2> HIDE DEF J
  <2> QED BY <1>11, <2>1, Least
<1>13. part = card
  <2>1. \A i \in 1..m : tail[i] \in S  BY <1>7, <1>8, LenProperties
  <2>2. /\ part \in Seq(S) /\ Len(part) = IF 1 <= m THEN m - 1 + 1 ELSE 0
        /\ \A i \in 1..(m - 1 + 1) : part[i] = tail[1 + i - 1]
    BY <1>1, <2>1, SubSeqProperties
  <2>3. (IF 1 <= m THEN m - 1 + 1 ELSE 0) = m /\ m - 1 + 1 = m
        /\ \A i \in 1..m : 1 + i - 1 = i  BY <1>1
  <2>4. Len(part) = m /\ \A i \in 1..m : part[i] = card[i]  BY <2>2, <2>3, <1>9
  <2> HIDE DEF part
  <2> QED BY <2>2, <2>4, <1>20, SeqEqual DEF m
<1> DEFINE places == {i \in DOMAIN card : card[i].text # name}
<1>14. Block(tail, name) = Keep(card, places)
  <2>1. Block(tail, name) =
          LET kept == SubSeq(tail, 1, (IF J # {} THEN Min(J) ELSE 0) - 1)
          IN  Keep(kept, {i \in DOMAIN kept : kept[i].text # name})
    BY DEF Block, SelectInSeq, Filter, more, J
  <2>2. (IF J # {} THEN Min(J) ELSE 0) - 1 = m  BY <1>1, <1>12
  <2> QED BY <2>1, <2>2, <1>13
<1>15. Keep(card, places) = card
  <2>1. \A i \in 1..Len(card) : i \in places  BY <1>20, LenProperties
  <2> QED BY <2>1, <1>20, KeepAll
<1> QED BY <1>4, <1>14, <1>15 DEF b, tail

\* What is read off a card with and without a company and a place.
LEMMA FormsOfCards ==
    ASSUME NEW h, NEW c, NEW p, c.kind # "place", p.kind = "place"
    PROVE  /\ TopCardIn(<<h>>) = [headline |-> h.text, company |-> <<>>, place |-> <<>>]
           /\ TopCardIn(<<h, c>>) = [headline |-> h.text, company |-> c.text, place |-> <<>>]
           /\ TopCardIn(<<h, p>>) = [headline |-> h.text, company |-> <<>>, place |-> p.text]
           /\ TopCardIn(<<h, c, p>>) = [headline |-> h.text, company |-> c.text, place |-> p.text]
<1> DEFINE I(rest) == {i \in 1..Len(rest) : rest[i].kind = "place"}
           at(rest) == IF I(rest) # {} THEN Min(I(rest)) ELSE 0
<1>1. ASSUME NEW block, block # <<>>
      PROVE  TopCardIn(block) = TopCardAs(LineText(First(block)), Tail(block), at(Tail(block)))
  BY <1>1 DEF TopCardIn, SelectInSeq
<1>2. /\ Tail(<<h>>) = <<>> /\ Tail(<<h, c>>) = <<c>> /\ Tail(<<h, p>>) = <<p>>
      /\ Tail(<<h, c, p>>) = <<c, p>>  OBVIOUS
<1>3. /\ LineText(First(<<h>>)) = h.text /\ LineText(First(<<h, c>>)) = h.text
      /\ LineText(First(<<h, p>>)) = h.text /\ LineText(First(<<h, c, p>>)) = h.text
  BY DEF LineText, First
<1>4. I(<<>>) = {} /\ I(<<c>>) = {} /\ I(<<p>>) = {1} /\ I(<<c, p>>) = {2}
  <2>1. I(<<>>) = {}  OBVIOUS
  <2>2. I(<<c>>) = {}  BY 1..1 = {1}
  <2>3. I(<<p>>) = {1}  BY 1..1 = {1}
  <2>4. I(<<c, p>>) = {2}  BY 1..2 = {1, 2}
  <2> QED BY <2>1, <2>2, <2>3, <2>4
<1>5. Min({1}) = 1 /\ Min({2}) = 2  BY Least
<1>6. at(<<>>) = 0 /\ at(<<c>>) = 0 /\ at(<<p>>) = 1 /\ at(<<c, p>>) = 2  BY <1>4, <1>5
<1> HIDE DEF at
<1>7. TopCardIn(<<h>>) = TopCardAs(h.text, <<>>, 0)  BY <1>1, <1>2, <1>3, <1>6
<1>8. TopCardIn(<<h, c>>) = TopCardAs(h.text, <<c>>, 0)  BY <1>1, <1>2, <1>3, <1>6
<1>9. TopCardIn(<<h, p>>) = TopCardAs(h.text, <<p>>, 1)  BY <1>1, <1>2, <1>3, <1>6
<1>10. TopCardIn(<<h, c, p>>) = TopCardAs(h.text, <<c, p>>, 2)  BY <1>1, <1>2, <1>3, <1>6
<1>11. TopCardAs(h.text, <<>>, 0) = [headline |-> h.text, company |-> <<>>, place |-> <<>>]
  BY DEF TopCardAs, Company, LineText, First
<1>12. TopCardAs(h.text, <<c>>, 0) = [headline |-> h.text, company |-> c.text, place |-> <<>>]
  BY DEF TopCardAs, Company, LineText, First
<1>13. TopCardAs(h.text, <<p>>, 1) = [headline |-> h.text, company |-> <<>>, place |-> p.text]
  BY DEF TopCardAs, Company, LineText, First
<1>14. TopCardAs(h.text, <<c, p>>, 2) = [headline |-> h.text, company |-> c.text, place |-> p.text]
  BY DEF TopCardAs, Company
<1> QED BY <1>7, <1>8, <1>9, <1>10, <1>11, <1>12, <1>13, <1>14

\* Without inlined data a page is read by its lines.
LEMMA RenderedPage ==
    ASSUME NEW page, page.authwall = FALSE, page.payloads = <<>>, page.first = SubjectName,
           page.last = <<>>, NEW id
    PROVE  /\ HtmlTier(page, id).outcome = "read"
           /\ HtmlTier(page, id).basics.headline
                = HeadlineAndLocation(page.lines, SubjectName).headline
<1> DEFINE rendered == RenderedBasics(page, id)
           choice == Choice(InlinedBasics(<<>>, id), InlinedUrn(<<>>), rendered, page)
<1>1. Merge(page.payloads) = <<>>
  <2>1. FlattenSeq(<<>>) = <<>>  BY DEF FlattenSeq
  <2>2. <<>> \in Seq({}) /\ FirstPlaces(<<>>) \cap 1..Len(<<>>) = {}  OBVIOUS
  <2>3. Keep(<<>>, FirstPlaces(<<>>)) = <<>>  BY <2>2, KeepNone
  <2> QED BY <2>1, <2>3 DEF Merge
<1>2. HtmlTier(page, id) = [outcome |-> Outcome(page, choice.basics), basics |-> choice.basics,
                            urn |-> choice.urn]  BY <1>1 DEF HtmlTier
<1>3. InlinedBasics(<<>>, id).full = <<>>  BY DEF InlinedBasics, HasProfileContent, Nobody
<1>4. FullName(page) = SubjectName /\ SubjectName # <<>>  BY DEF FullName, SubjectName, Orelse
<1>5. /\ rendered.full = SubjectName
      /\ rendered.headline = HeadlineAndLocation(page.lines, SubjectName).headline
  BY <1>4 DEF RenderedBasics, Nobody
<1> HIDE DEF rendered
<1>6. choice.basics = rendered  BY <1>3, <1>4, <1>5 DEF Choice
<1> HIDE DEF choice
<1>7. Outcome(page, choice.basics) = "read"  BY <1>4, <1>5, <1>6 DEF Outcome
<1> QED BY <1>2, <1>5, <1>6, <1>7

\* A card with and without a company and a place.
LEMMA JoinedLines ==
    ASSUME NEW h, NEW c, NEW p
    PROVE  /\ (<<h>> \o <<>>) \o <<>> = <<h>>
           /\ (<<h>> \o <<c>>) \o <<>> = <<h, c>>
           /\ (<<h>> \o <<>>) \o <<p>> = <<h, p>>
           /\ (<<h>> \o <<c>>) \o <<p>> = <<h, c, p>>
<1> DEFINE S == {h, c, p}
<1>1. <<h>> \in Seq(S) /\ <<h, c>> \in Seq(S)  OBVIOUS
<1>2. /\ <<h>> \in Seq(S) /\ <<c>> \in Seq(S) /\ <<p>> \in Seq(S) /\ <<h, p>> \in Seq(S)
      /\ <<h, c, p>> \in Seq(S)  OBVIOUS
<1> HIDE DEF S
<1>4. <<h>> \o <<c>> = <<h, c>>
  <2>1. /\ <<h>> \o <<c>> \in Seq(S) /\ Len(<<h>> \o <<c>>) = 2
        /\ \A i \in 1..2 : (<<h>> \o <<c>>)[i] = IF i <= 1 THEN <<h>>[i] ELSE <<c>>[i - 1]
    BY <1>2, ConcatProperties
  <2>2. (<<h>> \o <<c>>)[1] = h /\ (<<h>> \o <<c>>)[2] = c  BY <2>1, 2 - 1 = 1
  <2> QED BY <2>1, <2>2, OfLengthTwo
<1>5. <<h>> \o <<p>> = <<h, p>>
  <2>1. /\ <<h>> \o <<p>> \in Seq(S) /\ Len(<<h>> \o <<p>>) = 2
        /\ \A i \in 1..2 : (<<h>> \o <<p>>)[i] = IF i <= 1 THEN <<h>>[i] ELSE <<p>>[i - 1]
    BY <1>2, ConcatProperties
  <2>2. (<<h>> \o <<p>>)[1] = h /\ (<<h>> \o <<p>>)[2] = p  BY <2>1, 2 - 1 = 1
  <2> QED BY <2>1, <2>2, OfLengthTwo
<1>6. <<h, c>> \o <<p>> = <<h, c, p>>
  <2> DEFINE t == <<h, c>> \o <<p>>
  <2>1. /\ t \in Seq(S) /\ Len(t) = 3
        /\ \A i \in 1..3 : t[i] = IF i <= 2 THEN <<h, c>>[i] ELSE <<p>>[i - 2]
    BY <1>1, <1>2, ConcatProperties
  <2> HIDE DEF t
  <2>2. t[1] = h /\ t[2] = c /\ t[3] = p  BY <2>1
  <2> QED BY <2>1, <2>2, OfLengthThree DEF t
<1>3. <<h>> \o <<>> = <<h>> /\ <<h, c>> \o <<>> = <<h, c>>  BY <1>1, ConcatEmptySeq
<1> QED BY <1>3, <1>4, <1>5, <1>6

\* On a rendered page, between whatever navigation and whatever follows, the top card
\* of the person is found and read as it was written.
THEOREM TopCardIsFound == Spec => []TopCardFound
<1> DEFINE Marks == {[kind |-> k, text |-> <<Word(k)>>] : k \in {"text", "place"}}
           Named1 == [kind |-> "text", text |-> SubjectName]
           Lines == Marks \cup {Named1}
           here == <<Word("here")>>
           h == [kind |-> "text", text |-> SubjectHeadline]
           c == [kind |-> "text", text |-> here]
           p == [kind |-> "place", text |-> here]
           contact == [kind |-> "contact", text |-> <<Word("contact")>>]
           S == Lines \cup {h, c, p, contact}
<1>1. ASSUME NEW k, k # "ada" PROVE <<Word(k)>> # SubjectName
  <2>1. Word(k) # Word("ada")  BY <1>1 DEF Word
  <2>2. <<Word(k)>>[1] # <<Word("ada")>>[1]  BY <2>1
  <2> QED BY <2>2 DEF SubjectName
<1>2. /\ h.text # SubjectName /\ c.text # SubjectName /\ p.text # SubjectName
      /\ contact.text # SubjectName  BY <1>1 DEF SubjectHeadline
<1> HIDE DEF here, Marks
<1>3. read = Idle => TopCardFound  BY DEF Idle, TopCardFound
<1>4. ASSUME NEW before \in Lists(Lines), NEW after \in Lists(Lines),
             NEW company \in AtMostOne({here}), NEW place \in AtMostOne({here}),
             \A i \in DOMAIN after : after[i].text # SubjectName,
             ReadPage(before, company, place, after)
      PROVE  TopCardFound'
  <2> DEFINE lines == PageLines(before, company, place, after)
             C == [i \in DOMAIN company |-> [kind |-> "text", text |-> company[i]]]
             P == [i \in DOMAIN place |-> [kind |-> "place", text |-> place[i]]]
             card == (<<h>> \o C) \o P
             found == HeadlineAndLocation(lines, SubjectName)
  <2>1. /\ read'.company = company /\ read'.place = place /\ read'.found = found
        /\ read'.html.outcome = "read" /\ read'.html.basics.headline = found.headline
    <3> DEFINE page == [authwall |-> FALSE, payloads |-> <<>>, lines |-> lines,
                        first |-> SubjectName, last |-> <<>>, title |-> <<>>,
                        urn |-> Urn("fsd_profile", "ada")]
    <3>1. /\ read'.company = company /\ read'.place = place /\ read'.found = found
          /\ read'.html = HtmlTier(page, SubjectName)  BY <1>4 DEF ReadPage
    <3>2. /\ page.authwall = FALSE /\ page.payloads = <<>> /\ page.first = SubjectName
          /\ page.last = <<>> /\ page.lines = lines  OBVIOUS
    <3> HIDE DEF page, lines
    <3>3. /\ HtmlTier(page, SubjectName).outcome = "read"
          /\ HtmlTier(page, SubjectName).basics.headline
               = HeadlineAndLocation(page.lines, SubjectName).headline
      BY <3>2, RenderedPage
    <3> QED BY <3>1, <3>2, <3>3
  <2>2. before \in Seq(S) /\ after \in Seq(S)
    <3>1. before \in Seq(Lines) /\ after \in Seq(Lines)  BY DEF Lists
    <3> HIDE DEF Lines, h, c, p, contact
    <3> QED BY <3>1
  <2>3. (company = <<>> /\ C = <<>>) \/ (company = <<here>> /\ C = <<c>>)  BY DEF AtMostOne
  <2>4. (place = <<>> /\ P = <<>>) \/ (place = <<here>> /\ P = <<p>>)  BY DEF AtMostOne
  <2>5. C \in Seq(S) /\ P \in Seq(S) /\ <<h>> \in Seq(S) /\ Named1 \in S /\ contact \in S
    BY <2>3, <2>4
  <2>6. lines = (((before \o <<Named1, h>>) \o C) \o P) \o <<contact>> \o after
    BY DEF PageLines, Named1
  <2> HIDE DEF lines, C, P, S, Lines
  <2>7. Layout(lines, before, Named1, card, contact, after)
    <3> HIDE DEF h, contact, Named1
    <3>1. /\ <<Named1, h>> = <<Named1>> \o <<h>> /\ <<Named1>> \in Seq(S) /\ <<contact>> \in Seq(S)
          /\ <<h>> \in Seq(S)  BY <2>5
    <3>2. before \o <<Named1, h>> = (before \o <<Named1>>) \o <<h>>
      BY <2>2, <3>1, ConcatAssociative
    <3> DEFINE b1 == before \o <<Named1>>
    <3>3. b1 \in Seq(S) /\ b1 \o <<h>> \in Seq(S) /\ <<h>> \o C \in Seq(S)
      BY <2>2, <2>5, <3>1, ConcatProperties
    <3>4. (b1 \o <<h>>) \o C = b1 \o (<<h>> \o C)
      <4> HIDE DEF b1
      <4> QED BY <2>5, <3>1, <3>3, ConcatAssociative
    <3>5. (b1 \o (<<h>> \o C)) \o P = b1 \o ((<<h>> \o C) \o P)
      <4> HIDE DEF b1
      <4> QED BY <2>5, <3>3, ConcatAssociative
    <3>6. b1 \o card \in Seq(S)
      <4>1. card \in Seq(S)  BY <2>5, <3>3, ConcatProperties
      <4> HIDE DEF b1, card
      <4> QED BY <3>3, <4>1, ConcatProperties
    <3>7. ((b1 \o card) \o <<contact>>) \o after = (b1 \o card) \o (<<contact>> \o after)
      <4> HIDE DEF b1, card
      <4>1. after \in Seq(S)  BY <2>2
      <4> QED BY <4>1, <3>1, <3>6, ConcatAssociative
    <3> QED BY <2>6, <3>2, <3>4, <3>5, <3>7 DEF Layout
  <2>8. \/ company = <<>> /\ place = <<>> /\ card = <<h>>
        \/ company = <<here>> /\ place = <<>> /\ card = <<h, c>>
        \/ company = <<>> /\ place = <<here>> /\ card = <<h, p>>
        \/ company = <<here>> /\ place = <<here>> /\ card = <<h, c, p>>
    <3> HIDE DEF h, c, p
    <3>1. /\ (<<h>> \o <<>>) \o <<>> = <<h>> /\ (<<h>> \o <<c>>) \o <<>> = <<h, c>>
          /\ (<<h>> \o <<>>) \o <<p>> = <<h, p>> /\ (<<h>> \o <<c>>) \o <<p>> = <<h, c, p>>
      BY JoinedLines
    <3> HIDE DEF here
    <3>2. CASE company = <<>> /\ C = <<>>  BY <2>4, <3>1, <3>2
    <3>3. CASE company = <<here>> /\ C = <<c>>  BY <2>4, <3>1, <3>3
    <3> QED BY <2>3, <3>2, <3>3
  <2> HIDE DEF card
  <2>9. card \in Seq(S) /\ Len(card) <= 7
        /\ \A i \in 1..Len(card) : card[i] \in {h, c, p}
    <3>1. h \in S /\ c \in S /\ p \in S  BY DEF S
    <3> HIDE DEF h, c, p
    <3>2. CASE card = <<h>>  BY <3>1, <3>2
    <3>3. CASE card = <<h, c>>  BY <3>1, <3>3
    <3>4. CASE card = <<h, p>>  BY <3>1, <3>4
    <3>5. CASE card = <<h, c, p>>  BY <3>1, <3>5
    <3> QED BY <2>8, <3>2, <3>3, <3>4, <3>5
  <2>10. \A i \in 1..Len(card) : card[i].kind # "contact" /\ card[i].text # SubjectName
    <3>1. \A x \in {h, c, p} : x.kind # "contact" /\ x.text # SubjectName  BY <1>2
    <3> QED BY <2>9, <3>1
  <2>11. \A i \in 1..Len(after) : after[i].text # SubjectName  BY <1>4, <2>2
  <2>12. /\ NameAt(lines, SubjectName) = Len(before) + 1
         /\ Block(SubSeqUpTo(lines, Len(before) + 2, Len(before) + 9), SubjectName) = card
    <3>1. Named1.text = SubjectName /\ contact.kind = "contact"  OBVIOUS
    <3> HIDE DEF Named1, contact
    <3>2. /\ contact.text # Named1.text
          /\ \A i \in 1..Len(card) : card[i].kind # "contact" /\ card[i].text # Named1.text
          /\ \A i \in 1..Len(after) : after[i].text # Named1.text
      BY <3>1, <1>2, <2>10, <2>11
    <3>3. /\ NameAt(lines, Named1.text) = Len(before) + 1
          /\ Block(SubSeqUpTo(lines, Len(before) + 2, Len(before) + 9), Named1.text) = card
      <4>1. CardPage(lines, before, Named1, card, contact, after, S)
        BY <3>1, <3>2, <2>2, <2>5, <2>7, <2>9 DEF CardPage
      <4> QED BY <4>1, BlockIsCard
    <3> QED BY <3>1, <3>3
  <2>13. found = TopCardIn(card)
    <3>1. /\ Len(before) + 1 # 0 /\ (Len(before) + 1) + 1 = Len(before) + 2
          /\ (Len(before) + 1) + 8 = Len(before) + 9  BY <2>2, LenProperties
    <3> QED BY <2>12, <3>1 DEF HeadlineAndLocation
  <2>14. /\ FlattenSeq(<<>>) = <<>> /\ FlattenSeq(<<here>>) = here
    <3>1. here \in Seq({Word("here")})  BY DEF here
    <3> QED BY <3>1, FlattenOne DEF FlattenSeq
  <2>15. found = [headline |-> SubjectHeadline, company |-> FlattenSeq(company),
                  place |-> FlattenSeq(place)]
    <3>1. c.kind # "place" /\ p.kind = "place"  OBVIOUS
    <3>2. /\ h.text = SubjectHeadline /\ c.text = here /\ p.text = here  OBVIOUS
    <3> HIDE DEF h, c, p
    <3>4. /\ TopCardIn(<<h>>) = [headline |-> h.text, company |-> <<>>, place |-> <<>>]
          /\ TopCardIn(<<h, c>>) = [headline |-> h.text, company |-> c.text, place |-> <<>>]
          /\ TopCardIn(<<h, p>>) = [headline |-> h.text, company |-> <<>>, place |-> p.text]
          /\ TopCardIn(<<h, c, p>>) = [headline |-> h.text, company |-> c.text, place |-> p.text]
      BY <3>1, FormsOfCards
    <3> QED BY <2>8, <2>13, <2>14, <3>2, <3>4
  <2> QED BY <2>1, <2>15 DEF TopCardFound
<1>5. ASSUME Next PROVE TopCardFound'
  <2>1. ASSUME read'.kind # "page" PROVE TopCardFound'  BY <2>1 DEF TopCardFound
  <2>2. \/ read'.kind # "page"
        \/ \E before, after \in Lists(Lines) : \E company, place \in AtMostOne({here}) :
              /\ \A i \in DOMAIN after : after[i].text # SubjectName
              /\ ReadPage(before, company, place, after)
    BY <1>5, Kinds DEF Next, Receive, here, Marks
  <2> HIDE DEF Lines
  <2> QED BY <2>1, <2>2, <1>4
<1>6. TopCardFound /\ UNCHANGED read => TopCardFound'  BY DEF TopCardFound
<1> QED BY <1>3, <1>5, <1>6, PTL DEF Spec

--------
(* The first of what is found. *)

\* The first of a flattened list is the first of its first list.
LEMMA FlattenFirst ==
    ASSUME NEW S, NEW seqs \in Seq(Seq(S)), seqs # <<>>, seqs[1] # <<>>
    PROVE  FlattenSeq(seqs) # <<>> /\ FlattenSeq(seqs)[1] = seqs[1][1]
<1> DEFINE flat == FlattenSeq(seqs)
<1>1. flat \in Seq(S) /\ \E off : FlattensAt(off, flat, seqs)  BY FlattenProperties
<1> HIDE DEF flat
<1>2. PICK off : FlattensAt(off, flat, seqs)  BY <1>1
<1>3. 1 \in 1..Len(seqs) /\ seqs[1] \in Seq(S) /\ Len(seqs) \in Nat  BY LenProperties, EmptySeq
<1>4. Len(seqs[1]) \in Nat /\ Len(seqs[1]) # 0 /\ Len(flat) \in Nat
  BY <1>1, <1>3, LenProperties, EmptySeq
<1>5. /\ \A i \in 1..Len(seqs) : off[i] \in Nat
      /\ \A k \in 1..Len(seqs[1]) :
            off[1] + k \in 1..Len(flat) /\ flat[off[1] + k] = seqs[1][k]
      /\ \A j \in 1..Len(flat) :
            \E i \in 1..Len(seqs) : \E k \in 1..Len(seqs[i]) : j = off[i] + k
      /\ \A i \in 1..Len(seqs) : 1 < i => off[1] + Len(seqs[1]) <= off[i]
  BY <1>2, <1>3 DEF FlattensAt
<1>6. 1 \in 1..Len(flat)
  <2>1. off[1] + 1 \in 1..Len(flat) /\ off[1] \in Nat  BY <1>3, <1>4, <1>5
  <2> QED BY <2>1, <1>4
<1>7. PICK i \in 1..Len(seqs) : \E k \in 1..Len(seqs[i]) : 1 = off[i] + k  BY <1>5, <1>6
<1>8. off[i] = 0
  <2>1. PICK k \in 1..Len(seqs[i]) : 1 = off[i] + k  BY <1>7
  <2>2. off[i] \in Nat /\ k \in Nat /\ k >= 1  BY <1>5, <2>1
  <2> QED BY <2>1, <2>2
<1>9. i = 1
  <2>1. 1 < i => off[1] + Len(seqs[1]) <= off[i]  BY <1>5
  <2>2. off[1] \in Nat  BY <1>3, <1>5
  <2> QED BY <1>3, <1>4, <1>7, <1>8, <2>1, <2>2
<1>10. flat[off[1] + 1] = seqs[1][1]  BY <1>4, <1>5
<1>11. flat[1] = seqs[1][1]  BY <1>8, <1>9, <1>10, 0 + 1 = 1
<1> QED BY <1>1, <1>4, <1>6, <1>11, EmptySeq DEF flat

\* An entity at the head of a response is the first of those found by its type.
LEMMA ByTypeFirst ==
    ASSUME NEW S, NEW included \in Seq(S), included # <<>>, NEW suffixes,
           \E s \in suffixes : IsSuffix(s, included[1].type)
    PROVE  ByType(included, suffixes) # <<>> /\ ByType(included, suffixes)[1] = included[1]
<1>1. Len(included) \in Nat /\ Len(included) # 0 /\ DOMAIN included = 1..Len(included)
  BY LenProperties, EmptySeq
<1>2. PICK types \in Seq({e.type : e \in S}) : Asks(types, included, suffixes)  BY ByTypeAsks
<1> DEFINE seqs == [i \in DOMAIN types |-> Keep(included, HavingType(included, types[i]))]
<1>3. /\ ByType(included, suffixes) = FlattenSeq(seqs)
      /\ 1 \in PlacesOfType(included, suffixes) => types # <<>> /\ types[1] = included[1].type
  BY <1>2 DEF Asks
<1>4. types # <<>> /\ types[1] = included[1].type  BY <1>1, <1>3 DEF PlacesOfType
<1>5. 1 \in 1..Len(types) /\ Len(types) \in Nat /\ DOMAIN types = 1..Len(types)
  BY <1>4, LenProperties, EmptySeq
<1>6. 1 \in HavingType(included, types[1])  BY <1>1, <1>4 DEF HavingType
<1>7. /\ seqs \in Seq(Seq(S)) /\ Len(seqs) = Len(types)
      /\ seqs[1] = Keep(included, HavingType(included, types[1]))
  <2>1. \A i \in 1..Len(types) : Keep(included, HavingType(included, types[i])) \in Seq(S)
    BY KeepProperties
  <2> QED BY <2>1, <1>5
<1> HIDE DEF seqs
<1>8. seqs[1] # <<>> /\ seqs[1][1] = included[1]  BY <1>6, <1>7, KeepFirst
<1>9. seqs # <<>>  BY <1>5, <1>7, EmptySeq
<1> QED BY <1>3, <1>7, <1>8, <1>9, FlattenFirst

\* get finds an entity with the URN if there is one, the last of them.
LEMMA GetProperties ==
    ASSUME NEW S, NEW included \in Seq(S), NEW urn,
           \E i \in 1..Len(included) : included[i].urn = urn
    PROVE  \E p : LastWithUrn(included, urn, p) /\ Get(included, urn) = included[p]
<1> DEFINE places == {i \in DOMAIN included : included[i].urn = urn}
           found == Keep(included, places)
<1>1. Get(included, urn) = found[Len(found)]  BY DEF Get, WithUrn, Filter, Last
<1>2. DOMAIN included = 1..Len(included) /\ Len(included) \in Nat  BY LenProperties
<1>3. places \cap 1..Len(included) = places /\ places \subseteq Nat  BY <1>2
<1>4. found \in Seq(S) /\ \E at : KeepsAt(at, found, included, places)
  <2>1. \E at : KeepsAt(at, found, included, places \cap 1..Len(included))  BY KeepProperties
  <2>2. found \in Seq(S)  BY KeepProperties
  <2> HIDE DEF places
  <2> QED BY <2>1, <2>2, <1>3
<1>5. \E i \in 1..Len(included) : i \in places  BY <1>2
<1>10. \A p \in places : p \in 1..Len(included) /\ included[p].urn = urn  BY <1>2
<1>11. \A i \in 1..Len(included) : included[i].urn = urn => i \in places  BY <1>2
<1> HIDE DEF places, found
<1>6. PICK at : KeepsAt(at, found, included, places)  BY <1>4
<1>7. /\ \A i \in 1..Len(found) : at[i] \in places /\ found[i] = included[at[i]]
      /\ \A i, k \in 1..Len(found) : i < k => at[i] < at[k]
      /\ \A p \in places : \E i \in 1..Len(found) : at[i] = p
  BY <1>6 DEF KeepsAt, Enumerates
<1>8. Len(found) \in Nat /\ Len(found) \in 1..Len(found)
  <2>1. Len(found) \in Nat  BY <1>4, LenProperties
  <2>2. PICK i \in 1..Len(found) : TRUE  BY <1>5, <1>7
  <2> QED BY <2>1, <2>2
<1> DEFINE last == at[Len(found)]
<1>9. last \in places /\ found[Len(found)] = included[last]  BY <1>7, <1>8
<1>12. ASSUME NEW i \in places PROVE i <= last
  <2>1. PICK k \in 1..Len(found) : at[k] = i  BY <1>7
  <2>2. k < Len(found) => at[k] < last  BY <1>7, <1>8
  <2>3. i \in Nat /\ last \in Nat  BY <1>3, <1>9
  <2> QED BY <1>8, <2>1, <2>2, <2>3
<1>13. LastWithUrn(included, urn, last)  BY <1>9, <1>10, <1>11, <1>12 DEF LastWithUrn
<1> QED BY <1>1, <1>9, <1>13

\* entities indexes a response: one entity per URN.
LEMMA EntitiesProperties ==
    ASSUME NEW S, NEW included \in Seq(S)
    PROVE  /\ Entities(included) \in Seq(S) /\ IndexedBy(Entities(included), included)
           /\ included # <<>> /\ included[1].urn # NoUrn =>
                 Entities(included) # <<>> /\ Entities(included)[1].urn = included[1].urn
<1> DEFINE Urns == {e.urn : e \in S}
           all == [i \in DOMAIN included |-> included[i].urn]
           each == Distinct(all)
           given == {i \in DOMAIN each : each[i] # NoUrn}
           urns == Keep(each, given)
           E == Entities(included)
<1>1. /\ Len(included) \in Nat /\ DOMAIN included = 1..Len(included)
      /\ \A i \in 1..Len(included) : included[i] \in S  BY LenProperties
<1>2. all \in Seq(Urns) /\ Len(all) = Len(included)
      /\ \A i \in 1..Len(included) : all[i] = included[i].urn  BY <1>1
<1>3. E = [i \in DOMAIN urns |-> Get(included, urns[i])]  BY DEF Entities, UrnsIn, Filter
<1> HIDE DEF all, Urns, E
<1>4. /\ each \in Seq(Urns)
      /\ \A i, k \in 1..Len(each) : each[i] = each[k] => i = k
      /\ \A i \in 1..Len(each) : \E k \in 1..Len(all) : each[i] = all[k]
      /\ \A k \in 1..Len(all) : \E i \in 1..Len(each) : each[i] = all[k]
      /\ all # <<>> => each # <<>> /\ each[1] = all[1]
  BY <1>2, DistinctProperties, DistinctFirst
<1> HIDE DEF each
<1>5. /\ DOMAIN each = 1..Len(each)
      /\ given \subseteq 1..Len(each)
      /\ \A p \in given : each[p] # NoUrn
      /\ \A p \in 1..Len(each) : each[p] # NoUrn => p \in given  BY <1>4, LenProperties
<1>7. each # <<>> /\ each[1] # NoUrn => 1 \in given
  <2>1. each # <<>> => 1 \in 1..Len(each)  BY <1>4, LenProperties, EmptySeq
  <2> QED BY <2>1, <1>5
<1> HIDE DEF given
<1>6. /\ urns \in Seq(Urns)
      /\ \A i \in 1..Len(urns) : \E p \in given : urns[i] = each[p]
      /\ \A p \in given : \E i \in 1..Len(urns) : urns[i] = each[p]
      /\ (\A p, q \in given : each[p] = each[q] => p = q) =>
            \A i, k \in 1..Len(urns) : urns[i] = urns[k] => i = k
  <2>1. each \in Seq(Urns) /\ given \subseteq 1..Len(each)  BY <1>4, <1>5
  <2> QED BY <2>1, KeepMembers
<1>8. 1 \in given => urns # <<>> /\ urns[1] = each[1]
  <2>1. 1 \in given => each # <<>>  BY <1>5, EmptySeq
  <2> QED BY <2>1, <1>4, KeepFirst
<1> HIDE DEF urns
<1>9. Len(urns) \in Nat /\ DOMAIN urns = 1..Len(urns)  BY <1>6, LenProperties
<1>10. ASSUME NEW i \in 1..Len(urns)
       PROVE  /\ urns[i] # NoUrn
              /\ \E k \in 1..Len(included) : urns[i] = included[k].urn
  <2>1. PICK p \in given : urns[i] = each[p]  BY <1>6
  <2>2. p \in 1..Len(each) /\ each[p] # NoUrn  BY <1>5
  <2>3. PICK k \in 1..Len(all) : each[p] = all[k]  BY <2>2, <1>4
  <2> QED BY <1>2, <2>1, <2>2, <2>3
<1>11. \A i, k \in 1..Len(urns) : urns[i] = urns[k] => i = k
  <2>1. \A p, q \in given : each[p] = each[q] => p = q  BY <1>4, <1>5
  <2> QED BY <1>6, <2>1
<1>12. ASSUME NEW p \in 1..Len(included), included[p].urn # NoUrn
       PROVE  \E i \in 1..Len(urns) : urns[i] = included[p].urn
  <2>1. PICK k \in 1..Len(each) : each[k] = included[p].urn  BY <1>2, <1>4
  <2>2. k \in given  BY <1>5, <1>12, <2>1
  <2> QED BY <1>6, <2>1, <2>2
<1>13. ASSUME NEW i \in 1..Len(urns)
       PROVE  /\ E[i] = Get(included, urns[i]) /\ E[i].urn = urns[i] /\ E[i] \in S
              /\ \E p : LastWithUrn(included, urns[i], p) /\ E[i] = included[p]
  <2> DEFINE u == urns[i]
  <2>1. E[i] = Get(included, u)  BY <1>3, <1>9
  <2>2. \E k \in 1..Len(included) : included[k].urn = u  BY <1>10
  <2> HIDE DEF u
  <2>3. PICK p : LastWithUrn(included, u, p) /\ Get(included, u) = included[p]
    BY <2>2, GetProperties
  <2>4. p \in 1..Len(included) /\ included[p].urn = u  BY <2>3 DEF LastWithUrn
  <2> QED BY <1>1, <2>1, <2>3, <2>4 DEF u
<1>14. E \in Seq(S) /\ Len(E) = Len(urns)
  <2>1. \A i \in 1..Len(urns) : Get(included, urns[i]) \in S  BY <1>13
  <2>2. E = [i \in 1..Len(urns) |-> Get(included, urns[i])]  BY <1>3, <1>9
  <2> QED BY <1>9, <2>1, <2>2
<1>15. IndexedBy(E, included)
  <2>1. ASSUME NEW i \in 1..Len(E)
        PROVE  /\ E[i].urn # NoUrn
               /\ \E p : LastWithUrn(included, E[i].urn, p) /\ E[i] = included[p]
    BY <1>10, <1>13, <1>14
  <2>2. \A i, k \in 1..Len(E) : E[i].urn = E[k].urn => i = k  BY <1>11, <1>13, <1>14
  <2>3. \A p \in 1..Len(included) : included[p].urn # NoUrn =>
           \E i \in 1..Len(E) : E[i].urn = included[p].urn  BY <1>12, <1>13, <1>14
  <2> QED BY <2>1, <2>2, <2>3 DEF IndexedBy
<1>16. ASSUME included # <<>>, included[1].urn # NoUrn
       PROVE  E # <<>> /\ E[1].urn = included[1].urn
  <2>1. all # <<>> /\ all[1] = included[1].urn  BY <1>1, <1>2, <1>16, EmptySeq
  <2>2. urns # <<>> /\ urns[1] = included[1].urn  BY <2>1, <1>4, <1>7, <1>8, <1>16
  <2>3. 1 \in 1..Len(urns)  BY <2>2, <1>6, <1>9, EmptySeq
  <2> QED BY <2>2, <2>3, <1>13, <1>14, EmptySeq
<1> QED BY <1>14, <1>15, <1>16 DEF E

\* A profile's URN is that of the entity at the head of a response, if its kind
\* is one of those looked for.
LEMMA UrnAmongFirst ==
    ASSUME NEW S, NEW included \in Seq(S), included # <<>>, NEW kinds,
           included[1].urn # NoUrn, included[1].urn.kind \in kinds
    PROVE  UrnAmong(included, kinds) = NormalizeProfileUrn(included[1].urn)
<1> DEFINE E == Entities(included)
           asked == {i \in DOMAIN E : E[i].urn.kind \in kinds}
           found == Keep(E, asked)
<1>1. UrnAmong(included, kinds)
        = IF found = <<>> THEN NoUrn ELSE NormalizeProfileUrn(Head(found).urn)
  BY DEF UrnAmong, Filter
<1>2. E \in Seq(S) /\ E # <<>> /\ E[1].urn = included[1].urn  BY EntitiesProperties
<1> HIDE DEF E
<1>3. 1 \in asked
  <2>1. 1 \in DOMAIN E  BY <1>2, LenProperties, EmptySeq
  <2> QED BY <2>1, <1>2
<1> HIDE DEF asked
<1>4. found # <<>> /\ found[1] = E[1]  BY <1>2, <1>3, KeepFirst
<1> HIDE DEF found
<1> QED BY <1>1, <1>2, <1>4

\* A text comes from the first field, if that has words.
LEMMA TextOfFirst ==
    ASSUME NEW W, NEW e, NEW N, NEW names \in Seq(N), names # <<>>, NEW words \in Seq(W),
           words # <<>>, Field(e, names[1]) = words
    PROVE  Text(e, names) = words
<1> DEFINE fields == [i \in DOMAIN names |-> Field(e, names[i])]
           S == {fields[i] : i \in DOMAIN fields}
           places == {i \in DOMAIN fields : fields[i] # <<>>}
           kept == Keep(fields, places)
<1>1. Text(e, names) = FlattenSeq(First(kept))  BY DEF Text, FirstField, FirstIn, Filter
<1>2. Len(names) \in Nat /\ 1 \in 1..Len(names) /\ DOMAIN names = 1..Len(names)
  BY LenProperties, EmptySeq
<1>3. fields \in Seq(S) /\ Len(fields) = Len(names) /\ fields[1] = words /\ 1 \in places
  BY <1>2
<1> HIDE DEF fields, S, places
<1>4. fields # <<>>  BY <1>2, <1>3, EmptySeq
<1>5. kept # <<>> /\ kept[1] = words  BY <1>3, <1>4, KeepFirst
<1> HIDE DEF kept
<1>6. First(kept) = <<words>>  BY <1>5 DEF First
<1> QED BY <1>1, <1>6, FlattenOne

\* Without any of the fields there is no text.
LEMMA TextOfNone ==
    ASSUME NEW e, NEW N, NEW names \in Seq(N), \A i \in 1..Len(names) : Field(e, names[i]) = <<>>
    PROVE  Text(e, names) = <<>>
<1> DEFINE fields == [i \in DOMAIN names |-> Field(e, names[i])]
           S == {fields[i] : i \in DOMAIN fields}
           places == {i \in DOMAIN fields : fields[i] # <<>>}
<1>1. Text(e, names) = FlattenSeq(First(Keep(fields, places)))
  BY DEF Text, FirstField, FirstIn, Filter
<1>2. Len(names) \in Nat /\ DOMAIN names = 1..Len(names)  BY LenProperties
<1>3. fields \in Seq(S) /\ Len(fields) = Len(names) /\ places = {}  BY <1>2
<1> HIDE DEF fields, S, places
<1>4. Keep(fields, places) = <<>>  BY <1>3, KeepNone
<1> QED BY <1>1, <1>4 DEF First, FlattenSeq

\* A type ends in itself.
LEMMA SuffixItself ==
    ASSUME NEW S, NEW t \in Seq(S)
    PROVE  IsSuffix(t, t)
<1> DEFINE u == Reverse(t)
<1>1. Len(t) \in Nat  BY LenProperties
<1>2. Len(u) = Len(t)  BY <1>1 DEF Reverse
<1> HIDE DEF u
<1>3. IsPrefix(u, u)  BY <1>1, <1>2 DEF IsPrefix
<1> QED BY <1>3 DEF IsSuffix, u

--------
(* The subject of a response. *)

\* What the subject's entity says, and what it leaves open.
LEMMA SubjectFields ==
    /\ Field(SubjectEntity, "firstName") = SubjectName
    /\ Field(SubjectEntity, "publicIdentifier") = SubjectName
    /\ Field(SubjectEntity, "headline") = SubjectHeadline
    /\ Field(SubjectEntity, "lastName") = <<>> /\ Field(SubjectEntity, "summary") = <<>>
    /\ Field(SubjectEntity, "about") = <<>> /\ Field(SubjectEntity, "locationName") = <<>>
    /\ Field(SubjectEntity, "geoLocationName") = <<>>
<1> DEFINE F == {"firstName", "headline", "publicIdentifier"}
<1>1. /\ SubjectEntity.fields["firstName"] = SubjectName
      /\ SubjectEntity.fields["publicIdentifier"] = SubjectName
      /\ SubjectEntity.fields["headline"] = SubjectHeadline
      /\ DOMAIN SubjectEntity.fields = F  BY DEF SubjectEntity, Person
<1> QED BY <1>1 DEF Field

\* What the entity of the subject says of itself.
LEMMA SubjectTexts ==
    /\ Text(SubjectEntity, <<"firstName">>) = SubjectName
    /\ Text(SubjectEntity, <<"publicIdentifier">>) = SubjectName
    /\ Text(SubjectEntity, <<"firstName", "headline", "publicIdentifier">>) = SubjectName
    /\ Text(SubjectEntity, <<"headline">>) = SubjectHeadline
    /\ Text(SubjectEntity, <<"headline", "occupation">>) = SubjectHeadline
    /\ Text(SubjectEntity, <<"headline", "occupation", "summary", "about">>) = SubjectHeadline
    /\ Text(SubjectEntity, <<"lastName">>) = <<>>
<1> DEFINE W == {Word("ada"), Word("analyst")}
           N == {"firstName", "publicIdentifier", "headline", "occupation", "summary", "about",
                 "lastName"}
           first == <<"firstName">>
           id == <<"publicIdentifier">>
           any == <<"firstName", "headline", "publicIdentifier">>
           headline == <<"headline">>
           occupation == <<"headline", "occupation">>
           about == <<"headline", "occupation", "summary", "about">>
           last == <<"lastName">>
<1>1. /\ SubjectName \in Seq(W) /\ SubjectName # <<>>
      /\ SubjectHeadline \in Seq(W) /\ SubjectHeadline # <<>>
  BY DEF SubjectName, SubjectHeadline
<1>5. /\ first \in Seq(N) /\ first # <<>> /\ first[1] = "firstName"
      /\ id \in Seq(N) /\ id # <<>> /\ id[1] = "publicIdentifier"
      /\ any \in Seq(N) /\ any # <<>> /\ any[1] = "firstName"  OBVIOUS
<1>6. /\ headline \in Seq(N) /\ headline # <<>> /\ headline[1] = "headline"
      /\ occupation \in Seq(N) /\ occupation # <<>> /\ occupation[1] = "headline"
      /\ about \in Seq(N) /\ about # <<>> /\ about[1] = "headline"  OBVIOUS
<1>7. last \in Seq(N) /\ last # <<>> /\ last[1] = "lastName" /\ Len(last) = 1  OBVIOUS
<1> HIDE DEF W, N, first, id, any, headline, occupation, about, last
<1>2. ASSUME NEW names \in Seq(N), names # <<>>,
             names[1] \in {"firstName", "publicIdentifier"}
      PROVE  Text(SubjectEntity, names) = SubjectName
  <2>1. Field(SubjectEntity, names[1]) = SubjectName  BY <1>2, SubjectFields
  <2> QED BY <1>1, <1>2, <2>1, TextOfFirst
<1>3. ASSUME NEW names \in Seq(N), names # <<>>, names[1] = "headline"
      PROVE  Text(SubjectEntity, names) = SubjectHeadline
  <2>1. Field(SubjectEntity, names[1]) = SubjectHeadline  BY <1>3, SubjectFields
  <2> QED BY <1>1, <1>3, <2>1, TextOfFirst
<1>4. Text(SubjectEntity, last) = <<>>
  <2>1. \A i \in 1..Len(last) : Field(SubjectEntity, last[i]) = <<>>  BY <1>7, SubjectFields
  <2> QED BY <1>7, <2>1, TextOfNone
<1>8. /\ Text(SubjectEntity, first) = SubjectName /\ Text(SubjectEntity, id) = SubjectName
      /\ Text(SubjectEntity, any) = SubjectName  BY <1>2, <1>5
<1>9. /\ Text(SubjectEntity, headline) = SubjectHeadline
      /\ Text(SubjectEntity, occupation) = SubjectHeadline
      /\ Text(SubjectEntity, about) = SubjectHeadline  BY <1>3, <1>6
<1> QED BY <1>4, <1>8, <1>9 DEF first, id, any, headline, occupation, about, last

\* However many people a response is about, its subject is who comes first.
LEMMA SubjectIsFound ==
    ASSUME NEW S, NEW included \in Seq(S), included # <<>>, included[1] = SubjectEntity
    PROVE  /\ FindProfileEntity(included) = <<SubjectEntity>>
           /\ Subject(included) = <<SubjectEntity>>
<1> DEFINE type == <<"identity.profile", ".", "Profile">>
           fields == <<"headline", "occupation", "summary", "about">>
           names == <<"firstName", "headline", "publicIdentifier">>
           E == {included[i] : i \in DOMAIN included}
<1>1. included[1].type = type /\ IsSuffix(type, type)
  <2>1. type \in Seq({"identity.profile", ".", "Profile"})  OBVIOUS
  <2>2. included[1].type = type  BY DEF SubjectEntity, Person
  <2> HIDE DEF type
  <2> QED BY <2>1, <2>2, SuffixItself
<1>2. /\ Text(SubjectEntity, fields) # <<>> /\ Text(SubjectEntity, names) # <<>>
  BY SubjectTexts DEF SubjectName, SubjectHeadline
<1> HIDE DEF fields, names
<1>3. type \in ProfileTypes /\ type \in {type}  BY DEF ProfileTypes
<1>4. ASSUME NEW candidates, candidates \in Seq(S), candidates # <<>>, NEW asked,
             candidates[1] = SubjectEntity, 
             Text(SubjectEntity, asked) # <<>>
      PROVE  LET found == Keep(candidates, {i \in DOMAIN candidates : Text(candidates[i], asked) # <<>>})
             IN found # <<>> /\ Head(found) = SubjectEntity
  <2> DEFINE places == {i \in DOMAIN candidates : Text(candidates[i], asked) # <<>>}
  <2>1. 1 \in DOMAIN candidates  BY <1>4, LenProperties, EmptySeq
  <2>2. 1 \in places  BY <1>4, <2>1
  <2> HIDE DEF places
  <2>3. Keep(candidates, places) # <<>> /\ Keep(candidates, places)[1] = SubjectEntity
    BY <1>4, <2>2, KeepFirst
  <2> QED BY <2>3 DEF places
<1> HIDE DEF type
<1>5. ASSUME NEW types, type \in types
      PROVE  /\ ByType(included, types) # <<>> /\ ByType(included, types)[1] = SubjectEntity
             /\ ByType(included, types) \in Seq(S)
  <2>1. ByType(included, types) \in Seq(S)  BY ByTypeProperties
  <2> QED BY <1>1, <1>5, <2>1, ByTypeFirst
<1>6. FindProfileEntity(included) = <<SubjectEntity>>
  <2> DEFINE candidates == ByType(included, ProfileTypes)
  <2>1. candidates # <<>> /\ candidates[1] = SubjectEntity /\ candidates \in Seq(S)
    BY <1>3, <1>5
  <2> HIDE DEF candidates
  <2> DEFINE found == Keep(candidates, {i \in DOMAIN candidates : Text(candidates[i], fields) # <<>>})
  <2>2. found # <<>> /\ Head(found) = SubjectEntity  BY <1>2, <1>4, <2>1
  <2>3. FindProfileEntity(included) = IF found # <<>> THEN <<Head(found)>> ELSE First(candidates)
    BY DEF FindProfileEntity, FirstWith, Filter, fields, candidates
  <2> HIDE DEF found
  <2> QED BY <2>2, <2>3
<1>7. Subject(included) = <<SubjectEntity>>
  <2> DEFINE candidates == ByType(included, {type})
  <2>1. candidates # <<>> /\ candidates[1] = SubjectEntity /\ candidates \in Seq(S)
    BY <1>3, <1>5
  <2> HIDE DEF candidates
  <2> DEFINE found == Keep(candidates, {i \in DOMAIN candidates : Text(candidates[i], names) # <<>>})
  <2>2. found # <<>> /\ Head(found) = SubjectEntity  BY <1>2, <1>4, <2>1
  <2>3. Subject(included) = IF found # <<>> THEN <<Head(found)>> ELSE First(candidates)
    BY DEF Subject, FirstWith, Filter, names, candidates, type
  <2> HIDE DEF found
  <2> QED BY <2>2, <2>3
<1> QED BY <1>6, <1>7

\* The cards fill the gaps of what an entity says, one after the other.
LEMMA ParsedWithoutCard ==
    ASSUME NEW included, NEW id
    PROVE  ParseBasics(included, id, <<>>) = Named(Own(FindProfileEntity(included)), id)
<1> DEFINE own == Own(FindProfileEntity(included))
           F(f) == [n \in 0..Len(<<>>) |-> IF n = 0 THEN own ELSE FillGaps(f[n - 1], <<>>[n])]
           filled == CHOOSE f : f = F(f)
           witness == [n \in 0..0 |-> own]
<1>1. ParseBasics(included, id, <<>>) = Named(filled[Len(<<>>)], id)  BY DEF ParseBasics
<1> HIDE DEF own
<1>2. 0..Len(<<>>) = {0}  OBVIOUS
<1>3. witness = F(witness)  BY <1>2
<1>4. filled = F(filled)  BY <1>3
<1> HIDE DEF filled
<1>5. filled[0] = own  BY <1>2, <1>4
<1>6. Len(<<>>) = 0  OBVIOUS
<1> QED BY <1>1, <1>5, <1>6 DEF own

\* parse_basics with a top card: the gaps are filled from it.
LEMMA ParsedWithCard ==
    ASSUME NEW included, NEW id, NEW card
    PROVE  ParseBasics(included, id, <<card>>)
             = Named(FillGaps(Own(FindProfileEntity(included)), card), id)
<1> DEFINE own == Own(FindProfileEntity(included))
           F(f) == [n \in 0..Len(<<card>>) |->
                      IF n = 0 THEN own ELSE FillGaps(f[n - 1], <<card>>[n])]
           filled == CHOOSE f : f = F(f)
           gapless == FillGaps(own, card)
           witness == [n \in 0..1 |-> IF n = 0 THEN own ELSE gapless]
<1>1. ParseBasics(included, id, <<card>>) = Named(filled[Len(<<card>>)], id)  BY DEF ParseBasics
<1> HIDE DEF own
<1>2. Len(<<card>>) = 1 /\ <<card>>[1] = card /\ 0..1 = {0, 1} /\ 1 - 1 = 0  OBVIOUS
<1>3. \A f : F(f) = [n \in {0, 1} |-> IF n = 0 THEN own ELSE FillGaps(f[n - 1], <<card>>[n])]
  BY <1>2
<1>4. witness = F(witness)
  <2>1. \A n \in {0, 1} : witness[n]
                           = IF n = 0 THEN own ELSE FillGaps(witness[n - 1], <<card>>[n])
    BY <1>2
  <2>2. witness = [n \in {0, 1} |-> witness[n]]  BY <1>2
  <2> QED BY <1>3, <2>1, <2>2
<1>5. filled = F(filled)  BY <1>4
<1> HIDE DEF filled
<1>6. filled[0] = own /\ filled[1] = FillGaps(filled[0], card)  BY <1>2, <1>3, <1>5
<1> QED BY <1>1, <1>2, <1>6 DEF own

\* The basics of a response that begins with the subject are those of the subject,
\* with the top card or without.
LEMMA SubjectIsParsed ==
    ASSUME NEW S, NEW included \in Seq(S), included # <<>>, included[1] = SubjectEntity,
           NEW card, card.slots.title = SubjectName
    PROVE  /\ IsSubject(ParseBasics(included, SubjectName, <<>>))
           /\ IsSubject(ParseBasics(included, SubjectName, <<card>>))
           /\ IsSubject(DashBasics(included, SubjectName))
<1> DEFINE own == Own(FindProfileEntity(included))
<1>1. /\ FindProfileEntity(included) = <<SubjectEntity>> /\ Subject(included) = <<SubjectEntity>>
  BY SubjectIsFound
<1>2. Head(<<SubjectEntity>>) = SubjectEntity /\ <<SubjectEntity>> # <<>>  OBVIOUS
<1>3. own = FromEntity(SubjectEntity)  BY <1>1, <1>2 DEF Own
<1>4. /\ SubjectName # <<>> /\ SubjectHeadline # <<>> /\ SubjectName \o <<>> = SubjectName
  BY DEF SubjectName, SubjectHeadline
<1>5. /\ own.first = SubjectName /\ own.last = <<>> /\ own.full = <<>>
      /\ own.headline = SubjectHeadline /\ own.id = SubjectName
  BY <1>3, SubjectTexts DEF FromEntity
<1>6. /\ DOMAIN own = {"first", "last", "full", "headline", "about", "place", "id"}
  BY <1>3 DEF FromEntity
<1> HIDE DEF own
<1>7. IsSubject(Named(own, SubjectName))  BY <1>4, <1>5, <1>6 DEF Named, Orelse, IsSubject
<1>8. IsSubject(Named(FillGaps(own, card), SubjectName))
  <2> DEFINE filled == FillGaps(own, card)
  <2>1. /\ filled.first = SubjectName /\ filled.last = <<>> /\ filled.full = SubjectName
        /\ filled.headline = SubjectHeadline /\ filled.id = SubjectName
        /\ DOMAIN filled = DOMAIN own  BY <1>4, <1>5, <1>6 DEF FillGaps, Orelse
  <2> HIDE DEF filled
  <2>2. IsSubject(Named(filled, SubjectName))  BY <1>4, <1>6, <2>1 DEF Named, Orelse, IsSubject
  <2> QED BY <2>2 DEF filled
<1>9. IsSubject(DashBasics(included, SubjectName))
  <2> DEFINE e == SubjectEntity
  <2>1. DashBasics(included, SubjectName)
          = [FromEntity(e) EXCEPT
               !.full = Text(e, <<"firstName">>) \o Text(e, <<"lastName">>),
               !.headline = Text(e, <<"headline">>), !.about = Text(e, <<"summary">>),
               !.place = Orelse(Text(e, <<"locationName">>), GeoName(included, e)),
               !.id = Orelse(@, SubjectName)]  BY <1>1, <1>2 DEF DashBasics
  <2> HIDE DEF e
  <2>2. FromEntity(e).id = SubjectName  BY <1>3, <1>5 DEF e
  <2>3. /\ Text(e, <<"firstName">>) = SubjectName /\ Text(e, <<"lastName">>) = <<>>
        /\ Text(e, <<"headline">>) = SubjectHeadline  BY SubjectTexts DEF e
  <2>4. DOMAIN FromEntity(e) = {"first", "last", "full", "headline", "about", "place", "id"}
    BY DEF FromEntity
  <2> QED BY <1>4, <2>1, <2>2, <2>3, <2>4 DEF Orelse, IsSubject
<1> QED BY <1>7, <1>8, <1>9, ParsedWithoutCard, ParsedWithCard DEF own

\* What was received first comes first in a merged response.
LEMMA MergedFirst ==
    ASSUME NEW S, NEW first \in Seq(S), first # <<>>, NEW second \in Seq(S)
    PROVE  /\ Merge(<<first, second>>) \in Seq(S) /\ Merge(<<first, second>>) # <<>>
           /\ Merge(<<first, second>>)[1] = first[1]
<1> DEFINE all == first \o second
           F == FirstPlaces(all)
<1>1. all \in Seq(S) /\ FlattenSeq(<<first, second>>) = all  BY ConcatProperties, FlattenTwo
<1>2. Merge(<<first, second>>) = Keep(all, F)  BY <1>1 DEF Merge
<1>3. Len(first) \in Nat /\ Len(first) # 0 /\ Len(second) \in Nat  BY LenProperties, EmptySeq
<1>4. Len(all) = Len(first) + Len(second) /\ all[1] = first[1]
  BY <1>3, ConcatProperties, 1 \in 1..Len(first)
<1> HIDE DEF all
<1>5. DOMAIN all = 1..Len(all) /\ all # <<>>  BY <1>1, <1>3, <1>4, LenProperties, EmptySeq
<1>6. 1 \in F  BY <1>3, <1>4, <1>5 DEF FirstPlaces
<1> HIDE DEF F
<1> QED BY <1>1, <1>2, <1>4, <1>5, <1>6, KeepFirst, KeepProperties

\* The URN taken from such a response is that of the subject, in every tier.
LEMMA SubjectUrns ==
    ASSUME NEW S, NEW included \in Seq(S), included # <<>>, included[1] = SubjectEntity
    PROVE  /\ DashUrn(included) = Urn("fsd_profile", "ada")
           /\ ResolveUrn(included) = Urn("fsd_profile", "ada")
           /\ RestUrn(included) = Urn("fsd_profile", "ada")
<1>1. included[1].urn = Urn("fsd_profile", "ada")  BY DEF SubjectEntity, Person
<1>2. /\ included[1].urn # NoUrn /\ included[1].urn.kind = "fsd_profile"
      /\ NormalizeProfileUrn(included[1].urn) = Urn("fsd_profile", "ada")
  BY <1>1 DEF Urn, NoUrn, NormalizeProfileUrn
<1>3. ASSUME NEW kinds, "fsd_profile" \in kinds
      PROVE  UrnAmong(included, kinds) = Urn("fsd_profile", "ada")
  BY <1>2, <1>3, UrnAmongFirst
<1>4. /\ "fsd_profile" \in {"fsd_profile"} /\ "fsd_profile" \in FsdKinds
      /\ "fsd_profile" \in FsdKinds \cup {"fs_profile", "fs_miniProfile"}  BY DEF FsdKinds
<1> QED BY <1>3, <1>4 DEF DashUrn, ResolveUrn, RestUrn

\* Such a response has the content of a profile.
LEMMA SubjectHasContent ==
    ASSUME NEW S, NEW included \in Seq(S), included # <<>>, included[1] = SubjectEntity
    PROVE  HasProfileContent(included)
<1>1. 1 \in DOMAIN included  BY LenProperties, EmptySeq
<1>2. 1 \in DOMAIN included[1].type /\ included[1].type[1] = "identity.profile"
  BY DEF SubjectEntity, Person
<1> QED BY <1>1, <1>2 DEF HasProfileContent

\* OnePerson, for entities of any kind after the subject's, and a response that
\* holds the subject's card or none.
LEMMA PersonIsRead ==
    ASSUME NEW S, SubjectEntity \in S, NEW others \in Seq(S), NEW card \in Seq(S),
           NEW flat, flat.slots.title = SubjectName, FlattenCards(card) \in {<<>>, <<flat>>},
           ReadPerson(others, card)
    PROVE  OnePerson'
<1> DEFINE vanity == <<SubjectEntity>> \o others
           merged == Merge(<<vanity, card>>)
           html == HtmlTier([authwall |-> FALSE, payloads |-> <<vanity, card>>, lines |-> <<>>,
                             first |-> <<>>, last |-> <<>>, title |-> <<>>, urn |-> NoUrn],
                            SubjectName)
           ada == Urn("fsd_profile", "ada")
<1>1. /\ read'.graphql = GraphqlBasics(vanity, card, SubjectName)
      /\ read'.dash = DashBasics(vanity, SubjectName)
      /\ read'.rest = ParseBasics(vanity, SubjectName, <<>>)
      /\ read'.html = html
      /\ read'.urns = {ResolveUrn(vanity), DashUrn(vanity), RestUrn(vanity)}
  BY DEF ReadPerson
<1>2. vanity \in Seq(S) /\ vanity # <<>> /\ vanity[1] = SubjectEntity
  <2> DEFINE one == <<SubjectEntity>>
  <2>1. one \in Seq(S) /\ Len(one) = 1 /\ one[1] = SubjectEntity /\ 1 \in 1..1  OBVIOUS
  <2> HIDE DEF one
  <2>4. Len(others) \in Nat /\ 1 \in 1..(1 + Len(others))  BY LenProperties
  <2>5. /\ one \o others \in Seq(S) /\ Len(one \o others) = Len(one) + Len(others)
        /\ \A i \in 1..(Len(one) + Len(others)) :
              (one \o others)[i] = IF i <= Len(one) THEN one[i] ELSE others[i - Len(one)]
    BY <2>1, ConcatProperties
  <2>2. /\ one \o others \in Seq(S) /\ Len(one \o others) = 1 + Len(others)
        /\ (one \o others)[1] = SubjectEntity  BY <2>1, <2>4, <2>5
  <2>3. Len(one \o others) # 0  BY <2>2, LenProperties
  <2> QED BY <2>2, <2>3, EmptySeq DEF one
<1> HIDE DEF vanity
<1>3. merged \in Seq(S) /\ merged # <<>> /\ merged[1] = SubjectEntity  BY <1>2, MergedFirst
<1> HIDE DEF merged, html
<1>4. IsSubject(read'.dash) /\ IsSubject(read'.rest)  BY <1>1, <1>2, SubjectIsParsed
<1>5. IsSubject(read'.graphql)
  <2>1. read'.graphql = ParseBasics(merged, SubjectName, FlattenCards(card))
    BY <1>1 DEF GraphqlBasics, merged
  <2> QED BY <1>3, <2>1, SubjectIsParsed
<1>6. read'.urns = {ada}  BY <1>1, <1>2, SubjectUrns
<1>7. IsSubject(html.basics) /\ html.urn = ada
  <2> DEFINE basics == ParseBasics(merged, SubjectName, <<>>)
             page == [authwall |-> FALSE, payloads |-> <<vanity, card>>, lines |-> <<>>,
                      first |-> <<>>, last |-> <<>>, title |-> <<>>, urn |-> NoUrn]
             choice == Choice(InlinedBasics(merged, SubjectName), InlinedUrn(merged),
                              RenderedBasics(page, SubjectName), page)
  <2>1. IsSubject(basics)  BY <1>3, SubjectIsParsed
  <2> HIDE DEF basics
  <2>2. basics.full # <<>>  BY <2>1 DEF IsSubject, SubjectName
  <2>3. InlinedBasics(merged, SubjectName) = basics
    BY <1>3, <2>2, SubjectHasContent DEF InlinedBasics, WithName, basics
  <2>4. InlinedUrn(merged) = ada  BY <1>3, SubjectHasContent, SubjectUrns DEF InlinedUrn
  <2>5. html.basics = choice.basics /\ html.urn = choice.urn  BY DEF html, HtmlTier, merged
  <2> HIDE DEF page
  <2>6. choice.basics = basics /\ choice.urn = ada  BY <2>2, <2>3, <2>4 DEF Choice
  <2> QED BY <2>1, <2>5, <2>6
<1>8. /\ \A basics \in {read'.graphql, read'.dash, read'.rest, read'.html.basics} :
            IsSubject(basics)
      /\ read'.urns \cup {read'.html.urn} = {ada}  BY <1>1, <1>4, <1>5, <1>6, <1>7
<1> QED BY <1>8 DEF OnePerson, IsSubject

--------
(* Cards. *)

\* A list of lists of one is the list of those.
LEMMA FlattenSingletons ==
    ASSUME NEW S, NEW seq \in Seq(S)
    PROVE  FlattenSeq([i \in 1..Len(seq) |-> <<seq[i]>>]) = seq
<1> DEFINE seqs == [i \in 1..Len(seq) |-> <<seq[i]>>]
           N == Len(seq)
<1>1. N \in Nat /\ \A i \in 1..N : seq[i] \in S  BY LenProperties
<1>2. seqs \in Seq(Seq(S)) /\ Len(seqs) = N /\ \A i \in 1..N : seqs[i] = <<seq[i]>>
  <2>1. \A i \in 1..N : <<seq[i]>> \in Seq(S)  BY <1>1
  <2> QED BY <1>1, <2>1
<1> HIDE DEF seqs, N
<1>3. PICK flat : FlattenSteps(flat, S, seqs)  BY <1>2, FlattenDef
<1>4. /\ flat \in [0..N -> Seq(S)] /\ flat[0] = <<>> /\ FlattenSeq(seqs) = flat[N]
      /\ \A n \in 1..N, m \in Nat : n = m + 1 => flat[n] = flat[m] \o <<seq[n]>>
  BY <1>2, <1>3 DEF FlattenSteps
<1> DEFINE T == {n \in Nat : n <= N => /\ Len(flat[n]) = n
                                       /\ \A i \in 1..n : flat[n][i] = seq[i]}
<1>5. 0 \in T  BY <1>4
<1>6. ASSUME NEW n \in Nat, n \in T PROVE n + 1 \in T
  <2> SUFFICES ASSUME n + 1 <= N
               PROVE  /\ Len(flat[n + 1]) = n + 1
                      /\ \A i \in 1..(n + 1) : flat[n + 1][i] = seq[i]  OBVIOUS
  <2>1. n \in 0..N /\ n + 1 \in 1..N  BY <1>1
  <2>2. /\ flat[n] \in Seq(S) /\ Len(flat[n]) = n
        /\ \A i \in 1..n : flat[n][i] = seq[i]  BY <1>4, <1>6, <2>1
  <2> DEFINE before == flat[n]
             last == <<seq[n + 1]>>
  <2>3. flat[n + 1] = before \o last  BY <1>4, <2>1
  <2>4. last \in Seq(S) /\ Len(last) = 1 /\ last[1] = seq[n + 1]  BY <1>1, <2>1
  <2> HIDE DEF before, last
  <2>5. before \in Seq(S) /\ Len(before) = n /\ \A i \in 1..n : before[i] = seq[i]
    BY <2>2 DEF before
  <2>8. /\ Len(before \o last) = Len(before) + Len(last)
        /\ \A i \in 1..(Len(before) + Len(last)) :
              (before \o last)[i] = IF i <= Len(before) THEN before[i] ELSE last[i - Len(before)]
    BY <2>4, <2>5, ConcatProperties
  <2>6. /\ Len(before \o last) = n + 1
        /\ \A i \in 1..(n + 1) :
              (before \o last)[i] = IF i <= n THEN before[i] ELSE last[i - n]
    BY <2>4, <2>5, <2>8
  <2>7. ASSUME NEW i \in 1..(n + 1) PROVE (before \o last)[i] = seq[i]
    <3>1. CASE i \in 1..n  BY <2>5, <2>6, <3>1
    <3>2. CASE i = n + 1
      <4>1. ~(i <= n) /\ i - n = 1  BY <3>2
      <4> QED BY <2>4, <2>6, <3>2, <4>1
    <3>3. i \in 1..n \/ i = n + 1  OBVIOUS
    <3> QED BY <3>1, <3>2, <3>3
  <2> QED BY <2>3, <2>6, <2>7
<1> HIDE DEF T
<1>7. N \in T  BY <1>1, <1>5, <1>6, InductiveSet
<1>8. /\ Len(flat[N]) = N /\ \A i \in 1..N : flat[N][i] = seq[i]  BY <1>1, <1>7 DEF T
<1>9. flat[N] \in Seq(S)  BY <1>1, <1>4
<1>10. flat[N] = seq  BY <1>8, <1>9, SeqEqual DEF N
<1> QED BY <1>4, <1>10 DEF seqs

\* The entity component without children.
LEMMA LeafNode ==
    ASSUME NEW slots
    PROVE  /\ DOMAIN EntityNode(slots, <<>>) = {<<>>}
           /\ EntityNode(slots, <<>>)[<<>>].kind = "entity"
           /\ EntityNode(slots, <<>>)[<<>>].sub = 0
           /\ EntityNode(slots, <<>>)[<<>>].slots = slots
           /\ EntityNode(slots, <<>>)[<<>>].urn = NoUrn
<1> DEFINE D == {<<>>} \cup UNION {{<<i>> \o q : q \in DOMAIN <<>>[i]} : i \in DOMAIN <<>>}
           root == [kind |-> "entity", slots |-> slots, urn |-> NoUrn, text |-> NoText,
                    sub |-> Len(<<>>)]
<1>1. EntityNode(slots, <<>>)
        = [p \in D |-> IF p # <<>> THEN <<>>[Head(p)][Tail(p)] ELSE root]
  BY DEF EntityNode, Node
<1>2. D = {<<>>}  OBVIOUS
<1>3. root.kind = "entity" /\ root.sub = 0 /\ root.slots = slots /\ root.urn = NoUrn  OBVIOUS
<1> HIDE DEF D, root
<1>4. DOMAIN EntityNode(slots, <<>>) = {<<>>} /\ EntityNode(slots, <<>>)[<<>>] = root
  BY <1>1, <1>2
<1> QED BY <1>3, <1>4

\* There is nothing below a component without children.
LEMMA NothingBelow ==
    ASSUME NEW tree, NEW p, tree[p].sub = 0, NEW found
    PROVE  Below(tree, p, found) = <<>>
<1>1. [i \in 1..tree[p].sub |-> found[Append(p, i)]] = <<>>  OBVIOUS
<1> HIDE DEF Below
<1> QED BY <1>1 DEF Below, FlattenSeq

\* What is below the root is what is below each of its children, in order.
LEMMA BelowRoot ==
    ASSUME NEW tree, NEW found
    PROVE  Below(tree, <<>>, found) = FlattenSeq([i \in 1..tree[<<>>].sub |-> found[<<i>>]])
<1>1. \A i \in 1..tree[<<>>].sub : Append(<<>>, i) = <<i>>  OBVIOUS
<1>2. [i \in 1..tree[<<>>].sub |-> found[Append(<<>>, i)]]
        = [i \in 1..tree[<<>>].sub |-> found[<<i>>]]  BY <1>1
<1> QED BY <1>2 DEF Below

\* Of the entities of a response that ends in a card, and has no other, the card
\* is read, whoever else has its URN.
LEMMA OnlyCard ==
    ASSUME NEW S, \A e \in S : "topComponents" \notin DOMAIN e, NEW others \in Seq(S),
           NEW card, card.urn # NoUrn, "topComponents" \in DOMAIN card
    PROVE  FlattenCards(others \o <<card>>) = FlattenSeq(<<FlattenSection(card.topComponents)>>)
<1> DEFINE last == <<card>>
           R == S \cup {card}
           included == others \o last
           N == Len(others)
           E == Entities(included)
           places == {i \in DOMAIN E : "topComponents" \in DOMAIN E[i]}
           cards == Keep(E, places)
<1>1. FlattenCards(included)
        = FlattenSeq([i \in DOMAIN cards |-> FlattenSection(cards[i].topComponents)])
  BY DEF FlattenCards, Filter, IsCard
<1>2. N \in Nat /\ others \in Seq(R) /\ last \in Seq(R) /\ Len(last) = 1 /\ last[1] = card
      /\ \A i \in 1..N : others[i] \in S  BY LenProperties
<1> HIDE DEF last, N, R
<1>3. /\ included \in Seq(R) /\ Len(included) = N + 1
      /\ \A i \in 1..(N + 1) : included[i] = IF i <= N THEN others[i] ELSE last[i - N]
  <2>1. /\ included \in Seq(R) /\ Len(included) = Len(others) + Len(last)
        /\ \A i \in 1..(Len(others) + Len(last)) :
              included[i] = IF i <= Len(others) THEN others[i] ELSE last[i - Len(others)]
    BY <1>2, ConcatProperties
  <2> HIDE DEF included
  <2> QED BY <1>2, <2>1 DEF N
<1>4. \A i \in 1..N : included[i] \in S  BY <1>2, <1>3
<1>5. included[N + 1] = card /\ N + 1 \in 1..(N + 1)
  <2>1. N + 1 \in 1..(N + 1) /\ ~(N + 1 <= N) /\ (N + 1) - N = 1  BY <1>2
  <2> QED BY <1>2, <1>3, <2>1
<1> HIDE DEF included
<1>6. E \in Seq(R) /\ IndexedBy(E, included)  BY <1>3, EntitiesProperties
<1> HIDE DEF E
<1>7. Len(E) \in Nat /\ DOMAIN E = 1..Len(E)  BY <1>6, LenProperties
<1>8. PICK i \in 1..Len(E) : E[i].urn = card.urn
  <2>1. included[N + 1].urn # NoUrn /\ N + 1 \in 1..Len(included)  BY <1>3, <1>5
  <2>2. \E i \in 1..Len(E) : E[i].urn = included[N + 1].urn  BY <1>6, <2>1 DEF IndexedBy
  <2> QED BY <1>5, <2>2
<1>9. E[i] = card
  <2>1. PICK p : LastWithUrn(included, card.urn, p) /\ E[i] = included[p]
    BY <1>6, <1>8 DEF IndexedBy
  <2>2. p \in 1..(N + 1) /\ N + 1 <= p  BY <1>3, <1>5, <2>1 DEF LastWithUrn
  <2>3. p = N + 1  BY <1>2, <2>2
  <2> QED BY <1>5, <2>1, <2>3
<1>10. ASSUME NEW k \in 1..Len(E), k # i PROVE "topComponents" \notin DOMAIN E[k]
  <2>1. E[k].urn # card.urn  BY <1>6, <1>8, <1>10 DEF IndexedBy
  <2>2. PICK p : LastWithUrn(included, E[k].urn, p) /\ E[k] = included[p]  BY <1>6 DEF IndexedBy
  <2>3. p \in 1..(N + 1) /\ included[p].urn = E[k].urn  BY <1>3, <2>2 DEF LastWithUrn
  <2>4. p # N + 1  BY <1>5, <2>1, <2>3
  <2>5. p \in 1..N  BY <1>2, <2>3, <2>4
  <2> QED BY <1>4, <2>2, <2>5
<1>11. places \cap 1..Len(E) = {i}  BY <1>7, <1>9, <1>10
<1> DEFINE at == [j \in 1..1 |-> i]
<1>12. Enumerates(at, 1, {i})  BY DEF Enumerates
<1> HIDE DEF at, places
<1>13. Len(cards) = 1 /\ KeepsAt(at, cards, E, places \cap 1..Len(E))
  <2>1. E \in Seq(R) /\ Enumerates(at, 1, places \cap 1..Len(E)) /\ 1 \in Nat
    BY <1>6, <1>11, <1>12
  <2> QED BY <2>1, KeepIs
<1>14. cards[1] = card
  <2>1. cards[1] = E[at[1]]  BY <1>13 DEF KeepsAt
  <2> QED BY <1>9, <2>1 DEF at
<1>15. cards \in Seq(R)  BY <1>6, KeepProperties
<1> HIDE DEF cards
<1>16. DOMAIN cards = 1..1  BY <1>13, <1>15, LenProperties
<1>17. [j \in DOMAIN cards |-> FlattenSection(cards[j].topComponents)]
         = <<FlattenSection(card.topComponents)>>  BY <1>14, <1>16
<1> QED BY <1>1, <1>17 DEF included, last

\* No card has no entities.
LEMMA NoCards ==
    FlattenCards(<<>>) = <<>> /\ Entities(<<>>) = <<>>
<1> DEFINE all == [i \in DOMAIN <<>> |-> <<>>[i].urn]
           distinct == {i \in DOMAIN all : \A k \in 1..(i - 1) : all[k] # all[i]}
           each == Keep(all, distinct)
           given == {i \in DOMAIN each : each[i] # NoUrn}
           urns == Keep(each, given)
           E == [i \in DOMAIN urns |-> Get(<<>>, urns[i])]
           places == {i \in DOMAIN E : "topComponents" \in DOMAIN E[i]}
           cards == Keep(E, places)
<1>1. FlattenCards(<<>>)
        = FlattenSeq([i \in DOMAIN cards |-> FlattenSection(cards[i].topComponents)])
  BY DEF FlattenCards, Entities, UrnsIn, Distinct, Filter, IsCard
<1>8. Entities(<<>>) = E  BY DEF Entities, UrnsIn, Distinct, Filter
<1>2. ASSUME NEW P PROVE Keep(<<>>, P) = <<>>
  <2>1. <<>> \in Seq({}) /\ P \cap 1..Len(<<>>) = {}  OBVIOUS
  <2> QED BY <2>1, KeepNone
<1>3. all = <<>>  OBVIOUS
<1> HIDE DEF all, distinct, given, places
<1>4. urns = <<>>  BY <1>2, <1>3
<1> HIDE DEF urns
<1>5. E = <<>>  BY <1>4
<1> HIDE DEF E
<1>6. cards = <<>>  BY <1>2, <1>5
<1> HIDE DEF cards
<1>7. [i \in DOMAIN cards |-> FlattenSection(cards[i].topComponents)] = <<>>  BY <1>6
<1> QED BY <1>1, <1>5, <1>7, <1>8 DEF FlattenSeq

--------
(* The dates of an item, in every tier. *)

\* Such a date, or none, is parsed as it was written.
LEMMA DayIsParsed ==
    ASSUME NEW date, date = NoDate \/ IsDay(date)
    PROVE  ParsePartialDate(date) = date
<1>1. CASE date = NoDate  BY <1>1 DEF ParsePartialDate, NoDate
<1>2. CASE IsDay(date)
  <2>1. /\ date = [given |-> date.given, year |-> date.year, month |-> date.month]
        /\ date.given = TRUE /\ date.year # Absent /\ date.month \in {Absent} \cup 1..12
    BY <1>2 DEF IsDay, Dates, Known
  <2>2. (IF date.month \in 1..12 THEN date.month ELSE Absent) = date.month  BY <2>1
  <2>3. ParsePartialDate(date) = [given |-> TRUE, year |-> date.year, month |-> date.month]
    BY <2>1, <2>2 DEF ParsePartialDate, Date
  <2> QED BY <2>1, <2>3
<1> QED BY <1>1, <1>2

\* A period is reported with its months.
LEMMA PeriodIsFinished ==
    ASSUME NEW item, IsPeriod(item)
    PROVE  Finish(MakeRange(item.start, item.end, ~item.end.given)) = TrueRange(item)
<1> DEFINE range == MakeRange(item.start, item.end, ~item.end.given)
           last == Ending(range)
<1>1. /\ range.start = item.start /\ range.end = item.end
      /\ range.current = ~item.end.given /\ range.months = Absent  BY DEF MakeRange, NoRange
<1>2. IsDay(item.start)  BY DEF IsPeriod
<1>3. last \in Dates /\ Known(last.year) /\ Span(item.start, last) > 0
  <2>1. CASE item.end = NoDate /\ Span(item.start, Today) > 0
    <3>2. item.end.given = FALSE  BY <2>1 DEF NoDate
    <3>3. range.current = TRUE /\ range.end.given = FALSE  BY <1>1, <3>2
    <3> HIDE DEF range
    <3>1. last = Today  BY <3>3 DEF Ending
    <3> QED BY <2>1, <3>1, DaysAssumption
  <2>2. CASE IsDay(item.end) /\ Span(item.start, item.end) > 0
    <3>1. last = item.end  BY <1>1, <2>2 DEF Ending, IsDay
    <3> QED BY <2>2, <3>1 DEF IsDay
  <2> QED BY <2>1, <2>2 DEF IsPeriod
<1>4. Span(item.start, last) = Cardinality(CalendarMonths(item.start, last))
  BY <1>2, <1>3, SpanCountsMonths DEF IsDay
<1>5. TrueRange(item) = [range EXCEPT !.months = Cardinality(CalendarMonths(item.start, last))]
  BY DEF TrueRange
<1> HIDE DEF range, last
<1>6. Finish(range) = [range EXCEPT !.months = Span(item.start, last)]
  BY <1>1, <1>2, <1>3 DEF Finish, IsDay, last
<1> QED BY <1>4, <1>5, <1>6 DEF range

\* A period is read from a caption and from a structured range alike.
LEMMA PeriodIsRead ==
    ASSUME NEW item, IsPeriod(item)
    PROVE  /\ CaptionRange(AsCaption(item)) = TrueRange(item)
           /\ StructuredRange([given |-> TRUE, start |-> item.start, end |-> item.end])
                = TrueRange(item)
<1>1. IsDay(item.start) /\ (item.end = NoDate \/ IsDay(item.end))  BY DEF IsPeriod
<1>2. item.start.given = TRUE /\ item.end.given \in BOOLEAN
  <2>1. \A date : IsDay(date) => date.given \in BOOLEAN /\ date.given  BY DEF IsDay, Dates
  <2>2. NoDate.given \in BOOLEAN  BY DEF NoDate
  <2> QED BY <1>1, <2>1, <2>2
<1>3. StructuredRange([given |-> TRUE, start |-> item.start, end |-> item.end])
        = Finish(MakeRange(item.start, item.end, ~item.end.given))
  <2>1. ParsePartialDate(item.start) = item.start /\ ParsePartialDate(item.end) = item.end
    BY <1>1, DayIsParsed
  <2> QED BY <2>1 DEF StructuredRange
<1>4. CaptionRange(AsCaption(item)) = Finish(MakeRange(item.start, item.end, ~item.end.given))
  <2> DEFINE second == IF item.end.given THEN Day(item.end) ELSE [kind |-> "present"]
             caption == <<Day(item.start), second>>
  <2>1. AsCaption(item) = caption  BY <1>2 DEF AsCaption
  <2>2. /\ (second.kind = "present") = ~item.end.given
        /\ ParseToken(second) = item.end
    <3>1. CASE item.end = NoDate  BY <3>1 DEF ParseToken, NoDate
    <3>2. CASE IsDay(item.end)
      <4>1. second = Day(item.end)  BY <3>2 DEF IsDay
      <4> QED BY <4>1, <3>2 DEF IsDay, ParseToken, Day
    <3> QED BY <1>1, <3>1, <3>2
  <2>3. ParseToken(Day(item.start)) = item.start  BY DEF ParseToken, Day
  <2> HIDE DEF second
  <2>4. Len(caption) > 1 /\ caption[2] = second /\ Head(caption) = Day(item.start) /\ caption # <<>>
    OBVIOUS
  <2> HIDE DEF caption
  <2>5. CaptionRange(caption) = Finish(MakeRange(item.start, item.end, second.kind = "present"))
    BY <1>2, <2>2, <2>3, <2>4 DEF CaptionRange
  <2> QED BY <2>1, <2>2, <2>5
<1> QED BY <1>3, <1>4, PeriodIsFinished

--------
(* The items of a section on a card. *)

\* One value after another.
LEMMA JoinedPair ==
    ASSUME NEW a, NEW b
    PROVE  <<a>> \o <<b>> = <<a, b>>
<1> DEFINE x == <<a>>
           y == <<b>>
           S == {a, b}
<1>1. x \in Seq(S) /\ y \in Seq(S) /\ Len(x) = 1 /\ Len(y) = 1 /\ x[1] = a /\ y[1] = b  OBVIOUS
<1> HIDE DEF x, y, S
<1>2. /\ x \o y \in Seq(S) /\ Len(x \o y) = Len(x) + Len(y)
      /\ \A i \in 1..(Len(x) + Len(y)) :
            (x \o y)[i] = IF i <= Len(x) THEN x[i] ELSE y[i - Len(x)]
  BY <1>1, ConcatProperties
<1>3. Len(x \o y) = 2 /\ (x \o y)[1] = a /\ (x \o y)[2] = b  BY <1>1, <1>2
<1>4. x \o y = <<(x \o y)[1], (x \o y)[2]>>  BY <1>2, <1>3, OfLengthTwo
<1> QED BY <1>3, <1>4 DEF x, y

\* There is a month at least from a day to one that is not earlier.
LEMMA EarlierSpans ==
    ASSUME NEW a, NEW b, IsDay(a), IsDay(b), Earlier(a, b)
    PROVE  Span(a, b) > 0
<1>1. /\ a.year \in Int /\ b.year \in Int
      /\ a.month \in {Absent} \cup 1..12 /\ b.month \in {Absent} \cup 1..12
  BY DEF IsDay, Dates
<1>2. /\ Or(a.month, 1) \in 1..12 /\ Or(b.month, 12) \in 1..12
      /\ Or(a.month, 0) < Or(b.month, 0) => Or(a.month, 1) <= Or(b.month, 12)
  BY <1>1 DEF Or, Known, Absent
<1> DEFINE m == Or(a.month, 1)
           n == Or(b.month, 12)
<1>3. m \in 1..12 /\ n \in 1..12 /\ (a.year < b.year \/ (a.year = b.year /\ m <= n))
  BY <1>2 DEF Earlier
<1>4. Span(a, b) = (b.year - a.year) * 12 + n - m + 1  BY DEF Span
<1> HIDE DEF m, n
<1> QED BY <1>1, <1>3, <1>4

\* The dates that the items of a run have are dates.
LEMMA DaysAreDays ==
    /\ IsDay(Days[1]) /\ IsDay(Days[2])
    /\ Span(Days[1], Today) > 0 /\ Span(Days[1], Days[2]) > 0
<1>1. 1 \in DOMAIN Days /\ 2 \in DOMAIN Days  BY DaysAssumption, LenProperties
<1>2. Days[1] \in Dates /\ Days[2] \in Dates  BY <1>1, DaysAssumption, LenProperties
<1>3. IsDay(Days[1]) /\ IsDay(Days[2])  BY <1>1, <1>2, DaysAssumption DEF IsDay
<1>4. Earlier(Days[1], Days[2])
  <2>1. 1 < 2  OBVIOUS
  <2> QED BY <1>1, <2>1, DaysAssumption
<1> QED BY <1>1, <1>3, <1>4, EarlierSpans, DaysAssumption

\* No date is not a date.
LEMMA GivenDates ==
    /\ NoDate.given = FALSE
    /\ \A date : IsDay(date) => date.given = TRUE /\ date # NoDate
<1>1. ASSUME NEW date, IsDay(date) PROVE date.given = TRUE  BY <1>1 DEF IsDay, Dates
<1>2. NoDate.given = FALSE  BY DEF NoDate
<1> QED BY <1>1, <1>2

\* An item as a run makes it is an item as the lemmas take it.
LEMMA ItemsAreItems ==
    ASSUME NEW section \in AllSections, NEW item \in ItemsOf(section), Wellformed(section, item)
    PROVE  IsItem(section, item)
<1>1. /\ item.start \in {NoDate, Days[1]} /\ item.end \in {NoDate, Days[2]}
      /\ item.by \in {<<>>, <<Word("by")>>}
      /\ section \in Unattributed => item.by = <<>>
      /\ section \in Dateless => item.start = NoDate
      /\ section \notin Ranged \cup {"certifications"} => item.end = NoDate  BY DEF ItemsOf
<1>2. item.start = NoDate => item.end = NoDate  BY <1>1, GivenDates, DaysAreDays DEF Wellformed
<1>3. section \in Paired /\ item.start # NoDate => item.by # <<>>
  BY <1>1, GivenDates, DaysAreDays DEF Wellformed
<1>4. ASSUME item.start # NoDate PROVE IsPeriod(item)
  <2>1. item.start = Days[1]  BY <1>1, <1>4
  <2> QED BY <1>1, <2>1, DaysAreDays DEF IsPeriod
<1> QED BY <1>1, <1>2, <1>3, <1>4, DaysAreDays DEF IsItem

\* A section is parsed item by item, and skills once by their names.
LEMMA CardIsRead ==
    ASSUME NEW section \in AllSections, NEW E, NEW entities \in Seq(E),
           \A i \in 1..Len(entities) : entities[i].slots.title # <<>>
    PROVE  ParseSection(section, entities)
             = OnceIfSkills(section, [i \in DOMAIN entities |->
                                        CardReading(section, entities[i].slots)])
<1>1. DOMAIN entities = 1..Len(entities)  BY LenProperties
<1>2. Titled(entities) = entities
  <2> DEFINE places == {i \in DOMAIN entities : entities[i].slots.title # <<>>}
  <2>1. places = 1..Len(entities) /\ Titled(entities) = Keep(entities, places)
    BY <1>1 DEF Titled, Filter
  <2> HIDE DEF places
  <2> QED BY <2>1, KeepAll
<1>3. Shown(entities) = entities
  <2> DEFINE places == {i \in DOMAIN entities :
                          entities[i].slots.title # <<>> \/ entities[i].slots.subtitle # <<>>}
  <2>1. places = 1..Len(entities) /\ Shown(entities) = Keep(entities, places)
    BY <1>1 DEF Shown, Filter
  <2> HIDE DEF places
  <2> QED BY <2>1, KeepAll
<1>4. CASE section = "skills"
  BY <1>2, <1>4 DEF ParseSection, ParseSkills, Renamed, Nothing, Paired,
     OnceIfSkills, CardReading
<1>5. CASE section = "certifications"
  BY <1>2, <1>5 DEF ParseSection, ParseCertifications, Renamed, Subtitle, Paired,
     OnceIfSkills, CardReading
<1>6. CASE section = "languages"
  BY <1>2, <1>6 DEF ParseSection, ParseLanguages, Renamed, Nothing, Paired,
     OnceIfSkills, CardReading
<1>7. CASE section = "projects"
  BY <1>2, <1>7 DEF ParseSection, ParseProjects, Renamed, Nothing, RangeOf, Paired,
     OnceIfSkills, CardReading
<1>8. CASE section \in Paired
  BY <1>2, <1>8 DEF ParseSection, ParsePaired, Renamed, Paired, OnceIfSkills, CardReading
<1>9. CASE section = "volunteering"
  BY <1>3, <1>9 DEF ParseSection, ParseVolunteering, Renamed, Subtitle, RangeOf, Paired,
     OnceIfSkills, CardReading
<1>10. CASE section = "courses"
  BY <1>2, <1>10 DEF ParseSection, ParseCourses, Renamed, Subtitle, Nothing, Paired,
     OnceIfSkills, CardReading
<1>11. CASE section = "organizations"
  BY <1>2, <1>11 DEF ParseSection, ParseOrganizations, Renamed, Subtitle, RangeOf, Paired,
     OnceIfSkills, CardReading
<1> QED BY <1>4, <1>5, <1>6, <1>7, <1>8, <1>9, <1>10, <1>11 DEF AllSections, Ranged, Dateless

\* What is read off a card is what was put there.
LEMMA CardTellsTheTruth ==
    ASSUME NEW section \in AllSections, NEW item, IsItem(section, item)
    PROVE  CardReading(section, ItemSlots(section, item)) = TrueItem(section, item, "date")
<1> DEFINE slots == ItemSlots(section, item)
           caption == AsCaption(item)
<1>1. /\ item.start = NoDate \/ IsDay(item.start)
      /\ item.end = NoDate \/ IsDay(item.end)
      /\ item.start = NoDate => item.end = NoDate
      /\ item.by \in {<<>>, <<Word("by")>>}  BY DEF IsItem
<1>2. /\ slots.title = <<item.name>>
      /\ section = "languages" => slots.subtitle = <<>> /\ slots.caption = item.by
      /\ section # "languages" =>
            /\ slots.subtitle = AsSubtitle(section, item)
            /\ slots.caption = IF section = "certifications" THEN AsLabels(item)
                               ELSE IF section \in Ranged THEN AsCaption(item) ELSE <<>>
  BY DEF ItemSlots, Slots
<1>3. item.by \o <<>> = item.by  BY <1>1
<1>4. section \notin Paired => AsSubtitle(section, item) = item.by  BY <1>3 DEF AsSubtitle
<1> SUFFICES CardReading(section, slots) = TrueItem(section, item, "date")  OBVIOUS
<1> HIDE DEF slots
<1>5. ASSUME section \in Ranged
      PROVE  CaptionRange(slots.caption)
               = IF item.start.given THEN TrueRange(item) ELSE NoRange
  <2>1. slots.caption = AsCaption(item)  BY <1>2, <1>5 DEF Ranged
  <2>2. CASE item.start = NoDate
    <3>1. slots.caption = <<>> /\ item.start.given = FALSE
      BY <2>1, <2>2, GivenDates DEF AsCaption
    <3> QED BY <3>1 DEF CaptionRange
  <2>3. CASE item.start # NoDate
    <3>1. IsPeriod(item) /\ item.start.given = TRUE  BY <1>1, <1>5, <2>3, GivenDates DEF IsItem
    <3> QED BY <2>1, <3>1, PeriodIsRead
  <2> QED BY <2>2, <2>3
<1>6. CASE section = "skills"
  <2>1. item.by = <<>>  BY <1>6 DEF IsItem, Unattributed
  <2> QED BY <1>2, <1>6, <2>1 DEF CardReading, TrueItem, Item, Ranged, Paired
<1>7. CASE section = "languages"  BY <1>2, <1>7 DEF CardReading, TrueItem, Item, Ranged, Paired
<1>8. CASE section = "projects"
  <2>1. item.by = <<>>  BY <1>8 DEF IsItem, Unattributed
  <2>2. section \in Ranged  BY <1>8 DEF Ranged
  <2> QED BY <1>2, <1>5, <1>8, <2>1, <2>2 DEF CardReading, TrueItem, Item, Paired
<1>9. CASE section \in {"volunteering", "organizations"}
  <2>1. section \in Ranged /\ slots.subtitle = item.by  BY <1>2, <1>4, <1>9 DEF Ranged, Paired
  <2> QED BY <1>2, <1>5, <1>9, <2>1 DEF CardReading, TrueItem, Item, Paired
<1>10. CASE section = "courses"
  <2>1. slots.subtitle = item.by  BY <1>2, <1>4, <1>10 DEF Paired
  <2> QED BY <1>2, <1>10, <2>1 DEF CardReading, TrueItem, Item, Ranged, Paired
<1>11. CASE section \in Paired
  <2>1. /\ section # "languages" /\ section # "certifications" /\ section \notin Ranged
        /\ slots.caption = <<>> /\ slots.subtitle = AsSubtitle(section, item)
    BY <1>2, <1>11 DEF Ranged, Paired
  <2>2. CardReading(section, slots)
          = Item(<<item.name>>, First(slots.subtitle), PairedDate(slots))
    BY <1>2, <1>11 DEF CardReading, Paired
  <2>3. TrueItem(section, item, "date")
          = Item(<<item.name>>, item.by, IF item.start.given THEN <<Day(item.start)>> ELSE <<>>)
    BY <1>11, <2>1 DEF TrueItem, Given, Day
  <2>4. CASE item.start = NoDate
    <3>1. item.start.given = FALSE /\ slots.subtitle = item.by
      BY <1>3, <2>1, <2>4, GivenDates DEF AsSubtitle
    <3>2. First(slots.subtitle) = item.by /\ Len(slots.subtitle) <= 1
      <4> DEFINE by == Word("by")
      <4>1. item.by = <<>> \/ item.by = <<by>>  BY <1>1
      <4> HIDE DEF by
      <4>2. /\ First(<<>>) = <<>> /\ Len(<<>>) <= 1
            /\ First(<<by>>) = <<by>> /\ Len(<<by>>) <= 1  BY DEF First
      <4> QED BY <3>1, <4>1, <4>2
    <3>3. PairedDate(slots) = <<>>  BY <2>1, <3>2 DEF PairedDate
    <3> QED BY <2>2, <2>3, <3>1, <3>2, <3>3
  <2>5. CASE item.start # NoDate
    <3>1. item.start.given = TRUE /\ item.by = <<Word("by")>>
      BY <1>1, <1>11, <2>5, GivenDates DEF IsItem
    <3> DEFINE by == Word("by")
               day == Day(item.start)
    <3>2. slots.subtitle = <<by>> \o <<day>>  BY <1>11, <2>1, <3>1 DEF AsSubtitle
    <3> HIDE DEF by, day
    <3>3. slots.subtitle = <<by, day>>  BY <3>2, JoinedPair
    <3>4. First(slots.subtitle) = <<by>> /\ PairedDate(slots) = <<day>>
      BY <3>3 DEF First, Second, PairedDate
    <3> QED BY <2>2, <2>3, <3>1, <3>4 DEF by, day
  <2> QED BY <2>4, <2>5
<1>12. CASE section = "certifications"
  <2> DEFINE issued == [kind |-> "issued", date |-> item.start]
             expires == [kind |-> "expires", date |-> item.end]
             F == {i \in DOMAIN slots.caption : slots.caption[i].kind = "issued"}
             G == {i \in DOMAIN slots.caption : slots.caption[i].kind = "expires"}
             found == First(Keep(slots.caption, F))
             last == First(Keep(slots.caption, G))
  <2>1. slots.subtitle = item.by /\ slots.caption = AsLabels(item)
    BY <1>2, <1>4, <1>12 DEF Paired
  <2>2. CardReading(section, slots) = Item(<<item.name>>, item.by, Certified(slots))
    BY <1>2, <1>12, <2>1 DEF CardReading, Paired
  <2>3. Certified(slots)
          = [issued |-> IF found = <<>> THEN slots.caption ELSE <<Day(found[1].date)>>,
             expires |-> IF last = <<>> THEN <<>> ELSE <<Day(last[1].date)>>]
    BY DEF Certified, FirstIn, Filter
  <2>4. TrueItem(section, item, "date")
          = Item(<<item.name>>, item.by,
                 [issued |-> IF item.start.given THEN <<Day(item.start)>> ELSE <<>>,
                  expires |-> IF item.end.given THEN <<Day(item.end)>> ELSE <<>>])
    BY <1>12 DEF TrueItem, Given, Day, Ranged
  <2>5. CASE item.start = NoDate
    <3>1. slots.caption = <<>> /\ item.start.given = FALSE /\ item.end.given = FALSE
      BY <1>1, <2>1, <2>5, GivenDates DEF AsLabels
    <3>2. <<>> \in Seq({}) /\ F \cap 1..Len(<<>>) = {} /\ G \cap 1..Len(<<>>) = {}  OBVIOUS
    <3> HIDE DEF F, G
    <3>3. Keep(slots.caption, F) = <<>> /\ Keep(slots.caption, G) = <<>>
      BY <3>1, <3>2, KeepNone
    <3>4. found = <<>> /\ last = <<>>  BY <3>3 DEF First
    <3> HIDE DEF found, last
    <3> QED BY <2>2, <2>3, <2>4, <3>1, <3>4
  <2>6. CASE item.start # NoDate /\ item.end = NoDate
    <3> DEFINE labels == <<issued>>
    <3>1. /\ slots.caption = labels \o <<>>
          /\ item.start.given = TRUE /\ item.end.given = FALSE
      BY <1>1, <2>1, <2>6, GivenDates DEF AsLabels
    <3>2. slots.caption = labels  BY <3>1
    <3>3. /\ labels \in Seq({issued}) /\ 1 \in 1..Len(labels) /\ labels[1] = issued
          /\ F \cap 1..Len(labels) = {1} /\ G \cap 1..Len(labels) = {}  BY <3>2
    <3> HIDE DEF F, G, issued, labels
    <3>4. First(Keep(labels, F)) = <<issued>> /\ Keep(labels, G) = <<>>
      BY <3>3, FirstKept, KeepNone
    <3>5. found = <<issued>> /\ last = <<>>  BY <3>2, <3>4 DEF First
    <3> HIDE DEF found, last
    <3>6. found # <<>> /\ found[1].date = item.start  BY <3>5 DEF issued
    <3> QED BY <2>2, <2>3, <2>4, <3>1, <3>5, <3>6
  <2>7. CASE item.start # NoDate /\ item.end # NoDate
    <3> DEFINE labels == <<issued, expires>>
    <3>1. /\ slots.caption = <<issued>> \o <<expires>>
          /\ item.start.given = TRUE /\ item.end.given = TRUE
      BY <1>1, <2>1, <2>7, GivenDates DEF AsLabels
    <3>2. slots.caption = labels
      <4> HIDE DEF issued, expires
      <4> QED BY <3>1, JoinedPair
    <3>3. /\ labels \in Seq({issued, expires}) /\ Len(labels) = 2
          /\ labels[1] = issued /\ labels[2] = expires  OBVIOUS
    <3>4. F \cap 1..Len(labels) = {1} /\ G \cap 1..Len(labels) = {2}  BY <3>2
    <3> HIDE DEF F, G, issued, expires, labels
    <3>5. First(Keep(labels, F)) = <<issued>> /\ First(Keep(labels, G)) = <<expires>>
      <4>1. 1 \in 1..Len(labels) /\ 2 \in 1..Len(labels)  BY <3>3
      <4> QED BY <3>3, <3>4, <4>1, FirstKept
    <3>6. found = <<issued>> /\ last = <<expires>>  BY <3>2, <3>5
    <3> HIDE DEF found, last
    <3>7. found # <<>> /\ last # <<>> /\ found[1].date = item.start /\ last[1].date = item.end
      BY <3>6 DEF issued, expires
    <3> QED BY <2>2, <2>3, <2>4, <3>1, <3>7
  <2> QED BY <2>5, <2>6, <2>7
<1> QED BY <1>6, <1>7, <1>8, <1>9, <1>10, <1>11, <1>12
         DEF AllSections, Ranged, Paired, Dateless

--------
(* The items of a section among typed entities. *)

\* The places behind a prefix hold what follows it.
LEMMA KeepBehind ==
    ASSUME NEW S, NEW prefix \in Seq(S), NEW tail \in Seq(S)
    PROVE  Keep(prefix \o tail, (Len(prefix) + 1)..(Len(prefix) + Len(tail))) = tail
<1> DEFINE n == Len(prefix)
           m == Len(tail)
           places == (n + 1)..(n + m)
           seq == prefix \o tail
           at == [i \in 1..m |-> n + i]
           kept == Keep(seq, places)
<1>1. n \in Nat /\ m \in Nat  BY LenProperties
<1>2. /\ seq \in Seq(S) /\ Len(seq) = n + m
      /\ \A i \in 1..(n + m) : seq[i] = IF i <= n THEN prefix[i] ELSE tail[i - n]
  BY ConcatProperties
<1> HIDE DEF seq
<1>3. places \cap 1..Len(seq) = places  BY <1>1, <1>2
<1>4. Enumerates(at, m, places)
  <2>1. at \in [1..m -> places]  BY <1>1
  <2>2. \A place \in places : place - n \in 1..m /\ at[place - n] = place  BY <1>1
  <2>3. \A i, k \in 1..m : i < k => at[i] < at[k]  BY <1>1
  <2> HIDE DEF at, n, m
  <2> QED BY <2>1, <2>2, <2>3 DEF Enumerates
<1>5. kept \in Seq(S) /\ Len(kept) = m /\ KeepsAt(at, kept, seq, places)
  <2> DEFINE within == places \cap 1..Len(seq)
  <2> HIDE DEF at, kept, m, n, places
  <2>1. Enumerates(at, m, within)  BY <1>3, <1>4
  <2>2. /\ Keep(seq, places) \in Seq(S) /\ Len(Keep(seq, places)) = m
        /\ KeepsAt(at, Keep(seq, places), seq, within)  BY <1>1, <1>2, <2>1, KeepIs
  <2>3. within = places  BY <1>3
  <2> HIDE DEF within
  <2> QED BY <2>2, <2>3 DEF kept
<1> HIDE DEF kept, places
<1>6. \A i \in 1..m : kept[i] = tail[i]
  <2>1. \A i \in 1..m : kept[i] = seq[n + i]  BY <1>5 DEF KeepsAt
  <2>2. \A i \in 1..m : n + i \in 1..(n + m) /\ ~(n + i <= n) /\ (n + i) - n = i  BY <1>1
  <2> SUFFICES ASSUME NEW i \in 1..m PROVE kept[i] = tail[i]  OBVIOUS
  <2>3. n + i \in 1..(n + m) /\ ~(n + i <= n) /\ (n + i) - n = i /\ kept[i] = seq[n + i]
    BY <2>1, <2>2
  <2> DEFINE place == n + i
  <2> HIDE DEF place, n, m
  <2>4. seq[place] = IF place <= n THEN prefix[place] ELSE tail[place - n]
    BY <2>3, <1>2 DEF place
  <2> QED BY <2>3, <2>4 DEF place
<1>7. kept = tail  BY <1>5, <1>6, SeqEqual
<1> QED BY <1>7 DEF kept, seq, places

\* When the entities of a type stand at the end, they are found, as they stand.
LEMMA ByTypeBehind ==
    ASSUME NEW S, NEW prefix \in Seq(S), NEW tail \in Seq(S), NEW suffix, NEW type,
           IsSuffix(suffix, type), \A i \in 1..Len(prefix) : ~IsSuffix(suffix, prefix[i].type),
           \A i \in 1..Len(tail) : tail[i].type = type
    PROVE  ByType(prefix \o tail, {suffix}) = tail
<1> DEFINE included == prefix \o tail
           n == Len(prefix)
           m == Len(tail)
           places == PlacesOfType(included, {suffix})
<1>1. n \in Nat /\ m \in Nat  BY LenProperties
<1>2. /\ included \in Seq(S) /\ Len(included) = n + m
      /\ \A i \in 1..(n + m) : included[i] = IF i <= n THEN prefix[i] ELSE tail[i - n]
  BY ConcatProperties
<1> HIDE DEF included
<1>3. DOMAIN included = 1..(n + m)  BY <1>2, LenProperties
<1>4. ASSUME NEW i \in 1..(n + m)
      PROVE  /\ i \in (n + 1)..(n + m) => included[i].type = type
             /\ IsSuffix(suffix, included[i].type) => i \in (n + 1)..(n + m)
  <2>1. CASE i <= n
    <3>1. i \in 1..n /\ i \notin (n + 1)..(n + m)  BY <1>1, <2>1
    <3> QED BY <3>1, <1>2, <2>1
  <2>2. CASE ~(i <= n)
    <3>1. i - n \in 1..m /\ i \in (n + 1)..(n + m)  BY <1>1, <2>2
    <3>2. included[i] = tail[i - n]  BY <1>2, <2>2
    <3> QED BY <3>1, <3>2
  <2> QED BY <2>1, <2>2
<1>5. places = (n + 1)..(n + m) /\ \A p \in places : included[p].type = type
  <2>1. \A p \in places : p \in (n + 1)..(n + m)  BY <1>2, <1>4 DEF PlacesOfType
  <2>2. \A p \in (n + 1)..(n + m) : p \in 1..(n + m)  BY <1>1
  <2>3. \A p \in (n + 1)..(n + m) : p \in places  BY <2>2, <1>2, <1>4 DEF PlacesOfType
  <2> HIDE DEF places
  <2> QED BY <2>1, <2>2, <2>3, <1>4
<1> HIDE DEF places
<1>6. PICK types \in Seq({e.type : e \in S}) : Asks(types, included, {suffix})
  BY <1>2, ByTypeAsks
<1> DEFINE seqs == [i \in DOMAIN types |-> Keep(included, HavingType(included, types[i]))]
<1>7. /\ ByType(included, {suffix}) = FlattenSeq(seqs)
      /\ \A i, k \in 1..Len(types) : types[i] = types[k] => i = k
      /\ \A i \in 1..Len(types) : \E p \in places : types[i] = included[p].type
      /\ \A p \in places : \E i \in 1..Len(types) : types[i] = included[p].type
  BY <1>6 DEF Asks, places
<1>8. \A i \in 1..Len(types) : types[i] = type  BY <1>5, <1>7
<1>9. Len(types) \in Nat /\ DOMAIN types = 1..Len(types)  BY <1>6, LenProperties
<1>10. Len(types) \in {0, 1}
  <2>1. ASSUME Len(types) > 1 PROVE FALSE
    <3>1. 1 \in 1..Len(types) /\ 2 \in 1..Len(types)  BY <2>1, <1>9
    <3> QED BY <3>1, <1>7, <1>8
  <2> QED BY <2>1, <1>9
<1>11. ASSUME Len(types) = 1 PROVE FlattenSeq(seqs) = tail
  <2>1. HavingType(included, types[1]) = places
    <3>1. types[1] = type  BY <1>8, <1>11
    <3>2. \A p \in 1..(n + m) : included[p].type = type => p \in places  BY <1>4, <1>5
    <3>3. places \subseteq 1..(n + m)  BY <1>1, <1>5
    <3> QED BY <3>1, <3>2, <3>3, <1>3, <1>5 DEF HavingType
  <2>2. seqs = [i \in 1..1 |-> Keep(included, HavingType(included, types[1]))]  BY <1>9, <1>11
  <2>3. Keep(included, HavingType(included, types[1])) = tail
    BY <2>1, <1>5, KeepBehind DEF included
  <2>4. seqs = <<tail>>  BY <2>2, <2>3
  <2> QED BY <2>4, FlattenOne
<1>12. ASSUME Len(types) = 0 PROVE FlattenSeq(seqs) = tail
  <2>1. seqs = <<>>  BY <1>9, <1>12
  <2>2. places = {}  BY <1>7, <1>12
  <2>3. tail = <<>>  BY <2>2, <1>1, <1>5, EmptySeq
  <2> HIDE DEF seqs
  <2> QED BY <2>1, <2>3 DEF FlattenSeq
<1> QED BY <1>7, <1>10, <1>11, <1>12 DEF included

\* One type is no suffix of another that ends in another word.
LEMMA OtherEnding ==
    ASSUME NEW S, NEW s \in Seq(S), NEW t \in Seq(S), s # <<>>, t # <<>>,
           s[Len(s)] # t[Len(t)]
    PROVE  ~IsSuffix(s, t)
<1> DEFINE u == Reverse(s)
           v == Reverse(t)
<1>1. Len(s) \in Nat /\ Len(t) \in Nat /\ Len(s) # 0 /\ Len(t) # 0  BY LenProperties, EmptySeq
<1>2. /\ Len(u) = Len(s) /\ u[1] = s[Len(s)]
      /\ Len(v) = Len(t) /\ v[1] = t[Len(t)]
  <2>1. /\ u = [i \in 1..Len(s) |-> s[(Len(s) - i) + 1]]
        /\ v = [i \in 1..Len(t) |-> t[(Len(t) - i) + 1]]  BY DEF Reverse
  <2>2. 1 \in 1..Len(s) /\ 1 \in 1..Len(t) /\ (Len(s) - 1) + 1 = Len(s) /\ (Len(t) - 1) + 1 = Len(t)
    BY <1>1
  <2> QED BY <2>1, <2>2, <1>1
<1> HIDE DEF u, v
<1>3. ASSUME IsPrefix(u, v) PROVE FALSE
  <2>1. u[1] = v[1]  BY <1>1, <1>2, <1>3 DEF IsPrefix
  <2> QED BY <2>1, <1>2
<1> QED BY <1>3 DEF IsSuffix, u, v

\* A type that two words are put before still ends as it did.
LEMMA EndOfJoined ==
    ASSUME NEW S, NEW s \in Seq(S), NEW t \in Seq(S)
    PROVE  IsSuffix(t, s \o t)
<1> DEFINE u == Reverse(t)
           v == Reverse(s \o t)
           n == Len(s)
           m == Len(t)
<1>1. n \in Nat /\ m \in Nat  BY LenProperties
<1>2. /\ s \o t \in Seq(S) /\ Len(s \o t) = n + m
      /\ \A i \in 1..(n + m) : (s \o t)[i] = IF i <= n THEN s[i] ELSE t[i - n]
  BY ConcatProperties
<1>3. Len(u) = m /\ Len(v) = n + m  BY <1>1, <1>2 DEF Reverse
<1>4. ASSUME NEW i \in 1..m PROVE u[i] = v[i]
  <2>1. u[i] = t[(m - i) + 1]  BY DEF Reverse
  <2>2. i \in 1..(n + m) /\ ((n + m) - i) + 1 \in 1..(n + m) /\ ~(((n + m) - i) + 1 <= n)
        /\ (((n + m) - i) + 1) - n = (m - i) + 1  BY <1>1
  <2>3. v[i] = (s \o t)[((n + m) - i) + 1]  BY <1>2, <2>2 DEF Reverse
  <2> QED BY <1>2, <2>1, <2>2, <2>3
<1> HIDE DEF u, v
<1>5. IsPrefix(u, v)
  <2>1. DOMAIN u = 1..m  BY <1>3 DEF u, Reverse
  <2> QED BY <1>1, <1>3, <1>4, <2>1 DEF IsPrefix
<1> QED BY <1>5 DEF IsSuffix, u, v

\* The type and the fields of each section, one by one.
LEMMA TypedAsCases ==
    /\ TypedAs("skills") = [type |-> <<"Skill">>, name |-> "name", by |-> "-"]
    /\ TypedAs("certifications") = [type |-> <<"Certification">>, name |-> "name", by |-> "authority"]
    /\ TypedAs("languages") = [type |-> <<"Language">>, name |-> "name", by |-> "proficiency"]
    /\ TypedAs("projects") = [type |-> <<"Project">>, name |-> "title", by |-> "-"]
    /\ TypedAs("publications") = [type |-> <<"Publication">>, name |-> "name", by |-> "publisher"]
    /\ TypedAs("honors") = [type |-> <<"Honor">>, name |-> "title", by |-> "issuer"]
    /\ TypedAs("volunteering") = [type |-> <<"Volunteer", "Experience">>, name |-> "role", by |-> "companyName"]
    /\ TypedAs("courses") = [type |-> <<"Course">>, name |-> "name", by |-> "number"]
    /\ TypedAs("patents") = [type |-> <<"Patent">>, name |-> "title", by |-> "number"]
    /\ TypedAs("organizations") = [type |-> <<"Organization">>, name |-> "name", by |-> "position"]
    /\ TypedAs("test_scores") = [type |-> <<"Test", "Score">>, name |-> "name", by |-> "score"]
BY DEF TypedAs

\* The type of a section is a name with parts.
LEMMA TypeNames ==
    ASSUME NEW section \in AllSections
    PROVE  TypedAs(section).type \in Seq(TypeWords) /\ TypedAs(section).type # <<>>
<1> DEFINE W == TypeWords
           IsName(type) == type \in Seq(TypeWords) /\ type # <<>>
           Names == {<<"Skill">>, <<"Certification">>, <<"Language">>, <<"Project">>,
                     <<"Publication">>, <<"Honor">>, <<"Volunteer", "Experience">>, <<"Course">>,
                     <<"Patent">>, <<"Organization">>, <<"Test", "Score">>}
<1>1. /\ "Skill" \in W /\ "Certification" \in W /\ "Language" \in W /\ "Project" \in W
      /\ "Publication" \in W /\ "Honor" \in W /\ "Volunteer" \in W /\ "Experience" \in W
      /\ "Course" \in W /\ "Patent" \in W /\ "Organization" \in W /\ "Test" \in W
      /\ "Score" \in W  BY DEF TypeWords
<1> SUFFICES IsName(TypedAs(section).type)  OBVIOUS
<1>2. (\A w \in W : IsName(<<w>>)) /\ \A v, w \in W : IsName(<<v, w>>)  OBVIOUS
<1>3. TypedAs(section).type \in Names  BY TypedAsCases DEF AllSections, Ranged, Paired, Dateless
<1> HIDE DEF IsName
<1>4. \A type \in Names : IsName(type)  BY <1>1, <1>2
<1> QED BY <1>3, <1>4

\* A type is found by its end, and neither the subject nor what LinkedIn adds nor a
\* card, which end in other words, is of that type.
LEMMA OthersAreOther ==
    ASSUME NEW W, "Group" \notin W, "Profile" \notin W, "Card" \notin W,
           NEW type \in Seq(W), type # <<>>
    PROVE  /\ IsSuffix(type, NamedType(type))
           /\ \A other \in OtherEntities : ~IsSuffix(type, other)
<1> DEFINE S == W \cup {"identity.profile", ".", "Profile", "Position", "Group", "Card"}
           head == <<"identity.profile", ".">>
           group == <<"Position", "Group">>
           subject == <<"identity.profile", ".", "Profile">>
           card == <<"Profile", "Card">>
<1>1. /\ head \in Seq(S) /\ Len(head) = 2 /\ group \in Seq(S) /\ Len(group) = 2
      /\ group[2] = "Group" /\ subject \in Seq(S) /\ Len(subject) = 3 /\ subject[3] = "Profile"
      /\ subject # <<>> /\ card \in Seq(S) /\ Len(card) = 2 /\ card[2] = "Card" /\ card # <<>>
      /\ W \subseteq S  OBVIOUS
<1>2. OtherEntities = {subject, head \o group, card}
  BY DEF OtherEntities, SubjectEntity, Person, Noise, Typed
<1>3. NamedType(type) = head \o type  BY DEF NamedType
<1> HIDE DEF S, head, group, subject, card
<1>4. type \in Seq(S) /\ type[Len(type)] \in W
  <2>1. Len(type) \in 1..Len(type) /\ \A i \in 1..Len(type) : type[i] \in W
    BY LenProperties, EmptySeq
  <2>2. type \in Seq(S)  BY <1>1
  <2> QED BY <2>1, <2>2
<1>5. ASSUME NEW other \in Seq(S), other # <<>>, other[Len(other)] \notin W
      PROVE  ~IsSuffix(type, other)
  <2>1. type[Len(type)] # other[Len(other)]  BY <1>4, <1>5
  <2> QED BY <1>4, <1>5, <2>1, OtherEnding
<1>6. /\ head \o group \in Seq(S) /\ head \o group # <<>>
      /\ (head \o group)[Len(head \o group)] = "Group"
  <2>1. /\ head \o group \in Seq(S) /\ Len(head \o group) = Len(head) + Len(group)
        /\ \A i \in 1..(Len(head) + Len(group)) :
              (head \o group)[i] = IF i <= Len(head) THEN head[i] ELSE group[i - Len(head)]
    BY <1>1, ConcatProperties
  <2>2. Len(head \o group) = 4 /\ (head \o group)[4] = "Group"  BY <1>1, <2>1
  <2>3. head \o group # <<>>  BY <2>2
  <2> QED BY <2>1, <2>2, <2>3
<1>7. ~IsSuffix(type, subject) /\ ~IsSuffix(type, head \o group) /\ ~IsSuffix(type, card)
  BY <1>1, <1>5, <1>6
<1>8. IsSuffix(type, head \o type)  BY <1>1, <1>4, EndOfJoined
<1> QED BY <1>2, <1>3, <1>7, <1>8

\* Neither the subject nor what LinkedIn adds is an item.
LEMMA OtherTypes ==
    ASSUME NEW section \in AllSections
    PROVE  /\ IsSuffix(TypedAs(section).type, TypeOf(section))
           /\ ~IsSuffix(TypedAs(section).type, SubjectEntity.type)
           /\ ~IsSuffix(TypedAs(section).type, Noise[1].type)
<1>1. "Group" \notin TypeWords /\ "Profile" \notin TypeWords /\ "Card" \notin TypeWords
  BY DEF TypeWords
<1> QED BY <1>1, TypeNames, OthersAreOther DEF OtherEntities, TypeOf, NamedType

\* by_type finds, among everything else in a response, exactly the items of the
\* section, in their order, in both typed tiers.
LEMMA ItemsAreFound ==
    ASSUME NEW section \in AllSections, NEW I, NEW items \in Seq(I)
    PROVE  /\ ByType(DashItems(section, items), {TypedAs(section).type})
                = AsEntities(section, items)
           /\ ByType(RestItems(section, items), {TypedAs(section).type})
                = AsEntities(section, items)
           /\ Subject(DashItems(section, items)) # <<>>
<1> DEFINE type == TypedAs(section).type
           entities == AsEntities(section, items)
           group == Noise[1]
           S == {SubjectEntity, group} \cup {entities[i] : i \in DOMAIN entities}
           one == <<SubjectEntity>>
           two == <<SubjectEntity, group>>
           empty == <<>>
<1>1. Len(items) \in Nat /\ DOMAIN items = 1..Len(items)  BY LenProperties
<1>2. entities \in Seq(S) /\ Len(entities) = Len(items)
      /\ \A i \in 1..Len(entities) : entities[i].type = TypeOf(section)
  <2> DEFINE Entity(i) ==
               Typed(type, i,
                     [f \in {TypedAs(section).name, TypedAs(section).by} |->
                        IF f = TypedAs(section).name THEN <<items[i].name>> ELSE items[i].by],
                     items[i].start, items[i].end)
  <2>1. entities = [i \in 1..Len(items) |-> Entity(i)]  BY <1>1 DEF AsEntities
  <2>2. \A i \in 1..Len(items) : Entity(i).type = TypeOf(section)  BY DEF Typed, TypeOf
  <2> HIDE DEF Entity, entities
  <2>3. entities \in Seq(S)  BY <1>1, <2>1
  <2> QED BY <1>1, <2>1, <2>2, <2>3
<1>3. Noise = <<group>>  BY DEF Noise
<1> HIDE DEF entities, group
<1>4. /\ one \in Seq(S) /\ Noise \in Seq(S) /\ two \in Seq(S) /\ empty \in Seq(S)
      /\ Len(Noise) = 1 /\ Len(two) = 2 /\ two[1] = SubjectEntity /\ two[2] = group
      /\ Len(one) = 1 /\ one[1] = SubjectEntity  BY <1>3
<1>5. one \o Noise = two  BY <1>3, JoinedPair
<1> HIDE DEF S, one, two, empty
<1>13. one \in Seq(S) /\ Noise \in Seq(S) /\ two \in Seq(S) /\ entities \in Seq(S)
  BY <1>2, <1>4
<1>6. one \o (Noise \o entities) = two \o entities
  <2>1. (one \o Noise) \o entities = one \o (Noise \o entities)  BY <1>13, ConcatAssociative, SMTT(30)
  <2> QED BY <1>5, <2>1
<1>7. /\ IsSuffix(type, TypeOf(section)) /\ ~IsSuffix(type, SubjectEntity.type)
      /\ ~IsSuffix(type, group.type)  BY OtherTypes DEF group
<1> HIDE DEF type
<1>8. ByType(two \o entities, {type}) = entities
  <2>1. \A i \in 1..Len(two) : ~IsSuffix(type, two[i].type)  BY <1>4, <1>7
  <2> QED BY <1>2, <1>4, <1>7, <2>1, ByTypeBehind
<1>9. ByType(Noise \o entities, {type}) = entities
  <2>1. \A i \in 1..Len(Noise) : ~IsSuffix(type, Noise[i].type)  BY <1>3, <1>4, <1>7
  <2> QED BY <1>2, <1>4, <1>7, <2>1, ByTypeBehind
<1>10. RestItems(section, items) = Noise \o entities
  <2>1. empty \o (Noise \o entities) = Noise \o entities
    <3>1. Noise \o entities \in Seq(S)  BY <1>2, <1>4, ConcatProperties
    <3> QED BY <3>1 DEF empty
  <2>2. RestItems(section, items) = empty \o (Noise \o entities)
    BY DEF RestItems, Index, entities, empty
  <2> QED BY <2>1, <2>2
<1>11. Subject(two \o entities) # <<>>
  <2>1. /\ two \o entities \in Seq(S) /\ Len(two \o entities) = Len(two) + Len(entities)
        /\ \A i \in 1..(Len(two) + Len(entities)) :
              (two \o entities)[i] = IF i <= Len(two) THEN two[i] ELSE entities[i - Len(two)]
    BY <1>13, ConcatProperties
  <2>2. Len(two \o entities) > 1 /\ (two \o entities)[1] = SubjectEntity
    BY <1>1, <1>2, <1>4, <2>1
  <2> DEFINE included == two \o entities
  <2>3. included \in Seq(S) /\ included # <<>> /\ included[1] = SubjectEntity  BY <2>1, <2>2
  <2> HIDE DEF included
  <2>4. Subject(included) = <<SubjectEntity>>  BY <2>3, SubjectIsFound
  <2> QED BY <2>4 DEF included
<1> QED BY <1>6, <1>8, <1>9, <1>10, <1>11 DEF DashItems, entities, type, one

\* Entities that all have what they need are all found.
LEMMA AllFound ==
    ASSUME NEW E, NEW entities \in Seq(E), NEW needs,
           \A i \in 1..Len(entities) : needs = <<>> \/ Text(entities[i], needs) # <<>>
    PROVE  Keep(entities, {i \in DOMAIN entities :
                             needs = <<>> \/ Text(entities[i], needs) # <<>>}) = entities
<1> DEFINE places == {i \in DOMAIN entities : needs = <<>> \/ Text(entities[i], needs) # <<>>}
<1>1. \A i \in 1..Len(entities) : i \in places  BY LenProperties
<1> SUFFICES Keep(entities, places) = entities  OBVIOUS
<1> HIDE DEF places
<1> QED BY <1>1, KeepAll

\* An entity with the fields of a section tells its name and source.
LEMMA NameAndSource ==
    ASSUME NEW e, NEW name, NEW by, name # by, NEW word, NEW source \in {<<>>, <<Word("by")>>},
           HasFields(e, name, by, word, source)
    PROVE  Tells(e, name, by, word, source)
<1> DEFINE words == <<word>>
           none == <<>>
           W == {word, Word("by")}
<1>1. words \in Seq(W) /\ words # <<>> /\ source \in Seq(W)
  <2> DEFINE u == Word("by")
  <2>1. word \in W /\ u \in W /\ source \in {<<>>, <<u>>}  OBVIOUS
  <2> HIDE DEF u, W
  <2>2. <<word>> \in Seq(W) /\ <<word>> # <<>>  BY <2>1
  <2>3. <<u>> \in Seq(W) /\ <<>> \in Seq(W)  BY <2>1
  <2> QED BY <2>1, <2>2, <2>3
<1>2. /\ Field(e, name) = words /\ Field(e, by) = source
      /\ \A other : other \notin {name, by} => Field(e, other) = <<>>
  BY DEF Field, HasFields
<1> HIDE DEF words, W
<1>3. ASSUME NEW N, NEW names \in Seq(N), names # <<>>, names[1] = name
      PROVE  Text(e, names) = words  BY <1>1, <1>2, <1>3, TextOfFirst
<1>4. ASSUME NEW N, NEW names \in Seq(N), names # <<>>, names[1] = by,
             \A i \in 1..Len(names) : names[i] # name
      PROVE  Text(e, names) = source
  <2>1. CASE source # <<>>  BY <1>1, <1>2, <1>4, <2>1, TextOfFirst
  <2>2. CASE source = <<>>
    <3>1. \A i \in 1..Len(names) : Field(e, names[i]) = <<>>  BY <1>2, <1>4, <2>2
    <3> QED BY <1>4, <2>2, <3>1, TextOfNone
  <2> QED BY <2>1, <2>2
<1>5. Text(e, <<name>>) = words
  <2> DEFINE names == <<name>>
             N == {name}
  <2>1. names \in Seq(N) /\ names # <<>> /\ names[1] = name  OBVIOUS
  <2> HIDE DEF names, N
  <2>2. Text(e, names) = words  BY <1>3, <2>1
  <2> QED BY <2>2 DEF names
<1>6. ASSUME NEW other PROVE Text(e, <<name, other>>) = words
  <2> DEFINE names == <<name, other>>
             N == {name, other}
  <2>1. names \in Seq(N) /\ names # <<>> /\ names[1] = name  OBVIOUS
  <2> HIDE DEF names, N
  <2>2. Text(e, names) = words  BY <1>3, <2>1
  <2> QED BY <2>2 DEF names
<1>7. Text(e, <<by>>) = source
  <2> DEFINE names == <<by>>
             N == {by}
  <2>1. names \in Seq(N) /\ names # <<>> /\ names[1] = by /\ \A i \in 1..Len(names) : names[i] # name
    OBVIOUS
  <2> HIDE DEF names, N
  <2>2. Text(e, names) = source  BY <1>4, <2>1
  <2> QED BY <2>2 DEF names
<1>8. ASSUME NEW other, other \notin {name, by} PROVE Text(e, <<by, other>>) = source
  <2> DEFINE names == <<by, other>>
             N == {by, other}
  <2>1. names \in Seq(N) /\ names # <<>> /\ names[1] = by /\ \A i \in 1..Len(names) : names[i] # name
    BY <1>8
  <2> HIDE DEF names, N
  <2>2. Text(e, names) = source  BY <1>4, <2>1
  <2> QED BY <2>2 DEF names
<1>9. Text(e, none) = <<>>
  <2>1. none \in Seq({}) /\ \A i \in 1..Len(none) : Field(e, none[i]) = <<>>  OBVIOUS
  <2> HIDE DEF none
  <2> QED BY <2>1, TextOfNone
<1> QED BY <1>1, <1>5, <1>6, <1>7, <1>8, <1>9 DEF words, none, Tells

\* The dates of an entity in both tiers.
LEMMA DatesAreRead ==
    ASSUME NEW section \in AllSections, NEW item, IsItem(section, item),
           NEW e, Says(e, section, item)
    PROVE  /\ section \in Ranged => DashRange(e) = TrueItem(section, item, "iso").when
           /\ section \in Ranged => \/ RestRange(e) = TrueItem(section, item, "iso").when
                                    \/ Lacks(section, item) /\ RestRange(e).current
           /\ section = "certifications" =>
                 /\ Certificate(DashRange(e)) = TrueItem(section, item, "iso").when
                 /\ Certificate(RestRange(e)) = TrueItem(section, item, "iso").when
           /\ section \in Paired => IsoOf(e) = TrueItem(section, item, "iso").when
           /\ section \in Dateless => Undated(e) = TrueItem(section, item, "iso").when
<1> DEFINE raw == [given |-> TRUE, start |-> item.start, end |-> item.end]
           full == StructuredRange(raw)
<1>1. /\ item.start = NoDate \/ IsDay(item.start)
      /\ item.end = NoDate \/ IsDay(item.end)
      /\ item.start = NoDate => item.end = NoDate  BY DEF IsItem
<1>2. /\ item.start.given \in BOOLEAN /\ item.end.given \in BOOLEAN
      /\ item.start.given <=> item.start # NoDate
      /\ item.end.given <=> item.end # NoDate  BY <1>1, GivenDates
<1>0. InIso(item.start) = Given(item.start, "iso") /\ InIso(item.end) = Given(item.end, "iso")
  BY <1>1, <1>2 DEF InIso, Given, IsDay, Known, NoDate
<1>3. RestRange(e) = full
  <2>1. e.range = [given |-> item.start.given, start |-> item.start, end |-> item.end]
    BY DEF Says
  <2>2. /\ DOMAIN e.range = {"given", "start", "end"}
        /\ e.range.start = item.start /\ e.range.end = item.end  BY <2>1
  <2>3. /\ raw.given = TRUE /\ raw.start = item.start /\ raw.end = item.end
        /\ raw = [x \in {"given", "start", "end"} |-> raw[x]]  OBVIOUS
  <2> HIDE DEF raw
  <2>4. \A x \in {"given", "start", "end"} : raw[x] = [e.range EXCEPT !.given = TRUE][x]
    BY <2>2, <2>3
  <2>5. [e.range EXCEPT !.given = TRUE] = raw  BY <2>2, <2>3, <2>4
  <2> QED BY <2>5 DEF RestRange
<1>4. DashRange(e) = IF item.start.given THEN full ELSE NoRange
  BY <1>2 DEF DashRange, StructuredRange, Says
<1>5. full.start = item.start /\ full.end = item.end /\ full.current = ~item.end.given
  <2> DEFINE range == MakeRange(item.start, item.end, ~item.end.given)
  <2>1. full = Finish(range)
    <3>1. ParsePartialDate(item.start) = item.start /\ ParsePartialDate(item.end) = item.end
      BY <1>1, DayIsParsed
    <3> QED BY <3>1 DEF StructuredRange
  <2>2. range.start = item.start /\ range.end = item.end /\ range.current = ~item.end.given
    BY DEF MakeRange, NoRange
  <2>3. DOMAIN range = {"given", "start", "end", "current", "months"}  BY DEF MakeRange, NoRange
  <2> HIDE DEF range, full
  <2>4. /\ Finish(range).start = range.start /\ Finish(range).end = range.end
        /\ Finish(range).current = range.current  BY <2>3 DEF Finish
  <2> QED BY <2>1, <2>2, <2>4
<1>6. ASSUME section \in Ranged, item.start # NoDate PROVE full = TrueRange(item)
  BY <1>6, PeriodIsRead DEF IsItem
<1> HIDE DEF full
<1>7. ASSUME section \in Ranged
      PROVE  TrueItem(section, item, "iso").when = IF item.start.given THEN TrueRange(item) ELSE NoRange
  BY <1>7 DEF TrueItem, Item
<1>8. ASSUME section \in Ranged PROVE DashRange(e) = TrueItem(section, item, "iso").when
  BY <1>2, <1>4, <1>6, <1>7, <1>8
<1>9. ASSUME section \in Ranged
      PROVE  \/ RestRange(e) = TrueItem(section, item, "iso").when
             \/ Lacks(section, item) /\ RestRange(e).current
  <2>1. CASE item.start = NoDate
    <3>1. Lacks(section, item) /\ full.current = TRUE  BY <1>1, <1>2, <1>5, <1>9, <2>1 DEF Lacks
    <3> QED BY <1>3, <3>1
  <2>2. CASE item.start # NoDate  BY <1>2, <1>3, <1>6, <1>7, <1>9, <2>2
  <2> QED BY <2>1, <2>2
<1>10. ASSUME section = "certifications"
       PROVE  /\ Certificate(DashRange(e)) = TrueItem(section, item, "iso").when
              /\ Certificate(RestRange(e)) = TrueItem(section, item, "iso").when
  <2> DEFINE when == [issued |-> InIso(item.start), expires |-> InIso(item.end)]
  <2>1. TrueItem(section, item, "iso").when = when  BY <1>0, <1>10 DEF TrueItem, Item, Ranged
  <2>2. Certificate(full) = when  BY <1>5 DEF Certificate
  <2>3. ASSUME ~item.start.given PROVE Certificate(NoRange) = when
    <3>1. item.start = NoDate /\ item.end = NoDate  BY <1>1, <1>2, <2>3
    <3> QED BY <3>1 DEF Certificate, NoRange
  <2> HIDE DEF when
  <2> QED BY <1>2, <1>3, <1>4, <2>1, <2>2, <2>3
<1>11. ASSUME section \in Paired PROVE IsoOf(e) = TrueItem(section, item, "iso").when
  <2>1. IsoOf(e) = InIso(item.start)
    <3>1. ParsePartialDate(item.start) = item.start  BY <1>1, DayIsParsed
    <3> QED BY <3>1 DEF IsoOf, Iso, Says
  <2>2. section \notin Ranged /\ section # "certifications"  BY <1>11 DEF Paired, Ranged
  <2> QED BY <1>0, <1>11, <2>1, <2>2 DEF TrueItem, Item
<1>12. ASSUME section \in Dateless PROVE Undated(e) = TrueItem(section, item, "iso").when
  <2>1. section \notin Ranged /\ section # "certifications" /\ section \notin Paired
    BY <1>12 DEF Paired, Ranged, Dateless
  <2> QED BY <2>1 DEF TrueItem, Item, Undated
<1> QED BY <1>8, <1>9, <1>10, <1>11, <1>12

\* An item's name and source are in the fields of its type.
LEMMA TextsOfItem ==
    ASSUME NEW section, NEW item, IsItem(section, item), NEW e, Says(e, section, item),
           NEW name, NEW by, TypedAs(section).name = name, TypedAs(section).by = by, name # by
    PROVE  Tells(e, name, by, item.name, item.by)
<1>1. HasFields(e, name, by, item.name, item.by)  BY DEF Says, HasFields
<1>2. item.by \in {<<>>, <<Word("by")>>}  BY DEF IsItem
<1> QED BY <1>1, <1>2, NameAndSource

\* The entities with what a tier needs are all of a section's, and their fields
\* tell the names and the sources of its items.
LEMMA FieldsAreTold ==
    ASSUME NEW section, NEW E, NEW entities \in Seq(E),
           NEW I, NEW items \in Seq(I), Len(items) = Len(entities),
           ItemsSaid(section, items, entities),
           NEW needs, NEW name, NEW by, ReadsFields(section, needs, name, by), NEW tier
    PROVE  /\ Keep(entities, With(entities, needs)) = entities
           /\ FieldsOf(tier, section, entities, name, by)
                = Saying(tier, section, items, entities)
<1>1. /\ DOMAIN entities = 1..Len(entities)
      /\ \A i \in 1..Len(entities) :
            IsItem(section, items[i]) /\ Says(entities[i], section, items[i])
  BY LenProperties DEF ItemsSaid
<1>2. ASSUME NEW i \in 1..Len(entities)
      PROVE  /\ needs = <<>> \/ Text(entities[i], needs) # <<>>
             /\ Text(entities[i], name) = <<items[i].name>>
             /\ Text(entities[i], by) = items[i].by
  <2> DEFINE n == TypedAs(section).name
             b == TypedAs(section).by
  <2>1. n # b  BY DEF ReadsFields
  <2>2. Tells(entities[i], n, b, items[i].name, items[i].by)
    BY <1>1, <1>1, <1>1, <2>1, TextsOfItem
  <2>3. section \in Unattributed => items[i].by = <<>>  BY <1>1 DEF IsItem
  <2> HIDE DEF n, b
  <2>4. ReadsFields(section, needs, name, by) <=>
          /\ n # b
          /\ name = <<n>> \/ \E other : name = <<n, other>>
          /\ needs = <<>> \/ needs = <<n>> \/ \E other : needs = <<n, other>>
          /\ \/ by = <<b>>
             \/ \E other : other \notin {n, b} /\ by = <<b, other>>
             \/ by = <<>> /\ section \in Unattributed  BY DEF ReadsFields, n, b
  <2>5. Text(entities[i], by) = items[i].by  BY <2>2, <2>3, <2>4 DEF Tells
  <2> QED BY <2>2, <2>4, <2>5 DEF Tells
<1>3. Keep(entities, With(entities, needs)) = entities  BY <1>2, AllFound DEF With
<1> QED BY <1>1, <1>2, <1>3 DEF FieldsOf, Saying





\* What both tiers read off the entities of a section.
LEMMA TiersRead ==
    ASSUME NEW section \in AllSections, NEW E, NEW entities \in Seq(E), NEW included,
           ByType(included, {TypedAs(section).type}) = entities,
           NEW I, NEW items \in Seq(I), Len(items) = Len(entities),
           ItemsSaid(section, items, entities)
    PROVE  /\ DashSection(section, included)
                = OnceIfSkills(section, Saying("dash", section, items, entities))
           /\ RestSection(section, included)
                = OnceIfSkills(section, Saying("rest", section, items, entities))
<1> DEFINE Gives(tier, name, by) ==
             OnceIfSkills(section, FieldsOf(tier, section, entities, name, by))
<1>12. ASSUME NEW needs, NEW name, NEW by, ReadsFields(section, needs, name, by), NEW tier
       PROVE  /\ Keep(entities, With(entities, needs)) = entities
              /\ Gives(tier, name, by) = OnceIfSkills(section, Saying(tier, section, items, entities))
  BY <1>12, FieldsAreTold
<1> USE DEF Items, Filter, With, FieldsOf, WhenIn, RangeIn, Ranged, Paired
<1>1. CASE section = "skills"
  <2>1. /\ TypedAs(section).type = <<"Skill">>
        /\ ReadsFields(section, <<"name">>, <<"name">>, <<>>)
    BY <1>1, TypedAsCases DEF ReadsFields, Unattributed
  <2>2. Keep(entities, With(entities, <<"name">>)) = entities  BY <1>12, <2>1
  <2>3. /\ DashSection(section, included) = Gives("dash", <<"name">>, <<>>)
        /\ RestSection(section, included) = Gives("rest", <<"name">>, <<>>)
    BY <1>1, <2>1, <2>2
    DEF DashSection, RestSection, DashSkills, RestSkills, Required, OnceIfSkills
  <2> HIDE DEF Gives
  <2> QED BY <1>12, <2>1, <2>3
<1>2. CASE section = "certifications"
  <2>1. /\ TypedAs(section).type = <<"Certification">>
        /\ ReadsFields(section, <<>>, <<"name">>, <<"authority">>)
    BY <1>2, TypedAsCases DEF ReadsFields, Unattributed
  <2>2. Keep(entities, With(entities, <<>>)) = entities  BY <1>12, <2>1
  <2>3. /\ DashSection(section, included) = Gives("dash", <<"name">>, <<"authority">>)
        /\ RestSection(section, included) = Gives("rest", <<"name">>, <<"authority">>)
    BY <1>2, <2>1, <2>2
    DEF DashSection, RestSection, DashCertifications, RestCertifications, Anything, OnceIfSkills
  <2> HIDE DEF Gives
  <2> QED BY <1>12, <2>1, <2>3
<1>3. CASE section = "languages"
  <2>1. /\ TypedAs(section).type = <<"Language">>
        /\ ReadsFields(section, <<"name">>, <<"name">>, <<"proficiency">>)
    BY <1>3, TypedAsCases DEF ReadsFields, Unattributed
  <2>2. Keep(entities, With(entities, <<"name">>)) = entities  BY <1>12, <2>1
  <2>3. /\ DashSection(section, included) = Gives("dash", <<"name">>, <<"proficiency">>)
        /\ RestSection(section, included) = Gives("rest", <<"name">>, <<"proficiency">>)
    BY <1>3, <2>1, <2>2
    DEF DashSection, RestSection, DashLanguages, RestLanguages, Required, OnceIfSkills
  <2> HIDE DEF Gives
  <2> QED BY <1>12, <2>1, <2>3
<1>4. CASE section = "projects"
  <2>1. /\ TypedAs(section).type = <<"Project">>
        /\ ReadsFields(section, <<"title", "name">>, <<"title", "name">>, <<>>)
        /\ ReadsFields(section, <<"title">>, <<"title">>, <<>>)
    BY <1>4, TypedAsCases DEF ReadsFields, Unattributed
  <2>2. /\ Keep(entities, With(entities, <<"title", "name">>)) = entities
        /\ Keep(entities, With(entities, <<"title">>)) = entities  BY <1>12, <2>1
  <2>3. /\ DashSection(section, included) = Gives("dash", <<"title", "name">>, <<>>)
        /\ RestSection(section, included) = Gives("rest", <<"title">>, <<>>)
    BY <1>4, <2>1, <2>2
    DEF DashSection, RestSection, DashProjects, RestProjects, Required, OnceIfSkills
  <2> HIDE DEF Gives, With
  <2> QED BY <1>12, <2>1, <2>3
<1>5. CASE section = "publications"
  <2>1. /\ TypedAs(section).type = <<"Publication">>
        /\ ReadsFields(section, <<"name">>, <<"name">>, <<"publisher">>)
    BY <1>5, TypedAsCases DEF ReadsFields, Unattributed
  <2>2. Keep(entities, With(entities, <<"name">>)) = entities  BY <1>12, <2>1
  <2>3. /\ DashSection(section, included) = Gives("dash", <<"name">>, <<"publisher">>)
        /\ RestSection(section, included) = Gives("rest", <<"name">>, <<"publisher">>)
    BY <1>5, <2>1, <2>2
    DEF DashSection, RestSection, DashPublications, RestPublications, Required, OnceIfSkills
  <2> HIDE DEF Gives
  <2> QED BY <1>12, <2>1, <2>3
<1>6. CASE section = "honors"
  <2>1. /\ TypedAs(section).type = <<"Honor">>
        /\ ReadsFields(section, <<"title">>, <<"title">>, <<"issuer">>)
    BY <1>6, TypedAsCases DEF ReadsFields, Unattributed
  <2>2. Keep(entities, With(entities, <<"title">>)) = entities  BY <1>12, <2>1
  <2>3. /\ DashSection(section, included) = Gives("dash", <<"title">>, <<"issuer">>)
        /\ RestSection(section, included) = Gives("rest", <<"title">>, <<"issuer">>)
    BY <1>6, <2>1, <2>2
    DEF DashSection, RestSection, DashHonors, RestHonors, Required, OnceIfSkills
  <2> HIDE DEF Gives
  <2> QED BY <1>12, <2>1, <2>3
<1>7. CASE section = "volunteering"
  <2>1. /\ TypedAs(section).type = <<"Volunteer", "Experience">>
        /\ ReadsFields(section, <<"role", "companyName">>, <<"role">>, <<"companyName">>)
    BY <1>7, TypedAsCases DEF ReadsFields, Unattributed
  <2>2. Keep(entities, With(entities, <<"role", "companyName">>)) = entities  BY <1>12, <2>1
  <2>3. /\ DashSection(section, included) = Gives("dash", <<"role">>, <<"companyName">>)
        /\ RestSection(section, included) = Gives("rest", <<"role">>, <<"companyName">>)
    BY <1>7, <2>1, <2>2
    DEF DashSection, RestSection, DashVolunteering, RestVolunteering, OnceIfSkills
  <2> HIDE DEF Gives
  <2> QED BY <1>12, <2>1, <2>3
<1>8. CASE section = "courses"
  <2>1. /\ TypedAs(section).type = <<"Course">>
        /\ ReadsFields(section, <<"name">>, <<"name">>, <<"number">>)
    BY <1>8, TypedAsCases DEF ReadsFields, Unattributed
  <2>2. Keep(entities, With(entities, <<"name">>)) = entities  BY <1>12, <2>1
  <2>3. /\ DashSection(section, included) = Gives("dash", <<"name">>, <<"number">>)
        /\ RestSection(section, included) = Gives("rest", <<"name">>, <<"number">>)
    BY <1>8, <2>1, <2>2
    DEF DashSection, RestSection, DashCourses, RestCourses, Required, OnceIfSkills
  <2> HIDE DEF Gives
  <2> QED BY <1>12, <2>1, <2>3
<1>9. CASE section = "patents"
  <2>1. /\ TypedAs(section).type = <<"Patent">>
        /\ ReadsFields(section, <<"title">>, <<"title">>, <<"number", "applicationNumber">>)
        /\ ReadsFields(section, <<"title">>, <<"title">>, <<"number">>)
    BY <1>9, TypedAsCases DEF ReadsFields, Unattributed
  <2>2. Keep(entities, With(entities, <<"title">>)) = entities  BY <1>12, <2>1
  <2>3. /\ DashSection(section, included) = Gives("dash", <<"title">>, <<"number", "applicationNumber">>)
        /\ RestSection(section, included) = Gives("rest", <<"title">>, <<"number">>)
    BY <1>9, <2>1, <2>2
    DEF DashSection, RestSection, DashPatents, RestPatents, Required, OnceIfSkills
  <2> HIDE DEF Gives, With
  <2> QED BY <1>12, <2>1, <2>3
<1>10. CASE section = "organizations"
  <2>1. /\ TypedAs(section).type = <<"Organization">>
        /\ ReadsFields(section, <<"name">>, <<"name">>, <<"position">>)
    BY <1>10, TypedAsCases DEF ReadsFields, Unattributed
  <2>2. Keep(entities, With(entities, <<"name">>)) = entities  BY <1>12, <2>1
  <2>3. /\ DashSection(section, included) = Gives("dash", <<"name">>, <<"position">>)
        /\ RestSection(section, included) = Gives("rest", <<"name">>, <<"position">>)
    BY <1>10, <2>1, <2>2
    DEF DashSection, RestSection, DashOrganizations, RestOrganizations, Required, OnceIfSkills
  <2> HIDE DEF Gives
  <2> QED BY <1>12, <2>1, <2>3
<1>11. CASE section = "test_scores"
  <2>1. /\ TypedAs(section).type = <<"Test", "Score">>
        /\ ReadsFields(section, <<"name">>, <<"name">>, <<"score">>)
    BY <1>11, TypedAsCases DEF ReadsFields, Unattributed
  <2>2. Keep(entities, With(entities, <<"name">>)) = entities  BY <1>12, <2>1
  <2>3. /\ DashSection(section, included) = Gives("dash", <<"name">>, <<"score">>)
        /\ RestSection(section, included) = Gives("rest", <<"name">>, <<"score">>)
    BY <1>11, <2>1, <2>2
    DEF DashSection, RestSection, DashTestScores, RestTestScores, Required, OnceIfSkills
  <2> HIDE DEF Gives
  <2> QED BY <1>12, <2>1, <2>3
<1> QED BY <1>1, <1>2, <1>3, <1>4, <1>5, <1>6, <1>7, <1>8, <1>9, <1>10, <1>11
         DEF AllSections, Dateless

\* What the entities say is true, apart from the dates REST does not find.
LEMMA SayingIsTrue ==
    ASSUME NEW section \in AllSections, NEW E, NEW entities \in Seq(E),
           NEW I, NEW items \in Seq(I), Len(items) = Len(entities),
           ItemsSaid(section, items, entities)
    PROVE  /\ Saying("dash", section, items, entities) = TrueItems(section, items, "iso")
           /\ ToldByRest(Saying("rest", section, items, entities), section, items)
<1> DEFINE n == Len(items)
<1>1. n \in Nat  BY LenProperties
<1>2. ASSUME NEW i \in 1..n
      PROVE  /\ WhenIn("dash", section, entities[i]) = TrueItem(section, items[i], "iso").when
             /\ \/ WhenIn("rest", section, entities[i]) = TrueItem(section, items[i], "iso").when
                \/ Lacks(section, items[i]) /\ WhenIn("rest", section, entities[i]).current
  <2> DEFINE e == entities[i]
             item == items[i]
             true == TrueItem(section, item, "iso").when
  <2>1. IsItem(section, item) /\ Says(e, section, item)  BY DEF ItemsSaid
  <2> HIDE DEF e, item
  <2>2. /\ section \in Ranged => DashRange(e) = true
        /\ section \in Ranged => RestRange(e) = true \/ (Lacks(section, item) /\ RestRange(e).current)
        /\ section = "certifications" =>
              Certificate(DashRange(e)) = true /\ Certificate(RestRange(e)) = true
        /\ section \in Paired => IsoOf(e) = true
        /\ section \in Dateless => Undated(e) = true  BY <2>1, DatesAreRead
  <2> HIDE DEF true
  <2>3. /\ WhenIn("dash", section, e) = true
        /\ WhenIn("rest", section, e) = true \/ (Lacks(section, item) /\ WhenIn("rest", section, e).current)
    BY <2>2 DEF WhenIn, RangeIn, AllSections, Ranged, Paired, Dateless
  <2> QED BY <2>3 DEF e, item, true
<1>3. ASSUME NEW tier, NEW i \in 1..n
      PROVE  /\ Saying(tier, section, items, entities)[i].when = WhenIn(tier, section, entities[i])
             /\ WhenIn(tier, section, entities[i]) = TrueItem(section, items[i], "iso").when
                   => Saying(tier, section, items, entities)[i] = TrueItem(section, items[i], "iso")
  BY DEF Saying, Item, TrueItem
<1>4. /\ Saying("dash", section, items, entities) = [i \in 1..n |-> Saying("dash", section, items, entities)[i]]
      /\ TrueItems(section, items, "iso") = [i \in 1..n |-> TrueItem(section, items[i], "iso")]
  BY DEF Saying, TrueItems
<1>5. Saying("dash", section, items, entities) = TrueItems(section, items, "iso")  BY <1>2, <1>3, <1>4
<1> DEFINE told == Saying("rest", section, items, entities)
<1>6. told \in Seq({told[i] : i \in DOMAIN told}) /\ Len(told) = n
  <2>1. DOMAIN told = 1..n /\ told = [i \in 1..n |-> told[i]]  BY DEF Saying
  <2> HIDE DEF told
  <2> QED BY <1>1, <2>1
<1>7. ToldByRest(told, section, items)  BY <1>2, <1>3, <1>6 DEF ToldByRest
<1> QED BY <1>5, <1>7

\* The entities of a section's items say what the items are.
LEMMA EntitiesSay ==
    ASSUME NEW section, NEW I, NEW items \in Seq(I)
    PROVE  LET entities == AsEntities(section, items)
           IN /\ entities \in Seq({entities[i] : i \in 1..Len(items)})
              /\ Len(entities) = Len(items)
              /\ \A i \in 1..Len(items) : Says(entities[i], section, items[i])
<1> DEFINE entities == AsEntities(section, items)
           Entity(i) ==
               Typed(TypedAs(section).type, i,
                     [f \in {TypedAs(section).name, TypedAs(section).by} |->
                        IF f = TypedAs(section).name THEN <<items[i].name>> ELSE items[i].by],
                     items[i].start, items[i].end)
<1>1. Len(items) \in Nat /\ DOMAIN items = 1..Len(items)  BY LenProperties
<1>2. entities = [i \in 1..Len(items) |-> Entity(i)]  BY <1>1 DEF AsEntities
<1>3. ASSUME NEW i \in 1..Len(items) PROVE Says(Entity(i), section, items[i])
  BY DEF Says, Typed
<1> HIDE DEF entities, Entity
<1>4. entities \in Seq({entities[i] : i \in 1..Len(items)}) /\ Len(entities) = Len(items)
  BY <1>1, <1>2
<1>5. \A i \in 1..Len(items) : entities[i] = Entity(i)  BY <1>2
<1> QED BY <1>3, <1>4, <1>5 DEF entities

--------
(* Paths in document order. *)

\* A prefix, place by place.
LEMMA PrefixIs ==
    ASSUME NEW p \in Seq(Nat), NEW q \in Seq(Nat)
    PROVE  IsPrefix(p, q) <=> Len(p) <= Len(q) /\ \A i \in 1..Len(p) : p[i] = q[i]
<1>1. Len(p) \in Nat /\ Len(q) \in Nat  BY LenProperties
<1>2. SubSeq(p, 1, Len(p)) = p  BY <1>1, SubSeqProperties, SeqEqual
<1> SUFFICES ASSUME Len(p) <= Len(q)
             PROVE  SubSeq(p, 1, Len(p)) = SubSeq(q, 1, Len(p))
                      <=> \A i \in 1..Len(p) : p[i] = q[i]
  BY DEF IsPrefix
<1> DEFINE head == SubSeq(q, 1, Len(p))
<1>3. head \in Seq(Nat) /\ Len(head) = Len(p) /\ \A i \in 1..Len(p) : head[i] = q[i]
  BY <1>1, SubSeqProperties
<1>4. p = head <=> \A i \in 1..Len(p) : p[i] = head[i]  BY <1>3, SeqEqual
<1> HIDE DEF head
<1>5. p = head <=> \A i \in 1..Len(p) : p[i] = q[i]  BY <1>3, <1>4
<1> QED BY <1>2, <1>5 DEF head

\* Prefixes are ordered, and those of one path among each other.
LEMMA PrefixOrder ==
    /\ \A p \in Seq(Nat) : IsPrefix(p, p) /\ IsPrefix(<<>>, p)
    /\ \A p, q \in Seq(Nat) : IsPrefix(p, q) /\ IsPrefix(q, p) => p = q
    /\ \A p, q, r \in Seq(Nat) : IsPrefix(p, q) /\ IsPrefix(q, r) => IsPrefix(p, r)
    /\ \A p, q, r \in Seq(Nat) : IsPrefix(p, r) /\ IsPrefix(q, r) => IsPrefix(p, q) \/ IsPrefix(q, p)
<1>0. \A p \in Seq(Nat) : Len(p) \in Nat  BY LenProperties
<1>1. ASSUME NEW p \in Seq(Nat) PROVE IsPrefix(p, p) /\ IsPrefix(<<>>, p)
  <2> DEFINE none == <<>>
  <2>1. none \in Seq(Nat) /\ Len(none) = 0  OBVIOUS
  <2> HIDE DEF none
  <2>2. IsPrefix(p, p)  BY <1>0, PrefixIs
  <2>3. Len(none) <= Len(p) /\ \A i \in 1..Len(none) : none[i] = p[i]  BY <1>0, <2>1
  <2>4. IsPrefix(none, p)  BY <2>1, <2>3, PrefixIs
  <2> QED BY <2>2, <2>4 DEF none
<1>2. ASSUME NEW p \in Seq(Nat), NEW q \in Seq(Nat), IsPrefix(p, q), IsPrefix(q, p)
      PROVE  p = q
  <2>1. Len(p) = Len(q) /\ \A i \in 1..Len(p) : p[i] = q[i]  BY <1>0, <1>2, PrefixIs
  <2> QED BY <2>1, SeqEqual
<1>3. ASSUME NEW p \in Seq(Nat), NEW q \in Seq(Nat), NEW r \in Seq(Nat),
             IsPrefix(p, q), IsPrefix(q, r)
      PROVE  IsPrefix(p, r)
  <2>1. /\ Len(p) <= Len(q) /\ \A i \in 1..Len(p) : p[i] = q[i]
        /\ Len(q) <= Len(r) /\ \A i \in 1..Len(q) : q[i] = r[i]  BY <1>3, PrefixIs
  <2>2. Len(p) \in Nat /\ Len(q) \in Nat /\ Len(r) \in Nat  BY <1>0
  <2>3. Len(p) <= Len(r)  BY <2>1, <2>2
  <2>4. \A i \in 1..Len(p) : i \in 1..Len(q)  BY <2>1, <2>2
  <2>5. \A i \in 1..Len(p) : p[i] = r[i]  BY <2>1, <2>4
  <2> QED BY <2>3, <2>5, PrefixIs
<1>4. ASSUME NEW p \in Seq(Nat), NEW q \in Seq(Nat), NEW r \in Seq(Nat),
             IsPrefix(p, r), IsPrefix(q, r)
      PROVE  IsPrefix(p, q) \/ IsPrefix(q, p)
  <2>1. /\ Len(p) <= Len(r) /\ \A i \in 1..Len(p) : p[i] = r[i]
        /\ Len(q) <= Len(r) /\ \A i \in 1..Len(q) : q[i] = r[i]  BY <1>4, PrefixIs
  <2>2. CASE Len(p) <= Len(q)
    <3>1. \A i \in 1..Len(p) : p[i] = q[i]  BY <1>0, <2>1, <2>2
    <3> QED BY <2>2, <3>1, PrefixIs
  <2>3. CASE Len(q) <= Len(p)
    <3>1. \A i \in 1..Len(q) : q[i] = p[i]  BY <1>0, <2>1, <2>3
    <3> QED BY <2>3, <3>1, PrefixIs
  <2> QED BY <1>0, <2>2, <2>3
<1> QED BY <1>1, <1>2, <1>3, <1>4

\* What stands below the i-th node below p.
LEMMA Appended ==
    ASSUME NEW p \in Seq(Nat), NEW i \in Nat
    PROVE  /\ Append(p, i) \in Seq(Nat) /\ IsStrictPrefix(p, Append(p, i))
           /\ \A q \in Seq(Nat) : IsStrictPrefix(q, Append(p, i)) <=> IsPrefix(q, p)
           /\ \A q \in Seq(Nat) : IsPrefix(Append(p, i), q) =>
                 Len(p) + 1 <= Len(q) /\ q[Len(p) + 1] = i /\ \A k \in 1..Len(p) : q[k] = p[k]
<1> DEFINE c == Append(p, i)
<1>0. \A q \in Seq(Nat) : Len(q) \in Nat  BY LenProperties
<1>1. /\ c \in Seq(Nat) /\ Len(c) = Len(p) + 1
      /\ \A k \in 1..Len(p) : c[k] = p[k]
      /\ c[Len(p) + 1] = i  BY <1>0, AppendProperties
<1> HIDE DEF c
<1>2. IsPrefix(p, c) /\ p # c  BY <1>0, <1>1, PrefixIs
<1>3. ASSUME NEW q \in Seq(Nat), IsPrefix(q, c), q # c PROVE IsPrefix(q, p)
  <2>1. Len(q) <= Len(c) /\ \A k \in 1..Len(q) : q[k] = c[k]  BY <1>1, <1>3, PrefixIs
  <2>2. Len(q) # Len(c)  BY <1>1, <1>3, <2>1, SeqEqual
  <2>3. Len(q) <= Len(p) /\ \A k \in 1..Len(q) : q[k] = p[k]  BY <1>0, <1>1, <2>1, <2>2
  <2> QED BY <2>3, PrefixIs
<1>4. ASSUME NEW q \in Seq(Nat), IsPrefix(q, p) PROVE IsPrefix(q, c) /\ q # c
  <2>1. IsPrefix(q, c)  BY <1>1, <1>2, <1>4, PrefixOrder
  <2>2. Len(q) <= Len(p)  BY <1>4, PrefixIs
  <2> QED BY <1>0, <1>1, <2>1, <2>2
<1>5. ASSUME NEW q \in Seq(Nat), IsPrefix(c, q)
      PROVE  Len(p) + 1 <= Len(q) /\ q[Len(p) + 1] = i /\ \A k \in 1..Len(p) : q[k] = p[k]
  <2>1. Len(c) <= Len(q) /\ \A k \in 1..Len(c) : c[k] = q[k]  BY <1>1, <1>5, PrefixIs
  <2>2. Len(p) \in Nat /\ Len(p) + 1 \in 1..Len(c) /\ \A k \in 1..Len(p) : k \in 1..Len(c)
    BY <1>0, <1>1
  <2>3. c[Len(p) + 1] = q[Len(p) + 1] /\ \A k \in 1..Len(p) : c[k] = q[k]  BY <2>1, <2>2
  <2>4. Len(p) + 1 <= Len(q)  BY <1>1, <2>1
  <2> QED BY <1>1, <2>3, <2>4
<1> QED BY <1>1, <1>2, <1>3, <1>4, <1>5 DEF IsStrictPrefix, c

\* Document order, place by place.
LEMMA BeforeIs ==
    ASSUME NEW p \in Seq(Nat), NEW q \in Seq(Nat)
    PROVE  Before(p, q) <=> \/ IsStrictPrefix(p, q)
                            \/ \E i \in 1..Len(p) : /\ i <= Len(q) /\ p[i] < q[i]
                                                    /\ \A k \in 1..(i - 1) : p[k] = q[k]
<1>0. Len(p) \in Nat /\ Len(q) \in Nat /\ DOMAIN p = 1..Len(p) /\ DOMAIN q = 1..Len(q)
  BY LenProperties
<1>1. ASSUME NEW i \in 1..Len(p), i <= Len(q)
      PROVE  SubSeq(p, 1, i - 1) = SubSeq(q, 1, i - 1) <=> \A k \in 1..(i - 1) : p[k] = q[k]
  <2> DEFINE a == SubSeq(p, 1, i - 1)
             b == SubSeq(q, 1, i - 1)
  <2>1. i - 1 \in Nat /\ i - 1 <= Len(p) /\ i - 1 <= Len(q)  BY <1>0, <1>1
  <2>2. a \in Seq(Nat) /\ Len(a) = i - 1 /\ \A k \in 1..(i - 1) : a[k] = p[k]
    BY <1>0, <2>1, SubSeqProperties
  <2>3. b \in Seq(Nat) /\ Len(b) = i - 1 /\ \A k \in 1..(i - 1) : b[k] = q[k]
    BY <1>0, <2>1, SubSeqProperties
  <2> HIDE DEF a, b
  <2>4. a = b <=> \A k \in 1..(i - 1) : a[k] = b[k]  BY <2>2, <2>3, SeqEqual
  <2>5. a = b <=> \A k \in 1..(i - 1) : p[k] = q[k]  BY <2>2, <2>3, <2>4
  <2> QED BY <2>5 DEF a, b
<1>2. \A i : i \in DOMAIN p \cap DOMAIN q <=> i \in 1..Len(p) /\ i <= Len(q)  BY <1>0
<1> QED BY <1>1, <1>2 DEF Before

\* No path is before itself, nor before one that is before it.
LEMMA BeforeIsStrict ==
    ASSUME NEW p \in Seq(Nat), NEW q \in Seq(Nat), Before(p, q)
    PROVE  ~Before(q, p)
<1> SUFFICES ASSUME Before(q, p) PROVE FALSE  OBVIOUS
<1>0. Len(p) \in Nat /\ Len(q) \in Nat
      /\ (\A i \in 1..Len(p) : p[i] \in Nat) /\ \A i \in 1..Len(q) : q[i] \in Nat
  BY LenProperties
<1>1. ~(IsStrictPrefix(p, q) /\ IsStrictPrefix(q, p))  BY PrefixOrder DEF IsStrictPrefix
<1>2. ASSUME IsStrictPrefix(p, q) PROVE FALSE
  <2>1. PICK i \in 1..Len(q) : i <= Len(p) /\ q[i] < p[i]  BY <1>1, <1>2, BeforeIs
  <2>2. p[i] = q[i]  BY <1>0, <1>2, <2>1, PrefixIs DEF IsStrictPrefix
  <2> QED BY <1>0, <2>1, <2>2
<1>3. ASSUME IsStrictPrefix(q, p) PROVE FALSE
  <2>1. PICK i \in 1..Len(p) : i <= Len(q) /\ p[i] < q[i]  BY <1>1, <1>3, BeforeIs
  <2>2. q[i] = p[i]  BY <1>0, <1>3, <2>1, PrefixIs DEF IsStrictPrefix
  <2> QED BY <1>0, <2>1, <2>2
<1>4. PICK i \in 1..Len(p) : i <= Len(q) /\ p[i] < q[i] /\ \A k \in 1..(i - 1) : p[k] = q[k]
  BY <1>2, BeforeIs
<1>5. PICK j \in 1..Len(q) : j <= Len(p) /\ q[j] < p[j] /\ \A k \in 1..(j - 1) : q[k] = p[k]
  BY <1>3, BeforeIs
<1>6. p[i] \in Nat /\ q[i] \in Nat /\ p[j] \in Nat /\ q[j] \in Nat  BY <1>0, <1>4, <1>5
<1>7. CASE i < j
  <2>1. i \in 1..(j - 1)  BY <1>0, <1>7
  <2> QED BY <1>4, <1>5, <1>6, <2>1
<1>8. CASE j < i
  <2>1. j \in 1..(i - 1)  BY <1>0, <1>8
  <2> QED BY <1>4, <1>5, <1>6, <2>1
<1>9. CASE i = j  BY <1>4, <1>5, <1>6, <1>9
<1> QED BY <1>0, <1>7, <1>8, <1>9

\* What stands below one node is before what stands below a later one.
LEMMA BeforeTheNext ==
    ASSUME NEW p \in Seq(Nat), NEW i \in Nat, NEW k \in Nat, i < k,
           NEW q \in Seq(Nat), NEW r \in Seq(Nat),
           IsPrefix(Append(p, i), q), IsPrefix(Append(p, k), r)
    PROVE  Before(q, r)
<1> DEFINE n == Len(p) + 1
<1>1. /\ n <= Len(q) /\ q[n] = i /\ \A m \in 1..Len(p) : q[m] = p[m]
      /\ n <= Len(r) /\ r[n] = k /\ \A m \in 1..Len(p) : r[m] = p[m]  BY Appended
<1>2. Len(p) \in Nat /\ Len(q) \in Nat /\ Len(r) \in Nat  BY LenProperties
<1>3. n \in 1..Len(q) /\ n <= Len(r) /\ q[n] < r[n] /\ \A m \in 1..(n - 1) : q[m] = r[m]
  BY <1>1, <1>2
<1> HIDE DEF n
<1> QED BY <1>3, BeforeIs

\* A function on the first numbers is a list.
LEMMA AList ==
    ASSUME NEW n \in Nat, NEW S, NEW list \in [1..n -> S]
    PROVE  list \in Seq(S) /\ Len(list) = n
<1>1. list \in Seq(S)  OBVIOUS
<1> QED BY <1>1, LenProperties

\* What lists some paths in document order is InOrder.
LEMMA OneOrder ==
    ASSUME NEW S, S \subseteq Seq(Nat), NEW s, ListsInOrder(s, S)
    PROVE  IsFiniteSet(S) /\ Cardinality(S) = Len(s) /\ InOrder(S) = s
<1> DEFINE n == Len(s)
<1>1. /\ n \in Nat /\ s = [i \in 1..n |-> s[i]]
      /\ \A i \in 1..n : s[i] \in S /\ s[i] \in Seq(Nat)
  BY LenProperties, SeqEqual DEF ListsInOrder
<1>2. /\ \A i, k \in 1..n : i < k => Before(s[i], s[k])
      /\ \A p \in S : \E i \in 1..n : s[i] = p  BY DEF ListsInOrder
<1> HIDE DEF n
<1>3. \A i, k \in 1..n : Before(s[i], s[k]) <=> i < k
  <2> TAKE i, k \in 1..n
  <2>1. CASE i < k  BY <1>2, <2>1
  <2>2. CASE k < i
    <3>1. Before(s[k], s[i])  BY <1>2, <2>2
    <3> QED BY <1>1, <2>2, <3>1, BeforeIsStrict
  <2>3. CASE i = k  BY <1>1, <2>3, BeforeIsStrict
  <2> QED BY <1>1, <2>1, <2>2, <2>3
<1>4. \A i, k \in 1..n : s[i] = s[k] => i = k
  <2> TAKE i, k \in 1..n
  <2>1. ~(i < k /\ s[i] = s[k]) /\ ~(k < i /\ s[i] = s[k])  BY <1>1, <1>3
  <2> QED BY <1>1, <2>1
<1>5. ASSUME NEW m \in 0..n
      PROVE  LET T == {s[i] : i \in 1..m} IN IsFiniteSet(T) /\ Cardinality(T) = m
  <2> DEFINE T == {s[i] : i \in 1..m}
             f == [i \in 1..m |-> s[i]]
  <2>1. m \in Nat /\ 1..m \subseteq 1..n  BY <1>1
  <2>2. IsFiniteSet(1..m) /\ Cardinality(1..m) = m  BY <2>1, FS_Interval
  <2>3. f \in [1..m -> T]  OBVIOUS
  <2>4. \A x, y \in 1..m : f[x] = f[y] => x = y  BY <1>4, <2>1
  <2>5. \A z \in T : \E x \in 1..m : f[x] = z  OBVIOUS
  <2> HIDE DEF T, f
  <2>6. IsFiniteSet(T) /\ Cardinality(1..m) = Cardinality(T)
    BY <2>2, <2>3, <2>4, <2>5, SameSize
  <2> QED BY <2>2, <2>6 DEF T
<1>6. S = {s[i] : i \in 1..n}  BY <1>1, <1>2
<1>7. IsFiniteSet(S) /\ Cardinality(S) = n
  <2>1. n \in 0..n  BY <1>1
  <2> QED BY <1>5, <1>6, <2>1
<1>8. ASSUME NEW i \in 1..n PROVE Cardinality({q \in S : Before(q, s[i])}) = i - 1
  <2>1. {q \in S : Before(q, s[i])} = {s[k] : k \in 1..(i - 1)}
    <3>1. ASSUME NEW q \in S, Before(q, s[i]) PROVE q \in {s[k] : k \in 1..(i - 1)}
      <4>1. PICK k \in 1..n : s[k] = q  BY <1>2
      <4>2. k < i  BY <1>3, <3>1, <4>1
      <4>3. k \in 1..(i - 1)  BY <1>1, <4>2
      <4> QED BY <4>1, <4>3
    <3>2. ASSUME NEW k \in 1..(i - 1) PROVE s[k] \in S /\ Before(s[k], s[i])
      <4>1. k \in 1..n /\ k < i  BY <1>1
      <4> QED BY <1>1, <1>3, <4>1
    <3> QED BY <3>1, <3>2
  <2>2. i - 1 \in 0..n  BY <1>1
  <2> QED BY <1>5, <2>1, <2>2
<1>9. ASSUME NEW i \in 1..n
      PROVE  (CHOOSE p \in S : Cardinality({q \in S : Before(q, p)}) = i - 1) = s[i]
  <2> DEFINE P(p) == Cardinality({q \in S : Before(q, p)}) = i - 1
  <2>1. s[i] \in S /\ P(s[i])  BY <1>1, <1>8
  <2>2. ASSUME NEW p \in S, P(p) PROVE p = s[i]
    <3>1. PICK k \in 1..n : s[k] = p  BY <1>2
    <3>2. Cardinality({q \in S : Before(q, p)}) = k - 1  BY <1>8, <3>1
    <3>3. k - 1 = i - 1  BY <2>2, <3>2
    <3>4. k = i  BY <1>1, <3>3
    <3> QED BY <3>1, <3>4
  <2> HIDE DEF P
  <2>3. (CHOOSE p \in S : P(p)) = s[i]  BY <2>1, <2>2
  <2> QED BY <2>3 DEF P
<1>10. InOrder(S) = [i \in 1..n |-> s[i]]  BY <1>7, <1>9 DEF InOrder
<1> QED BY <1>1, <1>7, <1>10 DEF n

\* Lists in document order, each before the next, are one such list.
LEMMA OrderedFlatten ==
    ASSUME NEW N \in Nat, NEW lists, NEW sets, InTurn(N, lists, sets)
    PROVE  /\ lists \in Seq(Seq(Seq(Nat)))
           /\ ListsInOrder(FlattenSeq(lists), UNION {sets[i] : i \in 1..N})
<1>0. /\ DOMAIN lists = 1..N /\ lists = [i \in 1..N |-> lists[i]]
      /\ \A i \in 1..N : sets[i] \subseteq Seq(Nat) /\ ListsInOrder(lists[i], sets[i])
      /\ \A i, k \in 1..N : i < k => \A p \in sets[i], q \in sets[k] : Before(p, q)
  BY DEF InTurn
<1> DEFINE S == UNION {sets[i] : i \in 1..N}
<1>1. \A i \in 1..N : sets[i] \subseteq S  OBVIOUS
<1>2. \A i \in 1..N : lists[i] \in Seq(sets[i]) /\ lists[i] \in Seq(S) /\ lists[i] \in Seq(Seq(Nat))
  <2> TAKE i \in 1..N
  <2>1. lists[i] \in Seq(sets[i])  BY <1>0 DEF ListsInOrder
  <2>2. Len(lists[i]) \in Nat /\ lists[i] \in [1..Len(lists[i]) -> sets[i]]
    BY <2>1, LenProperties
  <2>3. lists[i] \in [1..Len(lists[i]) -> S] /\ lists[i] \in [1..Len(lists[i]) -> Seq(Nat)]
    <3>1. sets[i] \subseteq Seq(Nat)  BY <1>0
    <3> HIDE DEF S
    <3> QED BY <1>1, <2>2, <3>1
  <2>4. lists[i] \in Seq(S) /\ lists[i] \in Seq(Seq(Nat))
    <3> HIDE DEF S
    <3> DEFINE list == lists[i]
               n == Len(list)
    <3>1. n \in Nat /\ list \in [1..n -> S] /\ list \in [1..n -> Seq(Nat)]  BY <2>2, <2>3
    <3> HIDE DEF list, n
    <3>2. list \in Seq(S)  BY <3>1, AList
    <3>3. list \in Seq(Seq(Nat))  BY <3>1, AList
    <3> QED BY <3>2, <3>3 DEF list
  <2> QED BY <2>1, <2>4
<1> HIDE DEF S
<1>3. lists \in Seq(Seq(S)) /\ lists \in Seq(Seq(Seq(Nat))) /\ Len(lists) = N
  <2>1. lists \in [1..N -> Seq(S)] /\ lists \in [1..N -> Seq(Seq(Nat))]  BY <1>0, <1>2
  <2>2. lists \in Seq(Seq(S)) /\ Len(lists) = N  BY <2>1, AList
  <2>3. lists \in Seq(Seq(Seq(Nat)))  BY <2>1, AList
  <2> QED BY <2>2, <2>3
<1> DEFINE flat == FlattenSeq(lists)
<1>4. flat \in Seq(S) /\ \E off : FlattensAt(off, flat, lists)  BY <1>3, FlattenProperties
<1>5. PICK off : FlattensAt(off, flat, lists)  BY <1>4
<1> HIDE DEF flat
<1>6. /\ \A i \in 1..N : off[i] \in Nat
      /\ \A i \in 1..N : \A k \in 1..Len(lists[i]) :
            off[i] + k \in 1..Len(flat) /\ flat[off[i] + k] = lists[i][k]
      /\ \A j \in 1..Len(flat) : \E i \in 1..N : \E k \in 1..Len(lists[i]) : j = off[i] + k
      /\ \A i, k \in 1..N : i < k => off[i] + Len(lists[i]) <= off[k]
  BY <1>3, <1>5 DEF FlattensAt
<1>7. \A i \in 1..N : Len(lists[i]) \in Nat /\ \A k \in 1..Len(lists[i]) : lists[i][k] \in sets[i]
  BY <1>2, LenProperties
<1>8. ASSUME NEW j \in 1..Len(flat), NEW m \in 1..Len(flat), j < m
      PROVE  Before(flat[j], flat[m])
  <2>1. PICK i \in 1..N : \E k \in 1..Len(lists[i]) : j = off[i] + k  BY <1>6
  <2>2. PICK k \in 1..Len(lists[i]) : j = off[i] + k  BY <2>1
  <2>3. PICK g \in 1..N : \E h \in 1..Len(lists[g]) : m = off[g] + h  BY <1>6
  <2>4. PICK h \in 1..Len(lists[g]) : m = off[g] + h  BY <2>3
  <2>5. flat[j] = lists[i][k] /\ flat[m] = lists[g][h]  BY <1>6, <2>2, <2>4
  <2>6. lists[i][k] \in sets[i] /\ lists[g][h] \in sets[g]  BY <1>7
  <2>7. CASE i < g  BY <1>0, <2>5, <2>6, <2>7
  <2>8. CASE i = g
    <3>1. off[i] \in Nat /\ k \in Nat /\ h \in Nat /\ k < h
      BY <1>6, <1>7, <1>8, <2>2, <2>4, <2>8
    <3>2. Before(lists[i][k], lists[i][h])  BY <1>0, <2>8, <3>1 DEF ListsInOrder
    <3> QED BY <2>5, <2>8, <3>2
  <2>9. CASE g < i
    <3>1. off[g] + Len(lists[g]) <= off[i]  BY <1>6, <2>9
    <3>2. off[g] \in Nat /\ off[i] \in Nat /\ Len(lists[g]) \in Nat /\ h <= Len(lists[g]) /\ 1 <= k
          /\ h \in Nat /\ k \in Nat  BY <1>6, <1>7
    <3>3. FALSE
      <4> DEFINE x == off[i]  y == off[g]  z == Len(lists[g])
      <4>1. /\ x \in Nat /\ y \in Nat /\ z \in Nat /\ k \in Nat /\ h \in Nat
            /\ 1 <= k /\ h <= z /\ y + z <= x  BY <3>1, <3>2
      <4>2. x + k < y + h  BY <1>8, <2>2, <2>4
      <4> HIDE DEF x, y, z
      <4> QED BY <4>1, <4>2
    <3> QED BY <3>3
  <2> QED BY <2>7, <2>8, <2>9
<1>9. ASSUME NEW p \in S PROVE \E j \in 1..Len(flat) : flat[j] = p
  <2>1. PICK i \in 1..N : p \in sets[i]  BY DEF S
  <2>2. PICK k \in 1..Len(lists[i]) : lists[i][k] = p  BY <1>0, <2>1 DEF ListsInOrder
  <2> QED BY <1>6, <2>2
<1>10. ListsInOrder(flat, S)  BY <1>4, <1>8, <1>9 DEF ListsInOrder, flat
<1> QED BY <1>3, <1>10 DEF flat, S

\* What is read at each place of a flattened list.
LEMMA FlattenMapped ==
    ASSUME NEW A, NEW seqs \in Seq(Seq(A)), NEW val
    PROVE  FlattenSeq([i \in 1..Len(seqs) |-> [k \in 1..Len(seqs[i]) |-> val[seqs[i][k]]]])
             = [j \in 1..Len(FlattenSeq(seqs)) |-> val[FlattenSeq(seqs)[j]]]
<1> DEFINE N == Len(seqs)
           V == {val[a] : a \in A}
           listed == [i \in 1..N |-> [k \in 1..Len(seqs[i]) |-> val[seqs[i][k]]]]
<1>1. N \in Nat /\ \A i \in 1..N : seqs[i] \in Seq(A) /\ Len(seqs[i]) \in Nat
                                  /\ \A k \in 1..Len(seqs[i]) : seqs[i][k] \in A
  BY LenProperties
<1>2. /\ listed \in Seq(Seq(V)) /\ Len(listed) = N
      /\ \A i \in 1..N : /\ listed[i] \in Seq(V) /\ Len(listed[i]) = Len(seqs[i])
                         /\ \A k \in 1..Len(seqs[i]) : listed[i][k] = val[seqs[i][k]]
  <2>1. \A i \in 1..N : listed[i] \in [1..Len(seqs[i]) -> V]  BY <1>1
  <2>2. \A i \in 1..N : listed[i] \in Seq(V)
    <3> TAKE i \in 1..N
    <3> DEFINE list == listed[i]
               n == Len(seqs[i])
    <3>1. n \in Nat /\ list \in [1..n -> V]  BY <1>1, <2>1
    <3> HIDE DEF V, list, n
    <3>2. list \in Seq(V)  BY <3>1
    <3> QED BY <3>2 DEF list
  <2>3. listed \in [1..N -> Seq(V)]  BY <2>2
  <2>4. listed \in Seq(Seq(V))
    <3> HIDE DEF V, listed, N
    <3> QED BY <1>1, <2>3
  <2>5. Len(listed) = N
    <3> HIDE DEF V
    <3> QED BY <1>1, <2>4, LenProperties
  <2>6. \A i \in 1..N : Len(listed[i]) = Len(seqs[i])
    <3> TAKE i \in 1..N
    <3> HIDE DEF V, listed
    <3> QED BY <1>1, <2>1, <2>2, LenProperties
  <2> QED BY <2>2, <2>4, <2>5, <2>6
<1> HIDE DEF V, listed, N
<1>3. PICK flat : FlattenSteps(flat, A, seqs)  BY FlattenDef
<1>4. PICK told : FlattenSteps(told, V, listed)  BY <1>2, FlattenDef
<1>5. /\ flat \in [0..N -> Seq(A)] /\ flat[0] = <<>> /\ FlattenSeq(seqs) = flat[N]
      /\ \A n \in 1..N, m \in Nat : n = m + 1 => flat[n] = flat[m] \o seqs[n]
  BY <1>3 DEF FlattenSteps, N
<1>6. /\ told \in [0..N -> Seq(V)] /\ told[0] = <<>> /\ FlattenSeq(listed) = told[N]
      /\ \A n \in 1..N, m \in Nat : n = m + 1 => told[n] = told[m] \o listed[n]
  BY <1>2, <1>4 DEF FlattenSteps
<1> DEFINE Each(n) == /\ Len(told[n]) = Len(flat[n])
                      /\ \A k \in 1..Len(flat[n]) : told[n][k] = val[flat[n][k]]
           T == {n \in Nat : n <= N => Each(n)}
<1>7. 0 \in T  BY <1>5, <1>6
<1>8. ASSUME NEW n \in Nat, n \in T PROVE n + 1 \in T
  <2> SUFFICES ASSUME n + 1 <= N PROVE Each(n + 1)  OBVIOUS
  <2>1. n \in 0..N /\ n + 1 \in 1..N  BY <1>1
  <2> DEFINE a == flat[n]  b == seqs[n + 1]  c == told[n]  d == listed[n + 1]
  <2>2. flat[n + 1] = a \o b /\ told[n + 1] = c \o d  BY <1>5, <1>6, <2>1
  <2>3. /\ a \in Seq(A) /\ b \in Seq(A) /\ c \in Seq(V) /\ d \in Seq(V)
        /\ Len(a) \in Nat /\ Len(b) \in Nat  BY <1>1, <1>2, <1>5, <1>6, <2>1, LenProperties
  <2>4. Len(c) = Len(a) /\ \A k \in 1..Len(a) : c[k] = val[a[k]]  BY <1>8, <2>1
  <2>5. Len(d) = Len(b) /\ \A k \in 1..Len(b) : d[k] = val[b[k]]  BY <1>2, <2>1
  <2> HIDE DEF a, b, c, d
  <2>6. /\ Len(a \o b) = Len(a) + Len(b)
        /\ \A k \in 1..(Len(a) + Len(b)) : (a \o b)[k] = IF k <= Len(a) THEN a[k] ELSE b[k - Len(a)]
    BY <2>3, ConcatProperties
  <2>7. /\ Len(c \o d) = Len(c) + Len(d)
        /\ \A k \in 1..(Len(c) + Len(d)) : (c \o d)[k] = IF k <= Len(c) THEN c[k] ELSE d[k - Len(c)]
    BY <2>3, ConcatProperties
  <2>8. Len(c \o d) = Len(a \o b)  BY <2>4, <2>5, <2>6, <2>7
  <2>9. ASSUME NEW k \in 1..Len(a \o b) PROVE (c \o d)[k] = val[(a \o b)[k]]
    <3>1. k \in 1..(Len(a) + Len(b)) /\ k \in 1..(Len(c) + Len(d))  BY <2>4, <2>5, <2>6
    <3>2. CASE k <= Len(a)
      <4>1. k \in 1..Len(a)  BY <2>3, <3>1, <3>2
      <4> QED BY <2>4, <2>6, <2>7, <3>1, <3>2, <4>1
    <3>3. CASE ~(k <= Len(a))
      <4>1. k - Len(a) \in 1..Len(b)  BY <2>3, <3>1, <3>3
      <4>2. (a \o b)[k] = b[k - Len(a)]  BY <2>6, <3>1, <3>3
      <4>3. (c \o d)[k] = d[k - Len(a)]  BY <2>4, <2>7, <3>1, <3>3
      <4> QED BY <2>5, <4>1, <4>2, <4>3
    <3> QED BY <3>2, <3>3
  <2> QED BY <2>2, <2>8, <2>9
<1> HIDE DEF T
<1>9. N \in T  BY <1>1, <1>7, <1>8, InductiveSet
<1>10. Each(N)  BY <1>1, <1>9 DEF T
<1>11. told[N] = [j \in 1..Len(told[N]) |-> told[N][j]]
  <2>1. told[N] \in Seq(V)  BY <1>1, <1>6
  <2> QED BY <2>1, LenProperties
<1>12. FlattenSeq(listed) = [j \in 1..Len(flat[N]) |-> val[flat[N][j]]]  BY <1>6, <1>10, <1>11
<1> QED BY <1>5, <1>12 DEF listed, N

--------
(* Walks over a tree. *)

\* What is below what is below, or at it, is below.
LEMMA StrictPrefixOrder ==
    ASSUME NEW p \in Seq(Nat), NEW q \in Seq(Nat), NEW r \in Seq(Nat)
    PROVE  /\ IsStrictPrefix(p, q) /\ IsPrefix(q, r) => IsStrictPrefix(p, r)
           /\ IsPrefix(p, q) /\ IsStrictPrefix(q, r) => IsStrictPrefix(p, r)
<1>1. /\ IsPrefix(p, q) /\ IsPrefix(q, r) => IsPrefix(p, r)
      /\ IsPrefix(p, q) /\ IsPrefix(q, p) => p = q
      /\ IsPrefix(q, r) /\ IsPrefix(r, q) => q = r  BY PrefixOrder
<1> QED BY <1>1 DEF IsStrictPrefix

\* Among some subsets of a finite set there is one without a smaller one.
LEMMA LeastSet ==
    ASSUME NEW D, IsFiniteSet(D), NEW C, C \subseteq SUBSET D, C # {}
    PROVE  \E X \in C : \A Y \in C : Y \subseteq X => Y = X
<1>1. IsWellFoundedOn(StrictSubsetOrdering(D), FiniteSubsetsOf(D))
  BY FS_StrictSubsetOrderingWellFounded
<1>2. \A X \in C : X \in FiniteSubsetsOf(D)  BY FS_Subset DEF FiniteSubsetsOf
<1>3. C \subseteq FiniteSubsetsOf(D)  BY <1>2
<1>4. PICK X \in C : \A Y \in C : ~ (<<Y, X>> \in StrictSubsetOrdering(D))  BY <1>1, <1>3, WFMin
<1>5. ASSUME NEW Y \in C, Y \subseteq X PROVE Y = X
  <2>1. X \subseteq D /\ Y \subseteq D  OBVIOUS
  <2>2. Y # X => <<Y, X>> \in StrictSubsetOrdering(D)  BY <1>5, <2>1 DEF StrictSubsetOrdering
  <2> QED BY <1>4, <2>2
<1> QED BY <1>5

\* The nodes of a tree: the root, and those below a node.
LEMMA Nodes ==
    ASSUME NEW tree, IsTree(tree)
    PROVE  /\ DOMAIN tree \subseteq Seq(Nat) /\ <<>> \in DOMAIN tree /\ IsFiniteSet(DOMAIN tree)
           /\ \A p \in DOMAIN tree : /\ tree[p].sub \in Nat
                                     /\ \A i \in 1..tree[p].sub : /\ Append(p, i) \in DOMAIN tree
                                                                  /\ Append(p, i) \in Seq(Nat)
                                                                  /\ i \in Nat
           /\ \A q \in DOMAIN tree :
                 q = <<>> \/ \E p \in DOMAIN tree : \E i \in 1..tree[p].sub : q = Append(p, i)
<1> DEFINE D == DOMAIN tree
           Children == UNION {{Append(p, i) : i \in 1..tree[p].sub} : p \in D}
<1>1. /\ IsFiniteSet(D) /\ D \subseteq Seq(Nat) /\ \A p \in D : tree[p].sub \in Nat
      /\ D = {<<>>} \cup Children  BY DEF IsTree
<1>2. \A p \in D : \A i \in 1..tree[p].sub : Append(p, i) \in Children /\ i \in Nat  BY <1>1
<1>3. \A q \in Children : \E p \in D : \E i \in 1..tree[p].sub : q = Append(p, i)  OBVIOUS
<1> HIDE DEF D, Children
<1>4. \A p \in D : \A i \in 1..tree[p].sub : Append(p, i) \in D /\ Append(p, i) \in Seq(Nat)
  BY <1>1, <1>2
<1>5. \A q \in D : q = <<>> \/ \E p \in D : \E i \in 1..tree[p].sub : q = Append(p, i)
  BY <1>1, <1>3
<1>6. <<>> \in D  BY <1>1
<1> QED BY <1>1, <1>2, <1>4, <1>5, <1>6 DEF D

\* What stands below a node stands at or below one of its children.
LEMMA AtOrBelowAChild ==
    ASSUME NEW tree, IsTree(tree), NEW p \in DOMAIN tree, NEW q \in DOMAIN tree,
           IsStrictPrefix(p, q)
    PROVE  \E i \in 1..tree[p].sub : IsPrefix(Append(p, i), q)
<1> DEFINE D == DOMAIN tree
           Has(x, y) == \E i \in 1..tree[x].sub : IsPrefix(Append(x, i), y)
           T == {n \in Nat : \A x, y \in D : Len(y) = n /\ IsStrictPrefix(x, y) => Has(x, y)}
<1>1. /\ D \subseteq Seq(Nat)
      /\ \A x \in D : \A i \in 1..tree[x].sub : Append(x, i) \in Seq(Nat) /\ i \in Nat
      /\ \A y \in D : y = <<>> \/ \E x \in D : \E i \in 1..tree[x].sub : y = Append(x, i)
  BY Nodes
<1>2. \A x \in D : Len(x) \in Nat  BY <1>1, LenProperties
<1>3. 0 \in T
  <2>1. ASSUME NEW x \in D, NEW y \in D, Len(y) = 0, IsStrictPrefix(x, y) PROVE FALSE
    <3>1. Len(x) <= Len(y) /\ x # y  BY <1>1, <2>1, PrefixIs DEF IsStrictPrefix
    <3>2. Len(x) = 0  BY <1>2, <2>1, <3>1
    <3> QED BY <1>1, <2>1, <3>1, <3>2, SeqEqual
  <2> QED BY <2>1
<1>4. ASSUME NEW n \in Nat, n \in T PROVE n + 1 \in T
  <2> SUFFICES ASSUME NEW x \in D, NEW y \in D, Len(y) = n + 1, IsStrictPrefix(x, y)
               PROVE  Has(x, y)  OBVIOUS
  <2>1. y # <<>>  OBVIOUS
  <2>2. PICK z \in D : \E i \in 1..tree[z].sub : y = Append(z, i)  BY <1>1, <2>1
  <2>3. PICK i \in 1..tree[z].sub : y = Append(z, i)  BY <2>2
  <2>4. x \in Seq(Nat) /\ y \in Seq(Nat) /\ z \in Seq(Nat) /\ i \in Nat  BY <1>1
  <2>5. IsPrefix(x, z)  BY <2>3, <2>4, Appended
  <2>6. CASE x = z
    <3>1. IsPrefix(Append(z, i), y)  BY <2>3, <2>4, PrefixOrder
    <3> QED BY <2>6, <3>1
  <2>7. CASE x # z
    <3>1. IsStrictPrefix(x, z)  BY <2>5, <2>7 DEF IsStrictPrefix
    <3>2. Len(y) = Len(z) + 1  BY <2>3, <2>4, AppendProperties
    <3>3. Len(z) = n  BY <1>2, <3>2
    <3>4. PICK k \in 1..tree[x].sub : IsPrefix(Append(x, k), z)  BY <1>4, <3>1, <3>3
    <3>5. IsPrefix(z, y)  BY <2>3, <2>4, Appended DEF IsStrictPrefix
    <3>6. IsPrefix(Append(x, k), y)  BY <1>1, <2>4, <3>4, <3>5, PrefixOrder
    <3> QED BY <3>6
  <2> QED BY <2>6, <2>7
<1>5. Len(q) \in Nat  BY <1>2
<1> HIDE DEF T
<1>6. Len(q) \in T  BY <1>3, <1>4, <1>5, InductiveSet
<1> QED BY <1>6 DEF T

\* Induction from the leaves of a tree to its root, for a set in place of a predicate.
LEMMA BottomUp ==
    ASSUME NEW tree, IsTree(tree), NEW T,
           \A p \in DOMAIN tree :
              (\A q \in DOMAIN tree : IsStrictPrefix(p, q) => q \in T) => p \in T
    PROVE  DOMAIN tree \subseteq T
<1> DEFINE D == DOMAIN tree
           From(p) == {q \in D : IsPrefix(p, q)}
           C == {From(p) : p \in D \ T}
<1>1. IsFiniteSet(D) /\ D \subseteq Seq(Nat)  BY Nodes
<1> SUFFICES ASSUME D \ T # {} PROVE FALSE  OBVIOUS
<1>2. C # {} /\ C \subseteq SUBSET D
  <2>1. PICK x : x \in D \ T  OBVIOUS
  <2>2. From(x) \in C  BY <2>1
  <2>3. \A X \in C : X \subseteq D  OBVIOUS
  <2> HIDE DEF C
  <2> QED BY <2>2, <2>3
<1>3. PICK X \in C : \A Y \in C : Y \subseteq X => Y = X
  <2> HIDE DEF C, D
  <2> QED BY <1>1, <1>2, LeastSet
<1>4. PICK p \in D \ T : X = From(p)  OBVIOUS
<1>5. PICK q \in D : IsStrictPrefix(p, q) /\ q \notin T  OBVIOUS
<1>6. From(q) \in C  BY <1>5
<1>7. p \in Seq(Nat) /\ q \in Seq(Nat)  BY <1>1
<1>8. From(q) \subseteq From(p)  BY <1>1, <1>5, <1>7, PrefixOrder DEF IsStrictPrefix
<1>9. p \in From(p) /\ p \notin From(q)  BY <1>5, <1>7, PrefixOrder DEF IsStrictPrefix
<1> QED BY <1>3, <1>4, <1>6, <1>8, <1>9

\* It returns a goal, nothing of another stop, and what is below of any other node.
LEMMA ReachedHere ==
    ASSUME NEW tree, NEW stops, NEW goals, Walked(tree, stops, goals), NEW p \in DOMAIN tree
    PROVE  Reached(stops, goals, p) =
             IF p \in goals THEN {p} ELSE IF p \in stops THEN {} ELSE ReachedBelow(stops, goals, p)
<1>1. DOMAIN tree \subseteq Seq(Nat)  BY Nodes DEF Walked
<1>2. stops \subseteq Seq(Nat) /\ goals \subseteq stops /\ p \in Seq(Nat)  BY <1>1 DEF Walked
<1>3. \A q \in Seq(Nat) : IsPrefix(p, p) /\ ~(IsPrefix(p, q) /\ IsStrictPrefix(q, p))
  BY <1>2, PrefixOrder DEF IsStrictPrefix
<1>4. CASE p \in stops
  <2>1. \A q \in Reached(stops, goals, p) : q = p
    BY <1>2, <1>3, <1>4 DEF Reached, IsStrictPrefix
  <2>2. p \in goals => p \in Reached(stops, goals, p)  BY <1>2, <1>3 DEF Reached
  <2>3. p \notin goals => p \notin Reached(stops, goals, p)  BY DEF Reached
  <2> QED BY <1>2, <1>4, <2>1, <2>2, <2>3
<1>5. CASE p \notin stops
  <2>1. ASSUME NEW r, r \in stops PROVE IsPrefix(p, r) <=> IsStrictPrefix(p, r)
    BY <1>5, <2>1 DEF IsStrictPrefix
  <2>2. \A q : q \in Reached(stops, goals, p) <=> q \in ReachedBelow(stops, goals, p)
    BY <1>2, <2>1 DEF Reached, ReachedBelow
  <2>3. Reached(stops, goals, p) = ReachedBelow(stops, goals, p)  BY <2>2
  <2> QED BY <1>2, <1>5, <2>3
<1> QED BY <1>4, <1>5

\* What is reached below a node is reached from its children on, ...
LEMMA ReachedByChildren ==
    ASSUME NEW tree, NEW stops, NEW goals, Walked(tree, stops, goals), NEW p \in DOMAIN tree
    PROVE  ReachedBelow(stops, goals, p)
             = UNION {Reached(stops, goals, Append(p, i)) : i \in 1..tree[p].sub}
<1>1. /\ DOMAIN tree \subseteq Seq(Nat) /\ tree[p].sub \in Nat
      /\ \A i \in 1..tree[p].sub : Append(p, i) \in Seq(Nat) /\ i \in Nat
  BY Nodes DEF Walked
<1>2. /\ stops \subseteq Seq(Nat) /\ stops \subseteq DOMAIN tree /\ goals \subseteq stops
      /\ p \in Seq(Nat) /\ IsTree(tree)  BY <1>1 DEF Walked
<1>3. ASSUME NEW q \in ReachedBelow(stops, goals, p)
      PROVE  \E i \in 1..tree[p].sub : q \in Reached(stops, goals, Append(p, i))
  <2>1. q \in goals /\ q \in DOMAIN tree /\ IsStrictPrefix(p, q)
        /\ \A r \in stops : IsStrictPrefix(p, r) => ~IsStrictPrefix(r, q)
    BY <1>2 DEF ReachedBelow
  <2>2. PICK i \in 1..tree[p].sub : IsPrefix(Append(p, i), q)  BY <1>2, <2>1, AtOrBelowAChild
  <2>3. \A r \in stops : IsPrefix(Append(p, i), r) => IsStrictPrefix(p, r)
    <3> SUFFICES ASSUME NEW r \in stops, IsPrefix(Append(p, i), r) PROVE IsStrictPrefix(p, r)
      OBVIOUS
    <3>1. r \in Seq(Nat) /\ Append(p, i) \in Seq(Nat) /\ i \in Nat  BY <1>1, <1>2
    <3>2. IsStrictPrefix(p, Append(p, i))  BY <1>2, <3>1, Appended
    <3> QED BY <1>2, <3>1, <3>2, StrictPrefixOrder
  <2>4. q \in Reached(stops, goals, Append(p, i))  BY <2>1, <2>2, <2>3 DEF Reached
  <2> QED BY <2>4
<1>4. ASSUME NEW i \in 1..tree[p].sub, NEW q \in Reached(stops, goals, Append(p, i))
      PROVE  q \in ReachedBelow(stops, goals, p)
  <2> DEFINE c == Append(p, i)
  <2>1. c \in Seq(Nat) /\ i \in Nat  BY <1>1
  <2>2. IsStrictPrefix(p, c)  BY <1>2, <2>1, Appended
  <2>3. q \in goals /\ q \in stops /\ q \in Seq(Nat) /\ q \in DOMAIN tree /\ IsPrefix(c, q)
        /\ \A r \in stops : IsPrefix(c, r) => ~IsStrictPrefix(r, q)  BY <1>2 DEF Reached
  <2>4. IsStrictPrefix(p, q)
    <3> HIDE DEF c
    <3> QED BY <1>2, <2>1, <2>2, <2>3, StrictPrefixOrder
  <2>5. ASSUME NEW r \in stops, IsStrictPrefix(p, r), IsStrictPrefix(r, q) PROVE FALSE
    <3>1. r \in Seq(Nat) /\ r \in DOMAIN tree  BY <1>2
    <3>2. PICK k \in 1..tree[p].sub : IsPrefix(Append(p, k), r)
      BY <1>2, <2>5, <3>1, AtOrBelowAChild
    <3>3. Append(p, k) \in Seq(Nat) /\ k \in Nat  BY <1>1
    <3>4. IsPrefix(Append(p, k), q)
      BY <2>3, <2>5, <3>1, <3>2, <3>3, PrefixOrder DEF IsStrictPrefix
    <3>5. q[Len(p) + 1] = k  BY <1>2, <2>3, <3>3, <3>4, Appended
    <3>6. q[Len(p) + 1] = i  BY <1>2, <2>1, <2>3, Appended
    <3> QED BY <2>3, <2>5, <3>2, <3>5, <3>6
  <2> QED BY <2>3, <2>4, <2>5 DEF ReachedBelow
<1> QED BY <1>3, <1>4

\* ... in their order.
LEMMA BelowOrdered ==
    ASSUME NEW tree, NEW stops, NEW goals, Walked(tree, stops, goals), NEW p \in DOMAIN tree,
           \A i \in 1..tree[p].sub : Ordered(Reached(stops, goals, Append(p, i)))
    PROVE  LET lists == [i \in 1..tree[p].sub |-> InOrder(Reached(stops, goals, Append(p, i)))]
           IN /\ lists \in Seq(Seq(Seq(Nat)))
              /\ Ordered(ReachedBelow(stops, goals, p))
              /\ InOrder(ReachedBelow(stops, goals, p)) = FlattenSeq(lists)
<1> DEFINE N == tree[p].sub
           sets == [i \in 1..N |-> Reached(stops, goals, Append(p, i))]
           lists == [i \in 1..N |-> InOrder(Reached(stops, goals, Append(p, i)))]
           S == ReachedBelow(stops, goals, p)
<1>1. /\ N \in Nat /\ p \in Seq(Nat) /\ goals \subseteq Seq(Nat)
      /\ \A i \in 1..N : Append(p, i) \in Seq(Nat) /\ i \in Nat  BY Nodes DEF Walked
<1>2. \A i \in 1..N : /\ sets[i] \subseteq Seq(Nat) /\ ListsInOrder(lists[i], sets[i])
                      /\ \A q \in sets[i] : IsPrefix(Append(p, i), q)
  BY <1>1 DEF Reached, Ordered
<1>3. UNION {sets[i] : i \in 1..N} = S
  <2>1. S = UNION {Reached(stops, goals, Append(p, i)) : i \in 1..N}  BY ReachedByChildren
  <2>2. \A i \in 1..N : sets[i] = Reached(stops, goals, Append(p, i))  OBVIOUS
  <2> HIDE DEF sets, S, N
  <2>3. {Reached(stops, goals, Append(p, i)) : i \in 1..N} = {sets[i] : i \in 1..N}  BY <2>2
  <2> QED BY <2>1, <2>3
<1>4. DOMAIN lists = 1..N /\ lists = [i \in 1..N |-> lists[i]]  OBVIOUS
<1> HIDE DEF N, sets, lists, S
<1>5. \A i, k \in 1..N : i < k => \A q \in sets[i], r \in sets[k] : Before(q, r)
  <2> TAKE i, k \in 1..N
  <2> HAVE i < k
  <2> TAKE q \in sets[i], r \in sets[k]
  <2>1. q \in Seq(Nat) /\ r \in Seq(Nat) /\ IsPrefix(Append(p, i), q) /\ IsPrefix(Append(p, k), r)
    BY <1>2
  <2> QED BY <1>1, <2>1, BeforeTheNext
<1>6. lists \in Seq(Seq(Seq(Nat))) /\ ListsInOrder(FlattenSeq(lists), S)
  <2>1. \A i \in 1..N : sets[i] \subseteq Seq(Nat) /\ ListsInOrder(lists[i], sets[i])  BY <1>2
  <2>2. N \in Nat /\ InTurn(N, lists, sets)  BY <1>1, <1>4, <1>5, <2>1 DEF InTurn
  <2>3. lists \in Seq(Seq(Seq(Nat))) /\ ListsInOrder(FlattenSeq(lists), UNION {sets[i] : i \in 1..N})
    BY <2>2, OrderedFlatten
  <2> QED BY <1>3, <2>3
<1>7. S \subseteq Seq(Nat)  BY <1>1 DEF S, ReachedBelow
<1>8. InOrder(S) = FlattenSeq(lists)  BY <1>6, <1>7, OneOrder
<1> QED BY <1>6, <1>8 DEF Ordered, S, lists, N

\* A path alone, and none, are in order.
LEMMA FewOrdered ==
    ASSUME NEW p \in Seq(Nat)
    PROVE  /\ Ordered({p}) /\ InOrder({p}) = <<p>> /\ Cardinality({p}) = 1
           /\ Ordered({}) /\ InOrder({}) = <<>> /\ Cardinality({}) = 0
<1>1. ListsInOrder(<<p>>, {p})
  <2>1. <<p>> \in Seq({p}) /\ Len(<<p>>) = 1 /\ <<p>>[1] = p  OBVIOUS
  <2>2. \A i, k \in 1..1 : ~(i < k)  OBVIOUS
  <2> QED BY <2>1, <2>2, 1 \in 1..1 DEF ListsInOrder
<1>2. ListsInOrder(<<>>, {})
  <2>1. <<>> \in Seq({}) /\ Len(<<>>) = 0 /\ \A i : ~(i \in 1..0)  OBVIOUS
  <2> QED BY <2>1 DEF ListsInOrder
<1>3. {p} \subseteq Seq(Nat) /\ {} \subseteq Seq(Nat) /\ Len(<<p>>) = 1 /\ Len(<<>>) = 0
  OBVIOUS
<1>4. InOrder({p}) = <<p>> /\ Cardinality({p}) = 1  BY <1>1, <1>3, OneOrder
<1>5. InOrder({}) = <<>> /\ Cardinality({}) = 0  BY <1>2, <1>3, OneOrder
<1> QED BY <1>1, <1>2, <1>4, <1>5 DEF Ordered

\* What is reached can be put in order.
LEMMA ReachedOrdered ==
    ASSUME NEW tree, NEW stops, NEW goals, Walked(tree, stops, goals), NEW p \in DOMAIN tree
    PROVE  Ordered(Reached(stops, goals, p)) /\ Ordered(ReachedBelow(stops, goals, p))
<1> DEFINE T == {q \in DOMAIN tree : Ordered(Reached(stops, goals, q))}
<1>1. /\ IsTree(tree) /\ DOMAIN tree \subseteq Seq(Nat)
      /\ \A q \in DOMAIN tree : \A i \in 1..tree[q].sub :
            Append(q, i) \in DOMAIN tree /\ Append(q, i) \in Seq(Nat) /\ i \in Nat
  BY Nodes DEF Walked
<1>2. ASSUME NEW q \in DOMAIN tree, \A r \in DOMAIN tree : IsStrictPrefix(q, r) => r \in T
      PROVE  q \in T
  <2>1. \A i \in 1..tree[q].sub : Ordered(Reached(stops, goals, Append(q, i)))
    <3> TAKE i \in 1..tree[q].sub
    <3>1. Append(q, i) \in DOMAIN tree /\ i \in Nat /\ q \in Seq(Nat)  BY <1>1
    <3>2. IsStrictPrefix(q, Append(q, i))  BY <3>1, Appended
    <3> QED BY <1>2, <3>1, <3>2
  <2>2. Ordered(ReachedBelow(stops, goals, q))  BY <2>1, BelowOrdered
  <2>3. Ordered(Reached(stops, goals, q))
    <3>1. q \in Seq(Nat)  BY <1>1
    <3>2. Ordered({q}) /\ Ordered({})  BY <3>1, FewOrdered
    <3>3. \/ Reached(stops, goals, q) = {q} \/ Reached(stops, goals, q) = {}
          \/ Reached(stops, goals, q) = ReachedBelow(stops, goals, q)  BY ReachedHere
    <3> QED BY <2>2, <3>2, <3>3
  <2> QED BY <2>3
<1>3. DOMAIN tree \subseteq T
  <2> HIDE DEF T
  <2> QED BY <1>1, <1>2, BottomUp
<1>4. \A i \in 1..tree[p].sub : Ordered(Reached(stops, goals, Append(p, i)))  BY <1>1, <1>3
<1>5. Ordered(ReachedBelow(stops, goals, p))  BY <1>4, BelowOrdered
<1> QED BY <1>3, <1>5

\* Paths in order are as many as there are.
LEMMA OrderedSize ==
    ASSUME NEW S, S \subseteq Seq(Nat), Ordered(S)
    PROVE  /\ IsFiniteSet(S) /\ Cardinality(S) = Len(InOrder(S)) /\ Cardinality(S) \in Nat
           /\ \A i \in 1..Cardinality(S) : InOrder(S)[i] \in S
<1>1. ListsInOrder(InOrder(S), S)  BY DEF Ordered
<1>2. IsFiniteSet(S) /\ Cardinality(S) = Len(InOrder(S))  BY <1>1, OneOrder
<1>3. InOrder(S) \in Seq(S)  BY <1>1 DEF ListsInOrder
<1> QED BY <1>2, <1>3, LenProperties

\* What is told of some paths depends on their values only.
LEMMA MappedAlike ==
    ASSUME NEW S, S \subseteq Seq(Nat), Ordered(S), NEW v, NEW w, \A p \in S : v[p] = w[p]
    PROVE  Mapped(v, S) = Mapped(w, S)
<1>1. \A i \in 1..Cardinality(S) : InOrder(S)[i] \in S  BY OrderedSize
<1>2. \A i \in 1..Cardinality(S) : v[InOrder(S)[i]] = w[InOrder(S)[i]]  BY <1>1
<1> QED BY <1>2 DEF Mapped

\* The values that are found below a node are those found from its children on.
LEMMA BelowMapped ==
    ASSUME NEW tree, NEW stops, NEW goals, Walked(tree, stops, goals), NEW p \in DOMAIN tree,
           NEW found, NEW val,
           \A i \in 1..tree[p].sub :
              found[Append(p, i)] = Mapped(val, Reached(stops, goals, Append(p, i)))
    PROVE  Below(tree, p, found) = Mapped(val, ReachedBelow(stops, goals, p))
<1> DEFINE N == tree[p].sub
           R(i) == Reached(stops, goals, Append(p, i))
           S == ReachedBelow(stops, goals, p)
           lists == [i \in 1..N |-> InOrder(R(i))]
<1>1. /\ N \in Nat /\ goals \subseteq Seq(Nat)
      /\ \A i \in 1..N : Append(p, i) \in DOMAIN tree  BY Nodes DEF Walked
<1>2. \A i \in 1..N : Ordered(R(i)) /\ R(i) \subseteq Seq(Nat)
  BY <1>1, ReachedOrdered DEF Reached
<1>3. /\ lists \in Seq(Seq(Seq(Nat))) /\ Ordered(S) /\ InOrder(S) = FlattenSeq(lists)
  BY <1>2, BelowOrdered
<1>4. S \subseteq Seq(Nat)  BY <1>1 DEF ReachedBelow
<1>5. Cardinality(S) = Len(FlattenSeq(lists))
  <2> HIDE DEF S, lists
  <2> QED BY <1>3, <1>4, OrderedSize
<1>6. Len(lists) = N
  <2>1. DOMAIN lists = 1..N  OBVIOUS
  <2> HIDE DEF lists, N
  <2> QED BY <1>1, <1>3, <2>1, LenProperties
<1>7. \A i \in 1..N : found[Append(p, i)] = [k \in 1..Len(lists[i]) |-> val[lists[i][k]]]
  <2> TAKE i \in 1..N
  <2>1. lists[i] = InOrder(R(i))  OBVIOUS
  <2>2. Cardinality(R(i)) = Len(lists[i])
    <3> HIDE DEF lists, R, N
    <3> QED BY <1>2, <2>1, OrderedSize
  <2>3. found[Append(p, i)] = Mapped(val, R(i))  OBVIOUS
  <2> HIDE DEF lists, R
  <2> QED BY <2>1, <2>2, <2>3 DEF Mapped
<1> HIDE DEF lists, S, N
<1>8. Below(tree, p, found)
        = FlattenSeq([i \in 1..Len(lists) |-> [k \in 1..Len(lists[i]) |-> val[lists[i][k]]]])
  <2>1. [i \in 1..N |-> found[Append(p, i)]]
          = [i \in 1..N |-> [k \in 1..Len(lists[i]) |-> val[lists[i][k]]]]  BY <1>7
  <2> QED BY <1>6, <2>1 DEF Below, N
<1>9. Below(tree, p, found)
        = [k \in 1..Len(FlattenSeq(lists)) |-> val[FlattenSeq(lists)[k]]]
  BY <1>3, <1>8, FlattenMapped
<1>10. Mapped(val, S) = [k \in 1..Len(FlattenSeq(lists)) |-> val[FlattenSeq(lists)[k]]]
  BY <1>3, <1>5 DEF Mapped
<1> QED BY <1>9, <1>10 DEF S

\* The values of one path and of none.
LEMMA FewMapped ==
    ASSUME NEW p \in Seq(Nat), NEW val
    PROVE  Mapped(val, {p}) = <<val[p]>> /\ Mapped(val, {}) = <<>>
<1>1. InOrder({p}) = <<p>> /\ Cardinality({p}) = 1 /\ Cardinality({}) = 0  BY FewOrdered
<1>2. Mapped(val, {p}) = [i \in 1..1 |-> val[<<p>>[i]]]  BY <1>1 DEF Mapped
<1>3. \A i \in 1..1 : val[<<p>>[i]] = val[p]  OBVIOUS
<1>4. [i \in 1..1 |-> val[<<p>>[i]]] = <<val[p]>>  BY <1>3
<1>5. Mapped(val, {}) = [i \in 1..0 |-> val[InOrder({})[i]]]  BY <1>1 DEF Mapped
<1>6. [i \in 1..0 |-> val[InOrder({})[i]]] = <<>>  OBVIOUS
<1> QED BY <1>2, <1>4, <1>5, <1>6

\* A walk finds the values of what is reached, in document order.
LEMMA WalkMapped ==
    ASSUME NEW tree, NEW stops, NEW goals, Walked(tree, stops, goals), NEW p \in DOMAIN tree,
           NEW found, NEW val, IsWalk(found, tree, stops, goals, val)
    PROVE  /\ found[p] = Mapped(val, Reached(stops, goals, p))
           /\ Below(tree, p, found) = Mapped(val, ReachedBelow(stops, goals, p))
<1> DEFINE T == {q \in DOMAIN tree : found[q] = Mapped(val, Reached(stops, goals, q))}
<1>1. /\ IsTree(tree) /\ DOMAIN tree \subseteq Seq(Nat)
      /\ \A q \in DOMAIN tree : \A i \in 1..tree[q].sub :
            Append(q, i) \in DOMAIN tree /\ Append(q, i) \in Seq(Nat) /\ i \in Nat
  BY Nodes DEF Walked
<1>2. ASSUME NEW q \in DOMAIN tree, \A r \in DOMAIN tree : IsStrictPrefix(q, r) => r \in T
      PROVE  q \in T
  <2>1. \A i \in 1..tree[q].sub :
          found[Append(q, i)] = Mapped(val, Reached(stops, goals, Append(q, i)))
    <3> TAKE i \in 1..tree[q].sub
    <3>1. Append(q, i) \in DOMAIN tree /\ i \in Nat /\ q \in Seq(Nat)  BY <1>1
    <3>2. IsStrictPrefix(q, Append(q, i))  BY <3>1, Appended
    <3> QED BY <1>2, <3>1, <3>2
  <2>2. Below(tree, q, found) = Mapped(val, ReachedBelow(stops, goals, q))  BY <2>1, BelowMapped
  <2>3. found[q] = IF q \in goals THEN <<val[q]>> ELSE IF q \in stops THEN <<>>
                   ELSE Below(tree, q, found)  BY DEF IsWalk
  <2>4. Mapped(val, {q}) = <<val[q]>> /\ Mapped(val, {}) = <<>>  BY <1>1, FewMapped
  <2>5. Reached(stops, goals, q) =
          IF q \in goals THEN {q} ELSE IF q \in stops THEN {} ELSE ReachedBelow(stops, goals, q)
    BY ReachedHere
  <2> QED BY <2>2, <2>3, <2>4, <2>5
<1>3. DOMAIN tree \subseteq T
  <2> HIDE DEF T
  <2> QED BY <1>1, <1>2, BottomUp
<1>4. \A i \in 1..tree[p].sub :
        found[Append(p, i)] = Mapped(val, Reached(stops, goals, Append(p, i)))
  BY <1>1, <1>3
<1>5. Below(tree, p, found) = Mapped(val, ReachedBelow(stops, goals, p))  BY <1>4, BelowMapped
<1> QED BY <1>3, <1>5

\* There is such a walk.
LEMMA WalkExists ==
    ASSUME NEW tree, NEW stops, NEW goals, Walked(tree, stops, goals), NEW val
    PROVE  LET found == [p \in DOMAIN tree |-> Mapped(val, Reached(stops, goals, p))]
           IN IsWalk(found, tree, stops, goals, val)
<1> DEFINE found == [p \in DOMAIN tree |-> Mapped(val, Reached(stops, goals, p))]
<1>1. /\ DOMAIN tree \subseteq Seq(Nat)
      /\ \A q \in DOMAIN tree : \A i \in 1..tree[q].sub : Append(q, i) \in DOMAIN tree
  BY Nodes DEF Walked
<1>2. ASSUME NEW p \in DOMAIN tree
      PROVE  found[p] = IF p \in goals THEN <<val[p]>> ELSE IF p \in stops THEN <<>>
                        ELSE Below(tree, p, found)
  <2>1. \A i \in 1..tree[p].sub :
          found[Append(p, i)] = Mapped(val, Reached(stops, goals, Append(p, i)))  BY <1>1
  <2>2. found[p] = Mapped(val, Reached(stops, goals, p))  OBVIOUS
  <2> HIDE DEF found
  <2>3. Below(tree, p, found) = Mapped(val, ReachedBelow(stops, goals, p))  BY <2>1, BelowMapped
  <2>4. Mapped(val, {p}) = <<val[p]>> /\ Mapped(val, {}) = <<>>  BY <1>1, FewMapped
  <2>5. Reached(stops, goals, p) =
          IF p \in goals THEN {p} ELSE IF p \in stops THEN {} ELSE ReachedBelow(stops, goals, p)
    BY ReachedHere
  <2> QED BY <2>2, <2>3, <2>4, <2>5
<1>3. DOMAIN found = DOMAIN tree /\ found = [p \in DOMAIN tree |-> found[p]]  OBVIOUS
<1> HIDE DEF found
<1>4. IsWalk(found, tree, stops, goals, val)  BY <1>2, <1>3 DEF IsWalk
<1> QED BY <1>4 DEF found

\* Everything can be told of the paths of D, ...
LEMMA TellingExists ==
    ASSUME NEW tree, NEW D, NEW below, Nested(tree, D, below), NEW texts
    PROVE  \E v : IsTelling(v, tree, D, texts, below)
<1> DEFINE ToldOn(v, X) == \A p \in X : v[p] = Telling(v, tree, texts, below, p)
           Good(X) == (\A p \in X : below[p] \subseteq X) /\ \E v : ToldOn(v, X)
           C == {D \ X : X \in {Y \in SUBSET D : Good(Y)}}
<1>1. /\ IsTree(tree) /\ D \subseteq DOMAIN tree /\ D \subseteq Seq(Nat) /\ IsFiniteSet(D)
      /\ \A p \in D : /\ below[p] \subseteq D /\ Ordered(below[p]) /\ below[p] \subseteq Seq(Nat)
                      /\ \A q \in below[p] : IsStrictPrefix(p, q)
  <2>1. /\ IsTree(tree) /\ D \subseteq DOMAIN tree
        /\ \A p \in D : /\ below[p] \subseteq D /\ Ordered(below[p])
                        /\ \A q \in below[p] : IsStrictPrefix(p, q)  BY DEF Nested
  <2>2. DOMAIN tree \subseteq Seq(Nat) /\ IsFiniteSet(DOMAIN tree)  BY <2>1, Nodes
  <2>3. IsFiniteSet(D)  BY <2>1, <2>2, FS_Subset
  <2> QED BY <2>1, <2>2, <2>3
<1>2. Good({})  OBVIOUS
<1>3. D \in C /\ C # {} /\ C \subseteq SUBSET D
  <2>1. D \ {} \in C  BY <1>2
  <2>2. \A X \in C : X \subseteq D  OBVIOUS
  <2> HIDE DEF C
  <2> QED BY <2>1, <2>2
<1>4. PICK Z \in C : \A Y \in C : Y \subseteq Z => Y = Z
  <2> HIDE DEF C
  <2> QED BY <1>1, <1>3, LeastSet
<1>5. PICK X \in SUBSET D : Good(X) /\ Z = D \ X  OBVIOUS
<1>6. PICK v : ToldOn(v, X)  BY <1>5
<1>7. X = D
  <2> SUFFICES ASSUME X # D PROVE FALSE  OBVIOUS
  <2> DEFINE T == (DOMAIN tree \ D) \cup X
  <2>1. ~(DOMAIN tree \subseteq T)  BY <1>1
  <2>2. PICK p \in DOMAIN tree :
          (\A q \in DOMAIN tree : IsStrictPrefix(p, q) => q \in T) /\ p \notin T
    <3> HIDE DEF T
    <3> QED BY <1>1, <2>1, BottomUp
  <2>3. p \in D /\ p \notin X /\ \A q \in D : IsStrictPrefix(p, q) => q \in X  BY <1>1, <2>2
  <2> DEFINE w == [q \in D |-> IF q = p THEN Telling(v, tree, texts, below, p) ELSE v[q]]
             X2 == X \cup {p}
  <2>4. below[p] \subseteq X /\ \A q \in X : below[q] \subseteq X  BY <1>1, <1>5, <2>3
  <2>5. \A q \in X : q \in D /\ w[q] = v[q]  BY <2>3
  <2>6. w[p] = Telling(v, tree, texts, below, p)  BY <2>3
  <2> HIDE DEF w
  <2>7. ASSUME NEW q \in X2 PROVE Telling(w, tree, texts, below, q) = Telling(v, tree, texts, below, q)
    <3>1. q \in D /\ below[q] \subseteq X  BY <2>3, <2>4
    <3>2. below[q] \subseteq Seq(Nat) /\ Ordered(below[q]) /\ \A r \in below[q] : w[r] = v[r]
      BY <1>1, <2>5, <3>1
    <3>3. Mapped(w, below[q]) = Mapped(v, below[q])  BY <3>2, MappedAlike
    <3> QED BY <3>3 DEF Telling
  <2>8. ToldOn(w, X2)
    <3>1. \A q \in X : w[q] = Telling(v, tree, texts, below, q)  BY <1>6, <2>5
    <3> QED BY <2>6, <2>7, <3>1
  <2>9. X2 \in SUBSET D /\ Good(X2)  BY <2>3, <2>4, <2>8
  <2>10. D \ X2 \in C  BY <2>9
  <2>11. D \ X2 \subseteq Z /\ D \ X2 # Z  BY <1>5, <2>3
  <2> QED BY <1>4, <2>10, <2>11
<1> DEFINE told == [p \in D |-> v[p]]
<1>8. \A p \in D : told[p] = v[p]  OBVIOUS
<1> HIDE DEF told
<1>9. ASSUME NEW p \in D PROVE told[p] = Telling(told, tree, texts, below, p)
  <2>1. below[p] \subseteq Seq(Nat) /\ Ordered(below[p]) /\ \A q \in below[p] : told[q] = v[q]
    BY <1>1, <1>8
  <2>2. Mapped(told, below[p]) = Mapped(v, below[p])  BY <2>1, MappedAlike
  <2>3. Telling(told, tree, texts, below, p) = Telling(v, tree, texts, below, p)
    BY <2>2 DEF Telling
  <2> QED BY <1>6, <1>7, <1>8, <2>3
<1>10. IsTelling(told, tree, D, texts, below)
  <2>1. told = [p \in D |-> told[p]]  BY DEF told
  <2> QED BY <1>9, <2>1 DEF IsTelling
<1> QED BY <1>10

\* ... in one way only.
LEMMA OneTelling ==
    ASSUME NEW tree, NEW D, NEW below, Nested(tree, D, below), NEW texts,
           NEW v, IsTelling(v, tree, D, texts, below), NEW w, IsTelling(w, tree, D, texts, below)
    PROVE  v = w
<1>1. /\ IsTree(tree) /\ D \subseteq DOMAIN tree /\ DOMAIN tree \subseteq Seq(Nat)
      /\ \A p \in D : /\ below[p] \subseteq D /\ Ordered(below[p])
                      /\ \A q \in below[p] : IsStrictPrefix(p, q)  BY Nodes DEF Nested
<1> DEFINE T == {p \in DOMAIN tree : p \in D => v[p] = w[p]}
<1>2. ASSUME NEW p \in DOMAIN tree, \A q \in DOMAIN tree : IsStrictPrefix(p, q) => q \in T
      PROVE  p \in T
  <2> SUFFICES ASSUME p \in D PROVE v[p] = w[p]  OBVIOUS
  <2>1. below[p] \subseteq Seq(Nat) /\ Ordered(below[p]) /\ \A q \in below[p] : v[q] = w[q]
    BY <1>1, <1>2
  <2>2. Mapped(v, below[p]) = Mapped(w, below[p])  BY <2>1, MappedAlike
  <2>3. Telling(v, tree, texts, below, p) = Telling(w, tree, texts, below, p)
    BY <2>2 DEF Telling
  <2>4. v[p] = Telling(v, tree, texts, below, p) /\ w[p] = Telling(w, tree, texts, below, p)
    BY DEF IsTelling
  <2> QED BY <2>3, <2>4
<1>3. DOMAIN tree \subseteq T
  <2> HIDE DEF T
  <2> QED BY <1>1, <1>2, BottomUp
<1>4. \A p \in D : v[p] = w[p]  BY <1>1, <1>3
<1>5. DOMAIN v = D /\ DOMAIN w = D /\ v = [p \in D |-> v[p]] /\ w = [p \in D |-> w[p]]
  BY DEF IsTelling
<1> QED BY <1>4, <1>5

--------
(* The walks over a card. *)

\* What some of the stops stand under is an entity: there is nothing below a text.
LEMMA BelowIsUnder ==
    ASSUME NEW tree, IsTree(tree), NEW goals, goals \subseteq Stops(tree)
    PROVE  /\ Walked(tree, Stops(tree), goals)
           /\ \A p \in DOMAIN tree :
                 ReachedBelow(Stops(tree), goals, p) = {q \in goals : Under(tree, p, q)}
           /\ Reached(Stops(tree), EntityPaths(tree), <<>>)
                 = {q \in EntityPaths(tree) : EntitiesOver(tree, q) = {}}
<1>1. /\ DOMAIN tree \subseteq Seq(Nat)
      /\ \A p \in DOMAIN tree : tree[p].kind = "text" => tree[p].sub = 0
  BY Nodes DEF IsTree
<1>2. Walked(tree, Stops(tree), goals)  BY DEF Walked, Stops
<1>3. ASSUME NEW r \in Stops(tree), NEW q \in DOMAIN tree, IsStrictPrefix(r, q)
      PROVE  r \in EntityPaths(tree)
  <2>1. r \in DOMAIN tree  BY DEF Stops
  <2>2. \E i \in 1..tree[r].sub : IsPrefix(Append(r, i), q)  BY <1>3, <2>1, AtOrBelowAChild
  <2>3. tree[r].kind # "text"  BY <1>1, <2>1, <2>2
  <2> QED BY <2>1, <2>3 DEF Stops, EntityPaths
<1>4. EntityPaths(tree) \subseteq Stops(tree) /\ Stops(tree) \subseteq DOMAIN tree
  BY DEF EntityPaths, Stops
<1>5. \A p \in DOMAIN tree :
         ReachedBelow(Stops(tree), goals, p) = {q \in goals : Under(tree, p, q)}
  BY <1>3, <1>4 DEF ReachedBelow, Under
<1>6. ASSUME NEW q \in EntityPaths(tree)
      PROVE  q \in Reached(Stops(tree), EntityPaths(tree), <<>>) <=> EntitiesOver(tree, q) = {}
  <2>1. IsPrefix(<<>>, q) /\ \A r \in Stops(tree) : IsPrefix(<<>>, r)
    BY <1>1, <1>4, PrefixOrder
  <2>2. EntitiesOver(tree, q) = {r \in EntityPaths(tree) : IsStrictPrefix(r, q)}
    BY DEF EntitiesOver, EntityPaths
  <2> QED BY <1>3, <1>4, <2>1, <2>2 DEF Reached
<1>7. Reached(Stops(tree), EntityPaths(tree), <<>>)
        = {q \in EntityPaths(tree) : EntitiesOver(tree, q) = {}}  BY <1>6 DEF Reached
<1> QED BY <1>2, <1>5, <1>7

\* A list of one element is filtered to itself or to nothing.
LEMMA OneText ==
    ASSUME NEW t
    PROVE  Filter(<<t>>, LAMBDA x : x # NoText) = IF t # NoText THEN <<t>> ELSE <<>>
<1> DEFINE places == {i \in DOMAIN <<t>> : <<t>>[i] # NoText}
<1>1. Filter(<<t>>, LAMBDA x : x # NoText) = Keep(<<t>>, places)  BY DEF Filter
<1>2. <<t>> \in Seq({t}) /\ Len(<<t>>) = 1 /\ DOMAIN <<t>> = 1..1 /\ <<t>>[1] = t  OBVIOUS
<1>3. CASE t # NoText
  <2>1. \A i \in 1..Len(<<t>>) : i \in places  BY <1>2, <1>3
  <2> HIDE DEF places
  <2> QED BY <1>1, <1>2, <1>3, <2>1, KeepAll
<1>4. CASE t = NoText
  <2>1. places \cap 1..Len(<<t>>) = {}  BY <1>2, <1>4
  <2> HIDE DEF places
  <2> QED BY <1>1, <1>2, <1>4, <2>1, KeepNone
<1> QED BY <1>3, <1>4

\* The texts of an entity are those that stand under it, in order, each once.
LEMMA TextsFound ==
    ASSUME NEW tree, IsTree(tree), NEW p \in DOMAIN tree
    PROVE  /\ Distinct(Below(tree, p, Texts(tree))) = TextsUnder(tree, p)
           /\ Texts(tree)[p] = IF p \in TextPaths(tree) THEN <<tree[p].text>>
                               ELSE IF p \in Stops(tree) THEN <<>>
                               ELSE Below(tree, p, Texts(tree))
<1> DEFINE goals == TextPaths(tree)
           stops == Stops(tree)
           val == [q \in DOMAIN tree |-> tree[q].text]
           F(f) == [q \in DOMAIN tree |->
                      IF tree[q].kind = "entity" THEN <<>>
                      ELSE IF tree[q].kind = "text"
                           THEN Filter(<<tree[q].text>>, LAMBDA t : t # NoText)
                      ELSE Below(tree, q, f)]
           found == CHOOSE f : f = F(f)
           S == {q \in goals : Under(tree, p, q)}
<1>1. Texts(tree) = found  BY DEF Texts
<1>2. goals \subseteq stops /\ goals \subseteq DOMAIN tree /\ DOMAIN tree \subseteq Seq(Nat)
  BY Nodes DEF TextPaths, Stops
<1>3. Walked(tree, stops, goals) /\ ReachedBelow(stops, goals, p) = S
  <2> HIDE DEF goals
  <2>1. /\ Walked(tree, Stops(tree), goals)
        /\ \A q \in DOMAIN tree :
              ReachedBelow(Stops(tree), goals, q) = {r \in goals : Under(tree, q, r)}
    BY <1>2, BelowIsUnder
  <2> QED BY <2>1
<1>4. ASSUME NEW f PROVE f = F(f) <=> IsWalk(f, tree, stops, goals, val)
  <2> DEFINE W == [q \in DOMAIN tree |->
                     IF q \in goals THEN <<val[q]>> ELSE IF q \in stops THEN <<>>
                     ELSE Below(tree, q, f)]
  <2>1. ASSUME NEW q \in DOMAIN tree PROVE F(f)[q] = W[q]
    <3>1. q \in stops <=> tree[q].kind \in {"entity", "text"}  BY DEF Stops
    <3>2. q \in goals <=> tree[q].kind = "text" /\ tree[q].text # NoText  BY DEF TextPaths
    <3>3. Filter(<<tree[q].text>>, LAMBDA t : t # NoText)
            = IF tree[q].text # NoText THEN <<tree[q].text>> ELSE <<>>  BY OneText
    <3>4. val[q] = tree[q].text  OBVIOUS
    <3>5. "text" # "entity"  OBVIOUS
    <3> HIDE DEF stops, goals, val
    <3> QED BY <3>1, <3>2, <3>3, <3>4, <3>5
  <2> HIDE DEF goals, stops, val
  <2>2. F(f) = W  BY <2>1
  <2> QED BY <2>2 DEF IsWalk
<1> HIDE DEF F, goals, stops, val
<1>5. \E f : IsWalk(f, tree, stops, goals, val)  BY <1>3, WalkExists
<1>6. found = F(found)  BY <1>4, <1>5
<1> HIDE DEF found
<1>7. IsWalk(found, tree, stops, goals, val)  BY <1>4, <1>6
<1>8. Below(tree, p, found) = Mapped(val, S)
  <2> HIDE DEF S
  <2> QED BY <1>3, <1>7, WalkMapped
<1>9. Ordered(S) /\ S \subseteq Seq(Nat) /\ S \subseteq DOMAIN tree
  BY <1>2, <1>3, ReachedOrdered
<1>10. \A i \in 1..Cardinality(S) : InOrder(S)[i] \in S
  <2> HIDE DEF S
  <2> QED BY <1>9, OrderedSize
<1>11. DOMAIN InOrder(S) = 1..Cardinality(S)  BY DEF InOrder
<1>12. Mapped(val, S) = [i \in DOMAIN InOrder(S) |-> tree[InOrder(S)[i]].text]
  <2> HIDE DEF S
  <2>1. \A i \in 1..Cardinality(S) : val[InOrder(S)[i]] = tree[InOrder(S)[i]].text
    BY <1>9, <1>10 DEF val
  <2> QED BY <1>11, <2>1 DEF Mapped
<1>13. TextsUnder(tree, p) = Distinct([i \in DOMAIN InOrder(S) |-> tree[InOrder(S)[i]].text])
  BY DEF TextsUnder, goals
<1>14. found[p] = IF p \in goals THEN <<tree[p].text>> ELSE IF p \in stops THEN <<>>
                  ELSE Below(tree, p, found)  BY <1>7 DEF IsWalk, val
<1>15. Distinct(Below(tree, p, found)) = TextsUnder(tree, p)  BY <1>8, <1>12, <1>13
<1> QED BY <1>1, <1>14, <1>15 DEF goals, stops

\* The top entities of a card are those the search comes to, in order.
LEMMA TopFound ==
    ASSUME NEW tree, IsTree(tree)
    PROVE  TopEntities(tree) = InOrder(Tops(tree)) /\ Ordered(Tops(tree))
<1> DEFINE goals == EntityPaths(tree)
           stops == TopStops(tree)
           val == [q \in DOMAIN tree |-> q]
           F(f) == [q \in DOMAIN tree |->
                      IF tree[q].kind = "entity" THEN <<q>>
                      ELSE IF tree[q].kind \in {"text", "opaque"} THEN <<>>
                      ELSE Below(tree, q, f)]
           found == CHOOSE f : f = F(f)
           tops == Tops(tree)
<1>1. TopEntities(tree) = found[<<>>]  BY DEF TopEntities
<1>2. /\ goals \subseteq stops /\ goals \subseteq DOMAIN tree /\ DOMAIN tree \subseteq Seq(Nat)
      /\ <<>> \in DOMAIN tree  BY Nodes DEF EntityPaths, TopStops
<1>3. Walked(tree, stops, goals) /\ Reached(stops, goals, <<>>) = tops
  BY DEF Walked, EntityPaths, TopStops, Tops
<1>4. ASSUME NEW f PROVE f = F(f) <=> IsWalk(f, tree, stops, goals, val)
  <2> DEFINE W == [q \in DOMAIN tree |->
                     IF q \in goals THEN <<val[q]>> ELSE IF q \in stops THEN <<>>
                     ELSE Below(tree, q, f)]
  <2>1. ASSUME NEW q \in DOMAIN tree PROVE F(f)[q] = W[q]
    <3>1. q \in stops <=> tree[q].kind \in {"entity", "text", "opaque"}  BY DEF TopStops
    <3>2. q \in goals <=> tree[q].kind = "entity"  BY DEF EntityPaths
    <3>3. val[q] = q  OBVIOUS
    <3> HIDE DEF stops, goals, val
    <3> QED BY <3>1, <3>2, <3>3
  <2> HIDE DEF goals, stops, val
  <2>2. F(f) = W  BY <2>1
  <2> QED BY <2>2 DEF IsWalk
<1> HIDE DEF F, goals, stops, val
<1>5. \E f : IsWalk(f, tree, stops, goals, val)  BY <1>3, WalkExists
<1>6. found = F(found)  BY <1>4, <1>5
<1> HIDE DEF found
<1>7. IsWalk(found, tree, stops, goals, val)  BY <1>4, <1>6
<1>8. found[<<>>] = Mapped(val, tops)
  <2> HIDE DEF tops
  <2> QED BY <1>2, <1>3, <1>7, WalkMapped
<1>9. Ordered(tops) /\ tops \subseteq Seq(Nat) /\ tops \subseteq DOMAIN tree
  <2>1. tops \subseteq goals  BY DEF Tops, Reached, goals
  <2> HIDE DEF tops
  <2> QED BY <1>2, <1>3, <2>1, ReachedOrdered
<1>10. \A i \in 1..Cardinality(tops) : InOrder(tops)[i] \in tops
  <2> HIDE DEF tops
  <2> QED BY <1>9, OrderedSize
<1>11. Mapped(val, tops) = InOrder(tops)
  <2> HIDE DEF tops
  <2>1. \A i \in 1..Cardinality(tops) : val[InOrder(tops)[i]] = InOrder(tops)[i]
    BY <1>9, <1>10 DEF val
  <2>2. InOrder(tops) = [i \in 1..Cardinality(tops) |-> InOrder(tops)[i]]  BY SMTT(30) DEF InOrder
  <2> QED BY <2>1, <2>2 DEF Mapped
<1> QED BY <1>1, <1>8, <1>9, <1>11

\* Entities contain each other as a tree's nodes do.
LEMMA EntitiesNested ==
    ASSUME NEW tree, IsTree(tree), NEW D, D \subseteq EntityPaths(tree)
    PROVE  /\ Nested(tree, D, UnderEach(tree, D))
           /\ D \subseteq Seq(Nat) /\ D \subseteq DOMAIN tree
<1> DEFINE below == UnderEach(tree, D)
<1>1. /\ D \subseteq Stops(tree) /\ D \subseteq DOMAIN tree /\ DOMAIN tree \subseteq Seq(Nat)
      /\ D \subseteq Seq(Nat)  BY Nodes DEF EntityPaths, Stops
<1>2. Walked(tree, Stops(tree), D)  BY <1>1, BelowIsUnder
<1>3. \A p \in DOMAIN tree : ReachedBelow(Stops(tree), D, p) = {q \in D : Under(tree, p, q)}
  BY <1>1, BelowIsUnder
<1>4. \A p \in DOMAIN tree : Ordered(ReachedBelow(Stops(tree), D, p))  BY <1>2, ReachedOrdered
<1>5. ASSUME NEW p \in D
      PROVE  /\ below[p] \subseteq D /\ Ordered(below[p])
             /\ \A q \in below[p] : IsStrictPrefix(p, q)
  <2>1. below[p] = {q \in D : Under(tree, p, q)}  BY DEF UnderEach
  <2>2. \A q \in D : Under(tree, p, q) => IsStrictPrefix(p, q)  BY DEF Under
  <2> HIDE DEF below
  <2> QED BY <1>1, <1>3, <1>4, <2>1, <2>2
<1> HIDE DEF below
<1>6. Nested(tree, D, below)  BY <1>1, <1>5 DEF Nested
<1> QED BY <1>1, <1>6 DEF below

\* What is told of the entities that show something is what is found of them.
LEMMA EntitiesFound ==
    ASSUME NEW tree, IsTree(tree)
    PROVE  \E v : /\ IsTelling(v, tree, Visible(tree), TextsOf(tree), UnderEach(tree, Visible(tree)))
                  /\ IsWalk(FlattenEntities(tree), tree, Stops(tree), Visible(tree), v)
<1> DEFINE D == Visible(tree)
           stops == Stops(tree)
           below == UnderEach(tree, D)
           texts == TextsOf(tree)
           found0 == Texts(tree)
           Of(p, f) == [slots |-> tree[p].slots, urn |-> tree[p].urn,
                        texts |-> Distinct(Below(tree, p, found0)),
                        children |-> Below(tree, p, f)]
           F(f) == [p \in DOMAIN tree |->
                      IF tree[p].kind = "text" THEN <<>>
                      ELSE IF tree[p].kind # "entity" THEN Below(tree, p, f)
                      ELSE IF Cardinality(EntitiesOver(tree, p)) > MaxEntityDepth
                              \/ IsEmpty(Of(p, f))
                           THEN <<>> ELSE <<Of(p, f)>>]
           found == CHOOSE f : f = F(f)
<1>1. FlattenEntities(tree) = found  BY DEF FlattenEntities
<1>2. /\ D \subseteq EntityPaths(tree) /\ D \subseteq stops /\ D \subseteq DOMAIN tree
      /\ IsFiniteSet(DOMAIN tree)  BY Nodes DEF Visible, EntityPaths, Stops
<1>3. /\ Walked(tree, stops, D)
      /\ \A p \in DOMAIN tree : ReachedBelow(stops, D, p) = {q \in D : Under(tree, p, q)}
  <2> HIDE DEF D
  <2>1. /\ Walked(tree, Stops(tree), D)
        /\ \A p \in DOMAIN tree :
              ReachedBelow(Stops(tree), D, p) = {q \in D : Under(tree, p, q)}
    BY <1>2, BelowIsUnder
  <2> QED BY <2>1
<1>4. \A p \in D : below[p] = ReachedBelow(stops, D, p)
  <2> HIDE DEF D, stops
  <2> QED BY <1>2, <1>3 DEF UnderEach
<1>5. Nested(tree, D, below)
  <2> HIDE DEF D
  <2> QED BY <1>2, EntitiesNested
<1>6. \A p \in DOMAIN tree : Distinct(Below(tree, p, found0)) = texts[p]
  <2> TAKE p \in DOMAIN tree
  <2>1. texts[p] = TextsUnder(tree, p)  BY DEF TextsOf
  <2> QED BY <2>1, TextsFound
<1>8. ASSUME NEW p \in DOMAIN tree, tree[p].kind = "entity", NEW f
      PROVE  (Cardinality(EntitiesOver(tree, p)) > MaxEntityDepth \/ IsEmpty(Of(p, f))) <=> p \notin D
  <2>1. Of(p, f).texts = texts[p] /\ Of(p, f).slots = tree[p].slots  BY <1>6
  <2>2. IsEmpty(Of(p, f)) <=> ~Shows(tree, p)
    <3>1. texts[p] = TextsUnder(tree, p)  BY DEF TextsOf
    <3> HIDE DEF Of, texts
    <3> QED BY <2>1, <3>1 DEF IsEmpty, Shows
  <2>3. Cardinality(EntitiesOver(tree, p)) \in Nat
    <3>1. EntitiesOver(tree, p) \subseteq DOMAIN tree  BY DEF EntitiesOver
    <3> QED BY <1>2, <3>1, FS_Subset, FS_CardinalityType
  <2>4. p \in D <=> Cardinality(EntitiesOver(tree, p)) <= MaxEntityDepth /\ Shows(tree, p)
    BY <1>8 DEF Visible, EntityPaths
  <2> DEFINE n == Cardinality(EntitiesOver(tree, p))
  <2>5. n > MaxEntityDepth <=> ~(n <= MaxEntityDepth)
    <3> HIDE DEF n
    <3> QED BY <2>3, DepthAssumption DEF n
  <2> HIDE DEF D, Of
  <2> QED BY <2>2, <2>4, <2>5
<1>9. ASSUME NEW f, NEW v, \A p \in D : v[p] = Of(p, f)
      PROVE  f = F(f) <=> IsWalk(f, tree, stops, D, v)
  <2> DEFINE W == [p \in DOMAIN tree |->
                     IF p \in D THEN <<v[p]>> ELSE IF p \in stops THEN <<>>
                     ELSE Below(tree, p, f)]
  <2>1. ASSUME NEW p \in DOMAIN tree PROVE F(f)[p] = W[p]
    <3>1. p \in stops <=> tree[p].kind \in {"entity", "text"}  BY DEF Stops
    <3>2. p \in D => tree[p].kind = "entity"  BY <1>2 DEF EntityPaths
    <3>3. tree[p].kind = "entity" =>
            ((Cardinality(EntitiesOver(tree, p)) > MaxEntityDepth \/ IsEmpty(Of(p, f))) <=> p \notin D)
      BY <1>8
    <3>4. F(f)[p] = IF tree[p].kind = "text" THEN <<>>
                    ELSE IF tree[p].kind # "entity" THEN Below(tree, p, f)
                    ELSE IF p \in D THEN <<Of(p, f)>> ELSE <<>>
      <4> HIDE DEF Of, D
      <4> QED BY <3>3
    <3> HIDE DEF stops, D, F, Of
    <3> QED BY <1>9, <3>1, <3>2, <3>4
  <2> HIDE DEF stops, D, Of
  <2>2. F(f) = W  BY <2>1
  <2> QED BY <2>2 DEF IsWalk
<1> HIDE DEF F, D, stops, below, texts, found0
<1>10. \E v : IsTelling(v, tree, D, texts, below)  BY <1>5, TellingExists
<1>11. PICK v : IsTelling(v, tree, D, texts, below)  BY <1>10
<1>12. \E f : IsWalk(f, tree, stops, D, v) /\ f = F(f)
  <2> DEFINE f == [p \in DOMAIN tree |-> Mapped(v, Reached(stops, D, p))]
  <2>1. IsWalk(f, tree, stops, D, v)  BY <1>3, WalkExists
  <2> HIDE DEF f, Of
  <2>2. ASSUME NEW p \in D PROVE v[p] = Of(p, f)
    <3>1. v[p] = Telling(v, tree, texts, below, p)  BY <1>11 DEF IsTelling
    <3>2. Below(tree, p, f) = Mapped(v, below[p])  BY <1>2, <1>3, <1>4, <2>1, WalkMapped
    <3>3. Distinct(Below(tree, p, found0)) = texts[p]  BY <1>2, <1>6
    <3> QED BY <3>1, <3>2, <3>3 DEF Telling, Of
  <2>3. f = F(f)  BY <1>9, <2>1, <2>2
  <2> QED BY <2>1, <2>3
<1>13. found = F(found)  BY <1>12
<1> HIDE DEF found, Of
<1> DEFINE w == [p \in D |-> Of(p, found)]
<1>14. \A p \in D : w[p] = Of(p, found)  OBVIOUS
<1>15. w = [p \in D |-> w[p]]  OBVIOUS
<1> HIDE DEF w
<1>16. IsWalk(found, tree, stops, D, w)  BY <1>9, <1>13, <1>14
<1>17. IsTelling(w, tree, D, texts, below)
  <2>1. ASSUME NEW p \in D PROVE w[p] = Telling(w, tree, texts, below, p)
    <3>1. Below(tree, p, found) = Mapped(w, below[p])  BY <1>2, <1>3, <1>4, <1>16, WalkMapped
    <3>2. Distinct(Below(tree, p, found0)) = texts[p]  BY <1>2, <1>6
    <3> QED BY <1>14, <3>1, <3>2 DEF Telling, Of
  <2> QED BY <1>15, <2>1 DEF IsTelling
<1> QED BY <1>1, <1>16, <1>17 DEF D, texts, below, stops

\* What is told of what is shown is what is rendered.
LEMMA RenderedIs ==
    ASSUME NEW tree, IsTree(tree), Legible(tree)
    PROVE  /\ \E v : /\ IsTelling(v, tree, Visible(tree), TextsOf(tree),
                                  UnderEach(tree, Visible(tree)))
                     /\ Rendered(tree) = Mapped(v, Outermost(tree))
           /\ Open(tree)
<1> DEFINE D == Visible(tree)
           below == UnderEach(tree, D)
           texts == TextsOf(tree)
           Listed(paths, f) == [i \in 1..Cardinality(paths) |-> f[InOrder(paths)[i]]]
           F(f) == [p \in Showing(tree) |->
                      [slots |-> tree[p].slots, urn |-> tree[p].urn, texts |-> TextsUnder(tree, p),
                       children |-> Listed({q \in Showing(tree) : ShownUnder(tree, p, q)}, f)]]
           as == CHOOSE f : f = F(f)
           first == {q \in Showing(tree) : \A p \in Showing(tree) : ~IsStrictPrefix(p, q)}
<1>1. Rendered(tree) = Listed(first, as)  BY DEF Rendered
<1>2. Showing(tree) = D /\ Open(tree)  BY DEF Legible, Showing, Visible, Open
<1>3. /\ D \subseteq EntityPaths(tree) /\ EntityPaths(tree) \subseteq DOMAIN tree
      /\ \A q \in D : EntitiesOver(tree, q) = {p \in D : IsStrictPrefix(p, q)}
  <2>1. D \subseteq EntityPaths(tree)  BY DEF Visible
  <2>2. \A q \in D : EntitiesOver(tree, q) \subseteq D  BY <1>2 DEF Legible
  <2> HIDE DEF D
  <2> QED BY <2>1, <2>2 DEF EntitiesOver, EntityPaths
<1>4. Nested(tree, D, below)
  <2> HIDE DEF D
  <2> QED BY <1>3, EntitiesNested
<1>5. first = Outermost(tree)  BY <1>2, <1>3 DEF Outermost
<1>6. ASSUME NEW p \in D PROVE {q \in Showing(tree) : ShownUnder(tree, p, q)} = below[p]
  <2>1. below[p] = {q \in D : Under(tree, p, q)}  BY DEF UnderEach
  <2> HIDE DEF D, below
  <2>2. ASSUME NEW q \in D, NEW r \in EntityPaths(tree), IsStrictPrefix(r, q) PROVE r \in D
    BY <1>3, <2>2 DEF EntitiesOver, EntityPaths
  <2>3. \A q \in D : ShownUnder(tree, p, q) <=> Under(tree, p, q)
    BY <1>2, <1>3, <2>2 DEF ShownUnder, Under
  <2> QED BY <1>2, <2>1, <2>3
<1>7. ASSUME NEW f PROVE f = F(f) <=> IsTelling(f, tree, D, texts, below)
  <2>1. ASSUME NEW p \in D PROVE F(f)[p] = Telling(f, tree, texts, below, p)
    <3>1. texts[p] = TextsUnder(tree, p)  BY <1>3 DEF TextsOf
    <3>2. Listed(below[p], f) = Mapped(f, below[p])  BY DEF Mapped
    <3> HIDE DEF D, below, texts
    <3> QED BY <1>2, <1>6, <3>1, <3>2 DEF Telling
  <2>2. F(f) = [p \in D |-> F(f)[p]]  BY <1>2
  <2> HIDE DEF F
  <2> QED BY <2>1, <2>2 DEF IsTelling
<1> HIDE DEF F, D, below, texts, first
<1>8. \E f : IsTelling(f, tree, D, texts, below)  BY <1>4, TellingExists
<1>9. as = F(as)  BY <1>7, <1>8
<1> HIDE DEF as
<1>10. IsTelling(as, tree, D, texts, below)  BY <1>7, <1>9
<1>11. Rendered(tree) = Mapped(as, Outermost(tree))  BY <1>1, <1>5 DEF Mapped
<1> QED BY <1>2, <1>10, <1>11 DEF D, below, texts

\* The lists of one path, if it is wanted, are one list of the wanted paths.
LEMMA PickedInOrder ==
    ASSUME NEW S, S \subseteq Seq(Nat), Ordered(S), NEW D, NEW val
    PROVE  /\ FlattenSeq([i \in DOMAIN InOrder(S) |->
                            Mapped(val, {InOrder(S)[i]} \cap D)]) = Mapped(val, S \cap D)
           /\ Ordered(S \cap D)
<1> DEFINE s == InOrder(S)
           N == Cardinality(S)
           sets == [i \in 1..N |-> {s[i]} \cap D]
           lists == [i \in 1..N |-> InOrder(sets[i])]
           all == FlattenSeq(lists)
<1>1. /\ N \in Nat /\ N = Len(s)
      /\ \A i \in 1..N : s[i] \in S /\ s[i] \in Seq(Nat)  BY OrderedSize
<1>2. DOMAIN s = 1..N  BY DEF InOrder
<1>3. /\ \A i, k \in 1..N : i < k => Before(s[i], s[k])
      /\ \A p \in S : \E i \in 1..N : s[i] = p  BY <1>1 DEF Ordered, ListsInOrder
<1> HIDE DEF s, N
<1>4. ASSUME NEW i \in 1..N
      PROVE  /\ sets[i] \subseteq {s[i]} /\ sets[i] \subseteq Seq(Nat) /\ Ordered(sets[i])
             /\ lists[i] = InOrder(sets[i])
  <2>1. sets[i] = {s[i]} \/ sets[i] = {}  OBVIOUS
  <2>2. lists[i] = InOrder(sets[i])  OBVIOUS
  <2>3. sets[i] = {s[i]} \cap D  OBVIOUS
  <2> HIDE DEF sets, lists
  <2> QED BY <1>1, <2>1, <2>2, <2>3, FewOrdered
<1>5. UNION {sets[i] : i \in 1..N} = S \cap D
  <2>1. \A i \in 1..N : sets[i] = {s[i]} \cap D  OBVIOUS
  <2> HIDE DEF sets
  <2>2. \A p \in S \cap D : \E i \in 1..N : p \in sets[i]  BY <1>3, <2>1
  <2>3. \A i \in 1..N : \A p \in sets[i] : p \in S \cap D  BY <1>1, <2>1
  <2> QED BY <2>2, <2>3
<1>6. DOMAIN lists = 1..N /\ lists = [i \in 1..N |-> lists[i]]  OBVIOUS
<1> HIDE DEF sets, lists
<1>7. InTurn(N, lists, sets)
  <2>1. \A i \in 1..N : ListsInOrder(lists[i], sets[i])  BY <1>4 DEF Ordered
  <2>2. \A i, k \in 1..N : i < k => \A p \in sets[i], q \in sets[k] : Before(p, q)
    BY <1>3, <1>4
  <2> QED BY <1>4, <1>6, <2>1, <2>2 DEF InTurn
<1>8. lists \in Seq(Seq(Seq(Nat))) /\ ListsInOrder(all, S \cap D)
  <2> HIDE DEF all
  <2>0. N \in Nat /\ InTurn(N, lists, sets)  BY <1>1, <1>7
  <2>1. /\ lists \in Seq(Seq(Seq(Nat)))
        /\ ListsInOrder(FlattenSeq(lists), UNION {sets[i] : i \in 1..N})
    BY <2>0, OrderedFlatten
  <2> USE DEF all
  <2> QED BY <1>5, <2>1
<1>9. S \cap D \subseteq Seq(Nat)  OBVIOUS
<1> HIDE DEF all
<1>10. Cardinality(S \cap D) = Len(all) /\ InOrder(S \cap D) = all  BY <1>8, <1>9, OneOrder
<1>11. Ordered(S \cap D)  BY <1>8, <1>10 DEF Ordered
<1>12. Len(lists) = N  BY <1>1, <1>6, <1>8, LenProperties
<1>13. \A i \in 1..N : Mapped(val, {s[i]} \cap D) = [k \in 1..Len(lists[i]) |-> val[lists[i][k]]]
  <2> TAKE i \in 1..N
  <2>1. sets[i] = {s[i]} \cap D  BY DEF sets
  <2>2. Cardinality(sets[i]) = Len(lists[i])  BY <1>4, OrderedSize
  <2> QED BY <1>4, <2>1, <2>2 DEF Mapped
<1>14. FlattenSeq([i \in DOMAIN s |-> Mapped(val, {s[i]} \cap D)])
         = FlattenSeq([i \in 1..Len(lists) |-> [k \in 1..Len(lists[i]) |-> val[lists[i][k]]]])
  <2>1. [i \in 1..N |-> Mapped(val, {s[i]} \cap D)]
          = [i \in 1..N |-> [k \in 1..Len(lists[i]) |-> val[lists[i][k]]]]  BY <1>13
  <2> QED BY <1>2, <1>12, <2>1
<1>15. FlattenSeq([i \in 1..Len(lists) |-> [k \in 1..Len(lists[i]) |-> val[lists[i][k]]]])
         = [j \in 1..Len(all) |-> val[all[j]]]  BY <1>8, FlattenMapped DEF all
<1>16. Mapped(val, S \cap D) = [j \in 1..Len(all) |-> val[all[j]]]  BY <1>10 DEF Mapped
<1> QED BY <1>11, <1>14, <1>15, <1>16 DEF s

\* Of the visible entities, the search comes to those in no other.
LEMMA TopsAreOutermost ==
    ASSUME NEW tree, IsTree(tree), Open(tree)
    PROVE  Tops(tree) \cap Visible(tree) = Outermost(tree)
<1>1. /\ DOMAIN tree \subseteq Seq(Nat) /\ EntityPaths(tree) \subseteq Stops(tree)
      /\ Stops(tree) \subseteq TopStops(tree) /\ TopStops(tree) \subseteq DOMAIN tree
      /\ Visible(tree) \subseteq EntityPaths(tree)
  BY Nodes DEF EntityPaths, Stops, TopStops, Visible
<1>2. Reached(Stops(tree), EntityPaths(tree), <<>>)
        = {q \in EntityPaths(tree) : EntitiesOver(tree, q) = {}}  BY <1>1, BelowIsUnder
<1>3. Tops(tree) \subseteq Reached(Stops(tree), EntityPaths(tree), <<>>)
  BY <1>1 DEF Tops, Reached
<1>4. ASSUME NEW q \in Visible(tree), EntitiesOver(tree, q) = {},
             NEW r \in TopStops(tree), IsStrictPrefix(r, q)
      PROVE  FALSE
  <2>1. q \in Reached(Stops(tree), EntityPaths(tree), <<>>)  BY <1>1, <1>2, <1>4
  <2>2. IsPrefix(<<>>, r) /\ r \in DOMAIN tree  BY <1>1, PrefixOrder
  <2>3. r \notin Stops(tree)  BY <1>4, <2>1, <2>2 DEF Reached
  <2>4. tree[r].kind = "opaque"  BY <2>3 DEF Stops, TopStops
  <2>5. PICK e : e \in EntitiesOver(tree, r)  BY <1>4, <2>2, <2>4 DEF Open
  <2>6. e \in DOMAIN tree /\ IsStrictPrefix(e, r) /\ tree[e].kind = "entity"
    BY <2>5 DEF EntitiesOver
  <2>7. IsPrefix(e, q)  BY <1>1, <1>4, <2>2, <2>6, PrefixOrder DEF IsStrictPrefix
  <2>8. e # q
    <3>1. e \in Seq(Nat) /\ r \in Seq(Nat) /\ q \in Seq(Nat)  BY <1>1, <2>2, <2>6
    <3>2. e = q => IsPrefix(r, e) /\ IsPrefix(e, r) /\ e # r
      BY <1>4, <2>6 DEF IsStrictPrefix
    <3> QED BY <3>1, <3>2, PrefixOrder
  <2> QED BY <1>4, <2>6, <2>7, <2>8 DEF EntitiesOver, IsStrictPrefix
<1>5. \A q \in Visible(tree) : IsPrefix(<<>>, q)  BY <1>1, PrefixOrder
<1>6. Outermost(tree) \subseteq Tops(tree)  BY <1>1, <1>4, <1>5 DEF Outermost, Tops, Reached
<1> QED BY <1>2, <1>3, <1>6 DEF Outermost

\* A card is flattened to what is found of its outermost entities, as if its root were an
\* entity's.
LEMMA CardIsFound ==
    ASSUME NEW tree, IsTree(tree), Open(tree)
    PROVE  /\ \E v : /\ IsTelling(v, tree, Visible(tree), TextsOf(tree),
                                  UnderEach(tree, Visible(tree)))
                     /\ FlattenSection(tree) = Mapped(v, Outermost(tree))
           /\ FlattenSection(tree) = FlattenEntities(tree)[<<>>]
           /\ FlattenSection(tree) \in Seq(Range(FlattenSection(tree)))
<1> DEFINE D == Visible(tree)
           stops == Stops(tree)
           tops == Tops(tree)
           found == FlattenEntities(tree)
           s == InOrder(tops)
<1>1. PICK v : /\ IsTelling(v, tree, D, TextsOf(tree), UnderEach(tree, D))
               /\ IsWalk(found, tree, stops, D, v)  BY EntitiesFound
<1>3. TopEntities(tree) = s /\ Ordered(tops)  BY TopFound
<1>4. /\ D \subseteq EntityPaths(tree) /\ D \subseteq stops /\ EntityPaths(tree) \subseteq stops
      /\ EntityPaths(tree) \subseteq DOMAIN tree /\ tops \subseteq EntityPaths(tree)
      /\ DOMAIN tree \subseteq Seq(Nat) /\ tops \subseteq Seq(Nat)
  BY Nodes DEF Visible, EntityPaths, Stops, Tops, Reached
<1>5. Walked(tree, stops, D)
  <2> HIDE DEF D
  <2> QED BY <1>4, BelowIsUnder
<1>6. tops \cap D = Outermost(tree)  BY TopsAreOutermost
<1>9. \A i \in DOMAIN s : s[i] \in tops
  <2>1. DOMAIN s = 1..Cardinality(tops)  BY DEF InOrder
  <2> HIDE DEF tops
  <2> QED BY <1>3, <1>4, <2>1, OrderedSize
<1>10. FlattenSection(tree) = FlattenSeq([i \in DOMAIN s |-> found[s[i]]])
  BY <1>3 DEF FlattenSection
<1> HIDE DEF D, stops, tops, found, s
<1>11. \A i \in DOMAIN s : found[s[i]] = Mapped(v, {s[i]} \cap D)
  <2> TAKE i \in DOMAIN s
  <2>1. s[i] \in DOMAIN tree /\ s[i] \in stops  BY <1>4, <1>9
  <2>2. found[s[i]] = Mapped(v, Reached(stops, D, s[i]))  BY <1>1, <1>5, <2>1, WalkMapped
  <2>3. Reached(stops, D, s[i]) = IF s[i] \in D THEN {s[i]} ELSE {}  BY <1>5, <2>1, ReachedHere
  <2> QED BY <2>2, <2>3
<1>12. FlattenSection(tree) = FlattenSeq([i \in DOMAIN s |-> Mapped(v, {s[i]} \cap D)])
  <2>1. [i \in DOMAIN s |-> found[s[i]]] = [i \in DOMAIN s |-> Mapped(v, {s[i]} \cap D)]
    BY <1>11
  <2> QED BY <1>10, <2>1
<1>13. FlattenSection(tree) = Mapped(v, tops \cap D) /\ Ordered(tops \cap D)
  BY <1>3, <1>4, <1>12, PickedInOrder DEF s
<1>14. Cardinality(tops \cap D) \in Nat  BY <1>4, <1>13, OrderedSize
<1>15. found[<<>>] = Mapped(v, tops \cap D)
  <2>1. <<>> \in DOMAIN tree  BY Nodes
  <2>2. found[<<>>] = Mapped(v, Reached(stops, D, <<>>))  BY <1>1, <1>5, <2>1, WalkMapped
  <2>3. Reached(Stops(tree), EntityPaths(tree), <<>>)
          = {q \in EntityPaths(tree) : EntitiesOver(tree, q) = {}}
    BY <1>4, BelowIsUnder DEF stops
  <2>4. Reached(stops, D, <<>>) = Outermost(tree)
    BY <1>4, <2>3 DEF Reached, stops, Outermost, D
  <2> QED BY <1>6, <2>2, <2>4
<1>16. FlattenSection(tree) \in Seq(Range(FlattenSection(tree)))
  <2> DEFINE flats == FlattenSection(tree)
             N == Cardinality(tops \cap D)
  <2>1. DOMAIN flats = 1..N /\ flats = [i \in 1..N |-> flats[i]]  BY <1>13 DEF Mapped
  <2> HIDE DEF flats, N
  <2>2. N \in Nat  BY <1>14 DEF N
  <2>3. flats \in Seq(Range(flats))  BY <2>1, <2>2 DEF Range
  <2> QED BY <2>3 DEF flats
<1> QED BY <1>1, <1>6, <1>13, <1>15, <1>16 DEF found, D

\* So a legible card is flattened to what is rendered of it.
LEMMA CardIsRendered ==
    ASSUME NEW tree, IsTree(tree), Legible(tree)
    PROVE  FlattenSection(tree) = Rendered(tree)
<1> DEFINE D == Visible(tree)
           below == UnderEach(tree, D)
           texts == TextsOf(tree)
<1>1. PICK w : /\ IsTelling(w, tree, D, texts, below)
               /\ Rendered(tree) = Mapped(w, Outermost(tree))  BY RenderedIs
<1>2. Open(tree)  BY RenderedIs
<1>3. PICK v : /\ IsTelling(v, tree, D, texts, below)
               /\ FlattenSection(tree) = Mapped(v, Outermost(tree))  BY <1>2, CardIsFound
<1>4. Nested(tree, D, below)
  <2>1. D \subseteq EntityPaths(tree)  BY DEF Visible
  <2> HIDE DEF D
  <2> QED BY <2>1, EntitiesNested
<1> HIDE DEF D, below, texts
<1>5. v = w  BY <1>1, <1>3, <1>4, OneTelling
<1> QED BY <1>1, <1>3, <1>5

\* A payload with a card, and one without any.
LEMMA PayloadIsFlattened ==
    ASSUME NEW tree, IsTree(tree), Open(tree), NEW other
    PROVE  /\ FlattenCardPayload([included |-> <<Card(tree)>>, tree |-> other])
                = FlattenSection(tree)
           /\ FlattenCardPayload([included |-> <<>>, tree |-> tree]) = FlattenSection(tree)
<1> DEFINE card == Card(tree)
           one == <<card>>
           E == Entities(one)
           flats == FlattenSection(tree)
<1>1. /\ card.urn # NoUrn /\ "topComponents" \in DOMAIN card /\ card.topComponents = tree
  BY DEF Card, Urn, NoUrn
<1>2. flats \in Seq(Range(flats))  BY CardIsFound
<1> HIDE DEF card, flats
<1>3. FlattenCards(one) = flats
  <2>1. one = <<>> \o <<card>> /\ <<>> \in Seq({})  OBVIOUS
  <2>2. FlattenCards(<<>> \o <<card>>) = FlattenSeq(<<FlattenSection(card.topComponents)>>)
    BY <1>1, <2>1, OnlyCard
  <2>3. FlattenSeq(<<flats>>) = flats  BY <1>2, FlattenOne
  <2> QED BY <1>1, <2>1, <2>2, <2>3 DEF flats
<1>4. \E i \in DOMAIN E : IsCard(E[i])
  <2>1. one \in Seq({card}) /\ Len(one) = 1 /\ one[1] = card /\ 1 \in 1..1  OBVIOUS
  <2> HIDE DEF one
  <2>2. E \in Seq({card}) /\ IndexedBy(E, one)  BY <2>1, EntitiesProperties
  <2> HIDE DEF E
  <2>3. DOMAIN E = 1..Len(E) /\ \A i \in 1..Len(E) : E[i] = card  BY <2>2, LenProperties
  <2>4. \E i \in 1..Len(E) : E[i].urn = one[1].urn  BY <1>1, <2>1, <2>2 DEF IndexedBy
  <2> QED BY <1>1, <2>3, <2>4 DEF IsCard
<1>5. ~\E i \in DOMAIN Entities(<<>>) : IsCard(Entities(<<>>)[i])  BY NoCards
<1> HIDE DEF one, E
<1>6. FlattenCardPayload([included |-> one, tree |-> other]) = flats
  BY <1>3, <1>4 DEF FlattenCardPayload, E
<1>7. FlattenCardPayload([included |-> <<>>, tree |-> tree]) = flats
  BY <1>5 DEF FlattenCardPayload, flats
<1> QED BY <1>6, <1>7 DEF card, one, flats

\* Theorem: every entity of a legible card that shows something, and every text in one, is
\* found once, in what it stands in on the page and in the page's order: for trees of any
\* shape and depth, for any depth that is read, and for cards in a response as bare ones.
THEOREM NothingIsLost == Spec => []NothingLost
<1>1. read = Idle => NothingLost  BY DEF Idle, NothingLost
<1>2. ASSUME NEW root \in Roots, ReadCard(root) PROVE NothingLost'
  <2> DEFINE response == Node("opaque", Slots(<<>>, <<>>, <<>>, <<>>), NoText, <<>>)
  <2>1. IsTree(root)  BY RootsAssumption
  <2>2. /\ read'.root = root
        /\ read'.flats = FlattenCardPayload([included |-> <<Card(root)>>, tree |-> response])
        /\ read'.bare = FlattenCardPayload([included |-> <<>>, tree |-> root])
    BY <1>2 DEF ReadCard
  <2> HIDE DEF response
  <2>3. ASSUME Legible(root) PROVE read'.flats = Rendered(root) /\ read'.bare = Rendered(root)
    <3>1. FlattenSection(root) = Rendered(root) /\ Open(root)
      BY <2>1, <2>3, CardIsRendered, RenderedIs
    <3> QED BY <2>1, <2>2, <3>1, PayloadIsFlattened
  <2> QED BY <2>2, <2>3 DEF NothingLost
<1>3. ASSUME Next PROVE NothingLost'
  <2>1. ASSUME read'.kind # "card" PROVE NothingLost'  BY <2>1 DEF NothingLost
  <2> QED BY <1>2, <1>3, <2>1, Kinds DEF Next, Receive
<1>4. NothingLost /\ UNCHANGED read => NothingLost'  BY DEF NothingLost
<1> QED BY <1>1, <1>3, <1>4, PTL DEF Spec

--------
(* The roles at one employer in a row. *)

\* A further list comes after the others.
LEMMA FlattenAppend ==
    ASSUME NEW S, NEW seqs \in Seq(Seq(S)), NEW s \in Seq(S)
    PROVE  FlattenSeq(Append(seqs, s)) = FlattenSeq(seqs) \o s
<1> DEFINE N == Len(seqs)
           more == Append(seqs, s)
<1>1. /\ N \in Nat /\ more \in Seq(Seq(S)) /\ Len(more) = N + 1
      /\ more[N + 1] = s /\ \A n \in 1..N : more[n] = seqs[n]
  BY AppendProperties, LenProperties
<1> HIDE DEF more, N
<1>2. PICK flat : FlattenSteps(flat, S, seqs)  BY FlattenDef
<1>3. PICK to : FlattenSteps(to, S, more)  BY <1>1, FlattenDef
<1>4. /\ flat[0] = <<>> /\ FlattenSeq(seqs) = flat[N]
      /\ \A n \in 1..N, m \in Nat : n = m + 1 => flat[n] = flat[m] \o seqs[n]
  BY <1>2 DEF FlattenSteps, N
<1>5. /\ to[0] = <<>> /\ FlattenSeq(more) = to[N + 1]
      /\ \A n \in 1..(N + 1), m \in Nat : n = m + 1 => to[n] = to[m] \o more[n]
  BY <1>1, <1>3 DEF FlattenSteps
<1> DEFINE T == {n \in Nat : n <= N => to[n] = flat[n]}
<1>6. 0 \in T  BY <1>4, <1>5
<1>7. ASSUME NEW n \in Nat, n \in T PROVE n + 1 \in T
  <2> SUFFICES ASSUME n + 1 <= N PROVE to[n + 1] = flat[n + 1]  OBVIOUS
  <2>1. n + 1 \in 1..N /\ n + 1 \in 1..(N + 1) /\ n <= N  BY <1>1
  <2>2. to[n + 1] = to[n] \o more[n + 1] /\ flat[n + 1] = flat[n] \o seqs[n + 1]
    BY <1>4, <1>5, <2>1
  <2> QED BY <1>1, <1>7, <2>1, <2>2
<1> HIDE DEF T
<1>8. N \in T  BY <1>1, <1>6, <1>7, InductiveSet
<1>9. to[N] = flat[N]  BY <1>1, <1>8 DEF T
<1>10. to[N + 1] = to[N] \o more[N + 1]  BY <1>1, <1>5, N + 1 \in 1..(N + 1)
<1> QED BY <1>1, <1>4, <1>5, <1>9, <1>10 DEF more

\* Lists of nothing are nothing.
LEMMA FlattenNone ==
    ASSUME NEW n \in Nat
    PROVE  FlattenSeq([i \in 1..n |-> <<>>]) = <<>>
<1> DEFINE seqs == [i \in 1..n |-> <<>>]
<1>1. <<>> \in Seq({})  BY EmptySeq
<1>2. seqs \in Seq(Seq({})) /\ Len(seqs) = n  BY <1>1, AList
<1> HIDE DEF seqs
<1>4. FlattenSeq(seqs) \in Seq({})  BY <1>2, FlattenProperties
<1>5. Len(FlattenSeq(seqs)) \in Nat /\ \A j \in 1..Len(FlattenSeq(seqs)) : FALSE
  BY <1>4, LenProperties
<1>6. FlattenSeq(seqs) = <<>>  BY <1>4, <1>5, EmptySeq
<1> QED BY <1>6 DEF seqs

\* A list that is not empty has a last element, and the front before it.
LEMMA FrontAndLast ==
    ASSUME NEW S, NEW s \in Seq(S), s # <<>>
    PROVE  /\ Front(s) \in Seq(S) /\ Last(s) \in S /\ s = Append(Front(s), Last(s))
           /\ Len(s) \in Nat \ {0} /\ Len(Front(s)) = Len(s) - 1
           /\ \A i \in 1..Len(Front(s)) : Front(s)[i] = s[i]
<1>1. PICK t \in Seq(S), x \in S : s = Append(t, x)  BY SequenceEmptyOrAppend
<1>2. /\ Len(t) \in Nat /\ Len(s) = Len(t) + 1 /\ s[Len(t) + 1] = x
      /\ \A i \in 1..Len(t) : s[i] = t[i] /\ t[i] \in S
  BY <1>1, AppendProperties, LenProperties
<1>3. Last(s) = x  BY <1>2 DEF Last
<1>4. Len(s) - 1 = Len(t)  BY <1>2
<1>5. Front(s) = SubSeq(s, 1, Len(t))  BY <1>4 DEF Front
<1>6. /\ SubSeq(s, 1, Len(t)) \in Seq(S)
      /\ Len(SubSeq(s, 1, Len(t))) = Len(t)
      /\ \A i \in 1..Len(t) : SubSeq(s, 1, Len(t))[i] = s[i]
  <2> DEFINE n == Len(t)
             u == SubSeq(s, 1, n)
  <2>1. n \in Int /\ 1 \in Int /\ n \in Nat /\ n - 1 + 1 = n  BY <1>2
  <2>2. \A i \in 1..n : s[i] \in S  BY <1>2
  <2> HIDE DEF n
  <2>3. /\ u \in Seq(S) /\ Len(u) = (IF 1 <= n THEN n - 1 + 1 ELSE 0)
        /\ \A i \in 1..(n - 1 + 1) : u[i] = s[1 + i - 1]  BY <2>1, <2>2, SubSeqProperties
  <2> HIDE DEF u
  <2> QED BY <2>1, <2>3 DEF u, n
<1>7. Front(s) = t  BY <1>2, <1>5, <1>6, SeqEqual
<1> QED BY <1>1, <1>2, <1>3, <1>4, <1>7

LEMMA RunGrows ==
    ASSUME NEW R, NEW runs, AreRuns(runs, R), NEW role \in R
    PROVE  /\ AreRuns(WithRole(runs, role), R)
           /\ FlattenSeq(WithRole(runs, role)) = FlattenSeq(runs) \o <<role>>
<1> DEFINE new == WithRole(runs, role)
<1>1. runs \in Seq(Seq(R)) /\ <<role>> \in Seq(R)
      /\ \A i \in 1..Len(runs) : IsRun(runs[i], R)  BY DEF AreRuns
<1>2. Len(runs) \in Nat  BY <1>1, LenProperties
<1>3. CASE runs # <<>> /\ Head(Last(runs)).company = role.company
  <2> DEFINE front == Front(runs)
             last == Last(runs)
             longer == Append(last, role)
  <2>1. new = Append(front, longer)  BY <1>3 DEF WithRole
  <2>2. /\ front \in Seq(Seq(R)) /\ last \in Seq(R) /\ runs = Append(front, last)
        /\ Len(runs) \in Nat \ {0} /\ Len(front) = Len(runs) - 1
        /\ \A i \in 1..Len(front) : front[i] = runs[i]  BY <1>1, <1>3, FrontAndLast
  <2>3. IsRun(last, R)  BY <1>1, <2>2 DEF Last
  <2>4. \A i \in 1..Len(front) : IsRun(front[i], R)  BY <1>1, <2>2
  <2>5. Head(last) = last[1] /\ last[1].company = role.company  BY <1>3, <2>3 DEF IsRun
  <2> HIDE DEF front, last, longer, new
  <2>6. /\ longer \in Seq(R) /\ longer # <<>> /\ Len(longer) = Len(last) + 1
        /\ longer[Len(last) + 1] = role /\ \A k \in 1..Len(last) : longer[k] = last[k]
    BY <2>2, AppendProperties DEF longer
  <2>7. IsRun(longer, R)
    <3>1. Len(last) \in Nat /\ Len(last) # 0  BY <2>2, <2>3, LenProperties, EmptySeq DEF IsRun
    <3>2. \A k \in 1..Len(longer) : k \in 1..Len(last) \/ k = Len(last) + 1  BY <2>6, <3>1
    <3>3. 1 \in 1..Len(last) /\ longer[1] = last[1]  BY <2>6, <3>1
    <3>4. \A k \in 1..Len(last) : last[k].company = last[1].company  BY <2>3 DEF IsRun
    <3>5. \A k \in 1..Len(longer) : longer[k].company = longer[1].company
      BY <2>5, <2>6, <3>2, <3>3, <3>4
    <3> QED BY <2>6, <3>5 DEF IsRun
  <2>8. /\ new \in Seq(Seq(R)) /\ Len(new) = Len(front) + 1
        /\ new[Len(front) + 1] = longer /\ \A i \in 1..Len(front) : new[i] = front[i]
    BY <2>1, <2>2, <2>6, AppendProperties
  <2>9. \A i \in 1..Len(new) : IsRun(new[i], R)
    <3>1. Len(front) \in Nat  BY <2>2, LenProperties
    <3>2. \A i \in 1..Len(new) : i \in 1..Len(front) \/ i = Len(front) + 1  BY <2>8, <3>1
    <3> QED BY <2>4, <2>7, <2>8, <3>2
  <2>10. FlattenSeq(new) = FlattenSeq(front) \o (last \o <<role>>)
    <3>1. longer = last \o <<role>>  BY <2>2, AppendIsConcat DEF longer
    <3> QED BY <2>1, <2>2, <2>6, <3>1, FlattenAppend
  <2>11. FlattenSeq(runs) = FlattenSeq(front) \o last /\ FlattenSeq(front) \in Seq(R)
    BY <2>2, FlattenAppend, FlattenProperties
  <2>12. (FlattenSeq(front) \o last) \o <<role>> = FlattenSeq(front) \o (last \o <<role>>)
    <3> DEFINE all == FlattenSeq(front)
               one == <<role>>
    <3>1. all \in Seq(R) /\ last \in Seq(R) /\ one \in Seq(R)  BY <1>1, <2>2, <2>11
    <3> HIDE DEF all, one
    <3>2. (all \o last) \o one = all \o (last \o one)  BY <3>1, ConcatAssociative
    <3> QED BY <3>2 DEF all, one
  <2> QED BY <2>8, <2>9, <2>10, <2>11, <2>12 DEF AreRuns, new
<1>4. CASE ~(runs # <<>> /\ Head(Last(runs)).company = role.company)
  <2>1. new = Append(runs, <<role>>)  BY <1>4 DEF WithRole
  <2>2. IsRun(<<role>>, R)  BY <1>1 DEF IsRun
  <2> DEFINE one == <<role>>
  <2> HIDE DEF new, one
  <2>3. /\ new \in Seq(Seq(R)) /\ Len(new) = Len(runs) + 1
        /\ new[Len(runs) + 1] = one /\ \A i \in 1..Len(runs) : new[i] = runs[i]
    BY <1>1, <2>1, AppendProperties DEF one
  <2>4. \A i \in 1..Len(new) : IsRun(new[i], R)
    <3>1. \A i \in 1..Len(new) : i \in 1..Len(runs) \/ i = Len(runs) + 1  BY <1>2, <2>3
    <3> QED BY <1>1, <2>2, <2>3, <3>1 DEF one
  <2>5. FlattenSeq(new) = FlattenSeq(runs) \o <<role>>  BY <1>1, <2>1, FlattenAppend
  <2> QED BY <2>3, <2>4, <2>5 DEF AreRuns, new
<1> QED BY <1>3, <1>4

\* The runs of a career are its roles, in order.
LEMMA RunsOfRoles ==
    ASSUME NEW R, NEW roles \in Seq(R)
    PROVE  AreRuns(Runs(roles), R) /\ FlattenSeq(Runs(roles)) = roles
<1> DEFINE N == Len(roles)
           A == {runs \in Seq(Seq(R)) : AreRuns(runs, R)}
           step == [x \in (1..N) \X A |-> WithRole(x[2], roles[x[1]])]
           F(f) == [n \in 0..N |->
                      IF n = 0 THEN <<>>
                      ELSE IF f[n - 1] # <<>> /\ Head(Last(f[n - 1])).company = roles[n].company
                      THEN Append(Front(f[n - 1]), Append(Last(f[n - 1]), roles[n]))
                      ELSE Append(f[n - 1], <<roles[n]>>)]
           runs == CHOOSE f : f = F(f)
           T == {n \in Nat : n <= N => /\ runs[n] \in A
                                       /\ FlattenSeq(runs[n]) = SubSeq(roles, 1, n)}
<1>1. N \in Nat /\ \A n \in 1..N : roles[n] \in R  BY LenProperties
<1>2. \A n \in 1..N, before \in A : WithRole(before, roles[n]) \in A
  BY <1>1, RunGrows DEF AreRuns
<1>3. step \in [(1..N) \X A -> A]
  <2> HIDE DEF A, N
  <2> QED BY <1>2
<1>4. \A n \in 1..N, before \in A : step[<<n, before>>] = WithRole(before, roles[n])  OBVIOUS
<1>5. <<>> \in A
  <2>1. <<>> \in Seq(Seq(R)) /\ Len(<<>>) = 0  BY EmptySeq
  <2> QED BY <2>1 DEF AreRuns
<1> HIDE DEF step, N, A
<1>6. PICK f : Recursive(f, N, A, <<>>, step)  BY <1>1, <1>3, <1>5, Recursion
<1>7. /\ f \in [0..N -> A] /\ f[0] = <<>>
      /\ \A i \in 1..N : f[i] = step[<<i, f[i - 1]>>]  BY <1>6 DEF Recursive
<1>8. ASSUME NEW i \in 1..N PROVE f[i] = WithRole(f[i - 1], roles[i])
  <2>1. f[i - 1] \in A  BY <1>1, <1>7
  <2> QED BY <1>7, <2>1, <1>4
<1>9. ASSUME NEW i \in 0..N PROVE f[i] = F(f)[i]
  <2>1. CASE i = 0  BY <1>7, <2>1
  <2>2. CASE i \in 1..N  BY <1>8, <2>2 DEF WithRole
  <2> QED BY <1>1, <2>1, <2>2, i = 0 \/ i \in 1..N
<1>10. f = F(f)
  <2>1. DOMAIN f = 0..N /\ f = [i \in 0..N |-> f[i]] /\ F(f) = [i \in 0..N |-> F(f)[i]]  BY <1>7
  <2> HIDE DEF F
  <2> QED BY <1>9, <2>1
<1>11. runs = F(runs)  BY <1>10
<1>12. Runs(roles) = runs[N]  BY DEF Runs, N
<1> HIDE DEF runs
<1>13. runs[0] = <<>> /\ \A n \in 1..N : runs[n] = WithRole(runs[n - 1], roles[n])
  <2>1. \A n \in 0..N : runs[n] = F(runs)[n]  BY <1>11
  <2>2. 0 \in 0..N /\ \A n \in 1..N : n \in 0..N /\ n # 0  BY <1>1
  <2> QED BY <2>1, <2>2 DEF WithRole
<1> HIDE DEF F
<1>14. 0 \in T
  <2>1. FlattenSeq(<<>>) = <<>> /\ SubSeq(roles, 1, 0) = <<>>  BY SubSeqEmpty DEF FlattenSeq
  <2> QED BY <1>5, <1>13, <2>1
<1>15. ASSUME NEW n \in Nat, n \in T PROVE n + 1 \in T
  <2> SUFFICES ASSUME n + 1 <= N
               PROVE  runs[n + 1] \in A /\ FlattenSeq(runs[n + 1]) = SubSeq(roles, 1, n + 1)
    OBVIOUS
  <2>1. /\ n + 1 \in 1..N /\ runs[n] \in A /\ FlattenSeq(runs[n]) = SubSeq(roles, 1, n)
        /\ (n + 1) - 1 = n /\ n + 1 \in 1..Len(roles) /\ 1 \in 1..Len(roles)
    BY <1>1, <1>15 DEF N
  <2>2. runs[n + 1] = WithRole(runs[n], roles[n + 1])  BY <1>13, <2>1
  <2>3. AreRuns(runs[n], R) /\ roles[n + 1] \in R  BY <1>1, <2>1 DEF A
  <2>4. FlattenSeq(runs[n + 1]) = FlattenSeq(runs[n]) \o <<roles[n + 1]>>
    BY <2>2, <2>3, RunGrows
  <2>5. SubSeq(roles, 1, n + 1) = SubSeq(roles, 1, (n + 1) - 1) \o <<roles[n + 1]>>
    <3>1. n + 1 \in 1..Len(roles)  BY <2>1
    <3> QED BY <2>1, <3>1, SubSeqRecursiveSecond
  <2> QED BY <1>2, <2>1, <2>2, <2>4, <2>5
<1> HIDE DEF T
<1>16. N \in T  BY <1>1, <1>14, <1>15, InductiveSet
<1>17. runs[N] \in A /\ FlattenSeq(runs[N]) = SubSeq(roles, 1, N)  BY <1>1, <1>16 DEF T
<1>18. SubSeq(roles, 1, N) = roles  BY SubSeqFull DEF N
<1> QED BY <1>12, <1>17, <1>18 DEF A

--------
(* Trees of trees. *)

\* A path that starts with a step.
LEMMA PathBehind ==
    ASSUME NEW i \in Nat, NEW q \in Seq(Nat)
    PROVE  /\ <<i>> \o q \in Seq(Nat) /\ <<i>> \o q # <<>>
           /\ Head(<<i>> \o q) = i /\ Tail(<<i>> \o q) = q
           /\ \A k \in Nat : <<i>> \o Append(q, k) = Append(<<i>> \o q, k)
<1> DEFINE one == <<i>>
           p == one \o q
<1>1. one \in Seq(Nat) /\ Len(one) = 1 /\ one[1] = i /\ Len(q) \in Nat  BY LenProperties
<1> HIDE DEF one
<1>2. /\ p \in Seq(Nat) /\ Len(p) = Len(one) + Len(q)
      /\ \A j \in 1..(Len(one) + Len(q)) : p[j] = IF j <= Len(one) THEN one[j] ELSE q[j - Len(one)]
  BY <1>1, ConcatProperties
<1> HIDE DEF p
<1>3. Len(p) = Len(q) + 1 /\ p[1] = i /\ \A j \in 1..Len(q) : p[j + 1] = q[j]  BY <1>1, <1>2
<1>4. p # <<>>  BY <1>1, <1>3
<1>5. Head(p) = i  BY <1>2, <1>3, <1>4
<1>6. Tail(p) = q
  <2>1. /\ Tail(p) \in Seq(Nat) /\ Len(Tail(p)) = Len(p) - 1
        /\ \A j \in 1..Len(Tail(p)) : Tail(p)[j] = p[j + 1]
    BY <1>2, <1>4, HeadTailProperties
  <2>2. Len(Tail(p)) = Len(q)  BY <1>1, <1>3, <2>1
  <2>3. \A j \in 1..Len(q) : Tail(p)[j] = q[j]  BY <1>3, <2>1, <2>2
  <2> QED BY <2>1, <2>2, <2>3, SeqEqual
<1>7. ASSUME NEW k \in Nat PROVE one \o Append(q, k) = Append(p, k)
  <2> DEFINE last == <<k>>
  <2>1. last \in Seq(Nat) /\ Append(q, k) = q \o last /\ Append(p, k) = p \o last
    BY <1>2, AppendIsConcat, SMTT(30)
  <2> HIDE DEF last
  <2>4. one \in Seq(Nat) /\ q \in Seq(Nat) /\ last \in Seq(Nat)  BY <1>1, <2>1
  <2>2. (one \o q) \o last = one \o (q \o last)  BY <2>4, ConcatAssociative, SMTT(30)
  <2> QED BY <2>1, <2>2 DEF p
<1> QED BY <1>2, <1>4, <1>5, <1>6, <1>7 DEF p, one

LEMMA NodeOverTrees ==
    ASSUME NEW kind, NEW slots, NEW text, NEW S, NEW trees \in Seq(S),
           \A i \in 1..Len(trees) : IsTree(trees[i])
    PROVE  /\ Over(Node(kind, slots, text, trees), trees)
           /\ <<>> \in DOMAIN Node(kind, slots, text, trees)
           /\ Node(kind, slots, text, trees)[<<>>]
                = [kind |-> kind, slots |-> slots, urn |-> NoUrn, text |-> text, sub |-> Len(trees)]
<1> DEFINE N == Len(trees)
           D == {<<>>} \cup UNION {{<<i>> \o q : q \in DOMAIN trees[i]} : i \in DOMAIN trees}
           root == [kind |-> kind, slots |-> slots, urn |-> NoUrn, text |-> text, sub |-> Len(trees)]
           node == Node(kind, slots, text, trees)
<1>1. node = [p \in D |-> IF p # <<>> THEN trees[Head(p)][Tail(p)] ELSE root]  BY DEF Node
<1>2. N \in Nat /\ DOMAIN trees = 1..N  BY LenProperties
<1>3. \A i \in 1..N : DOMAIN trees[i] \subseteq Seq(Nat) /\ <<>> \in DOMAIN trees[i]  BY Nodes
<1>4. root.sub = N  OBVIOUS
<1> HIDE DEF node, N, root
<1>5. /\ \A i \in 1..N : \A q \in DOMAIN trees[i] : <<i>> \o q \in D
      /\ \A p \in D : p = <<>> \/ \E i \in 1..N : \E q \in DOMAIN trees[i] : p = <<i>> \o q
      /\ <<>> \in D
  <2> DEFINE P(i) == {<<i>> \o q : q \in DOMAIN trees[i]}
  <2>1. D = {<<>>} \cup UNION {P(i) : i \in 1..N}  BY <1>2
  <2>2. \A i \in 1..N : \A q \in DOMAIN trees[i] : <<i>> \o q \in P(i)  OBVIOUS
  <2>3. \A i \in 1..N : \A p \in P(i) : \E q \in DOMAIN trees[i] : p = <<i>> \o q  OBVIOUS
  <2> HIDE DEF D, P
  <2>4. \A i \in 1..N : \A q \in DOMAIN trees[i] : <<i>> \o q \in D  BY <2>1, <2>2
  <2>5. <<>> \in D  BY <2>1
  <2>6. ASSUME NEW p \in D PROVE p = <<>> \/ \E i \in 1..N : \E q \in DOMAIN trees[i] : p = <<i>> \o q
    <3>1. p = <<>> \/ \E i \in 1..N : p \in P(i)  BY <2>1
    <3> QED BY <2>3, <3>1
  <2> QED BY <2>4, <2>5, <2>6
<1> HIDE DEF D
<1>6. ASSUME NEW i \in 1..N, NEW q \in DOMAIN trees[i] PROVE node[<<i>> \o q] = trees[i][q]
  <2>1. q \in Seq(Nat) /\ i \in Nat  BY <1>2, <1>3
  <2>2. <<i>> \o q # <<>> /\ Head(<<i>> \o q) = i /\ Tail(<<i>> \o q) = q  BY <2>1, PathBehind
  <2> DEFINE p == <<i>> \o q
  <2>3. p \in D /\ p # <<>> /\ Head(p) = i /\ Tail(p) = q  BY <1>5, <2>2
  <2> HIDE DEF p
  <2>4. node[p] = trees[i][q]  BY <1>1, <2>3
  <2> QED BY <2>4 DEF p
<1>7. \A i \in 1..N : <<i>> \o <<>> = <<i>>  OBVIOUS
<1>8. \A i \in 1..N : <<i>> \in D /\ node[<<i>>] = trees[i][<<>>]  BY <1>3, <1>5, <1>6, <1>7
<1>9. DOMAIN node = D /\ node[<<>>] = root  BY <1>1, <1>5
<1>10. Over(node, trees)  BY <1>4, <1>5, <1>6, <1>8, <1>9 DEF Over, N
<1> QED BY <1>5, <1>9, <1>10 DEF node, root

\* It is a tree, unless it is a text over something.
LEMMA NodeIsTree ==
    ASSUME NEW kind, NEW slots, NEW text, NEW S, NEW trees \in Seq(S),
           \A i \in 1..Len(trees) : IsTree(trees[i]), kind = "text" => trees = <<>>
    PROVE  IsTree(Node(kind, slots, text, trees))
<1> DEFINE node == Node(kind, slots, text, trees)
           N == Len(trees)
           D == DOMAIN node
<1>1. /\ Over(node, trees) /\ <<>> \in D /\ node[<<>>].kind = kind /\ node[<<>>].sub = N
  <2>1. /\ Over(node, trees) /\ <<>> \in D
        /\ node[<<>>] = [kind |-> kind, slots |-> slots, urn |-> NoUrn, text |-> text, sub |-> N]
    BY NodeOverTrees
  <2> HIDE DEF node, N
  <2> QED BY <2>1
<1>2. N \in Nat  BY LenProperties
<1>12. N = 0 <=> trees = <<>>  BY LenProperties, EmptySeq
<1>3. \A i \in 1..N :
         /\ i \in Nat /\ DOMAIN trees[i] \subseteq Seq(Nat) /\ IsFiniteSet(DOMAIN trees[i])
         /\ <<>> \in DOMAIN trees[i]
         /\ \A q \in DOMAIN trees[i] :
               /\ trees[i][q].sub \in Nat
               /\ trees[i][q].kind = "text" => trees[i][q].sub = 0
               /\ \A k \in 1..trees[i][q].sub : Append(q, k) \in DOMAIN trees[i]
               /\ q = <<>> \/ \E r \in DOMAIN trees[i] : \E k \in 1..trees[i][r].sub : q = Append(r, k)
  <2> TAKE i \in 1..N
  <2>1. IsTree(trees[i]) /\ i \in Nat  BY <1>2
  <2>2. \A q \in DOMAIN trees[i] : trees[i][q].kind = "text" => trees[i][q].sub = 0
    BY <2>1 DEF IsTree
  <2> QED BY <2>1, <2>2, Nodes
<1> HIDE DEF node, N
<1>4. /\ \A i \in 1..N : <<i>> \in D
      /\ \A i \in 1..N : \A q \in DOMAIN trees[i] :
            <<i>> \o q \in D /\ node[<<i>> \o q] = trees[i][q]
      /\ \A p \in D : p = <<>> \/ \E i \in 1..N : \E q \in DOMAIN trees[i] : p = <<i>> \o q
  BY <1>1 DEF Over, N
<1>5. D \subseteq Seq(Nat)
  <2>1. \A i \in 1..N : \A q \in DOMAIN trees[i] : <<i>> \o q \in Seq(Nat)  BY <1>3, PathBehind
  <2> SUFFICES ASSUME NEW p \in D PROVE p \in Seq(Nat)  OBVIOUS
  <2>2. CASE p = <<>>  BY <2>2
  <2>3. CASE p # <<>>
    <3>1. PICK i \in 1..N : \E q \in DOMAIN trees[i] : p = <<i>> \o q  BY <1>4, <2>3
    <3> QED BY <2>1, <3>1
  <2> QED BY <2>2, <2>3
<1>6. IsFiniteSet(D)
  <2> DEFINE Part(i) == {<<i>> \o q : q \in DOMAIN trees[i]}
             Parts == {Part(i) : i \in 1..N}
  <2>1. ASSUME NEW i \in 1..N PROVE IsFiniteSet(Part(i))
    <3> DEFINE f == [q \in DOMAIN trees[i] |-> <<i>> \o q]
    <3>1. f \in Surjection(DOMAIN trees[i], Part(i))  BY DEF Surjection
    <3> HIDE DEF f
    <3> QED BY <1>3, <3>1, FS_Surjection
  <2>2. IsFiniteSet(Parts)
    <3> DEFINE f == [i \in 1..N |-> Part(i)]
    <3>1. f \in Surjection(1..N, Parts)  BY DEF Surjection
    <3>2. IsFiniteSet(1..N)  BY <1>2, FS_Interval
    <3> HIDE DEF f, Parts
    <3> QED BY <3>1, <3>2, FS_Surjection
  <2>3. \A X \in Parts : IsFiniteSet(X)  BY <2>1
  <2>4. D \subseteq (UNION Parts) \cup {<<>>}
    <3> SUFFICES ASSUME NEW p \in D, p # <<>> PROVE p \in UNION Parts  OBVIOUS
    <3>1. PICK i \in 1..N : \E q \in DOMAIN trees[i] : p = <<i>> \o q  BY <1>4
    <3>2. p \in Part(i) /\ Part(i) \in Parts  BY <3>1
    <3> QED BY <3>2
  <2> HIDE DEF Parts
  <2>5. IsFiniteSet(UNION Parts)  BY <2>2, <2>3, FS_UNION
  <2>6. IsFiniteSet((UNION Parts) \cup {<<>>})  BY <2>5, FS_AddElement
  <2> QED BY <2>4, <2>6, FS_Subset
<1>7. ASSUME NEW p \in D
      PROVE  /\ node[p].sub \in Nat /\ (node[p].kind = "text" => node[p].sub = 0)
             /\ \A k \in 1..node[p].sub : Append(p, k) \in D
  <2>1. CASE p = <<>>
    <3>1. \A k \in 1..N : Append(<<>>, k) = <<k>>  OBVIOUS
    <3> QED BY <1>1, <1>2, <1>4, <1>12, <2>1, <3>1
  <2>2. CASE p # <<>>
    <3>1. PICK i \in 1..N : \E q \in DOMAIN trees[i] : p = <<i>> \o q  BY <1>4, <2>2
    <3>2. PICK q \in DOMAIN trees[i] : p = <<i>> \o q  BY <3>1
    <3>3. node[p] = trees[i][q]  BY <1>4, <3>2
    <3>4. ASSUME NEW k \in 1..node[p].sub PROVE Append(p, k) \in D
      <4>1. /\ k \in 1..trees[i][q].sub /\ trees[i][q].sub \in Nat
            /\ q \in Seq(Nat) /\ i \in Nat /\ Append(q, k) \in DOMAIN trees[i]
        BY <1>3, <3>3
      <4>2. k \in Nat  BY <4>1
      <4>3. <<i>> \o Append(q, k) = Append(<<i>> \o q, k)  BY <4>1, <4>2, PathBehind
      <4> QED BY <1>4, <3>2, <4>1, <4>3
    <3> QED BY <1>3, <3>3, <3>4
  <2> QED BY <2>1, <2>2
<1>8. ASSUME NEW p \in D, p # <<>>
      PROVE  \E r \in D : \E k \in 1..node[r].sub : p = Append(r, k)
  <2>1. PICK i \in 1..N : \E q \in DOMAIN trees[i] : p = <<i>> \o q  BY <1>4, <1>8
  <2>2. PICK q \in DOMAIN trees[i] : p = <<i>> \o q  BY <2>1
  <2>3. CASE q = <<>>
    <3>1. p = Append(<<>>, i)  BY <2>2, <2>3
    <3> QED BY <1>1, <3>1
  <2>4. CASE q # <<>>
    <3>1. PICK r \in DOMAIN trees[i] : \E k \in 1..trees[i][r].sub : q = Append(r, k)
      BY <1>3, <2>4
    <3>2. PICK k \in 1..trees[i][r].sub : q = Append(r, k)  BY <3>1
    <3>3. k \in Nat /\ r \in Seq(Nat) /\ i \in Nat  BY <1>3
    <3>4. p = Append(<<i>> \o r, k)  BY <2>2, <3>2, <3>3, PathBehind
    <3>5. <<i>> \o r \in D /\ node[<<i>> \o r] = trees[i][r]  BY <1>4
    <3> QED BY <3>4, <3>5
  <2> QED BY <2>3, <2>4
<1>9. D = {<<>>} \cup UNION {{Append(p, i) : i \in 1..node[p].sub} : p \in D}
  <2> HIDE DEF D
  <2>2. \A p \in D : \A i \in 1..node[p].sub : Append(p, i) \in D  BY <1>7
  <2>3. <<>> \in D  BY <1>1
  <2> DEFINE Kids(r) == {Append(r, i) : i \in 1..node[r].sub}
             below == UNION {Kids(r) : r \in D}
  <2>4. \A r \in D : Kids(r) \subseteq D  BY <2>2
  <2>5. \A p \in D : p = <<>> \/ \E r \in D : p \in Kids(r)  BY <1>8
  <2> HIDE DEF Kids
  <2>6. below \subseteq D  BY <2>4
  <2>7. D \subseteq {<<>>} \cup below  BY <2>5
  <2>8. D = {<<>>} \cup below  BY <2>3, <2>6, <2>7
  <2> QED BY <2>8 DEF Kids
<1> QED BY <1>5, <1>6, <1>7, <1>9 DEF IsTree, node

\* What is found of a card's nodes: of an entity that shows something its slots,
\* its texts and what is below, of another entity or a text nothing, and of any
\* other node what is below it.
LEMMA EntityIsFound ==
    ASSUME NEW tree, IsTree(tree), NEW p \in DOMAIN tree
    PROVE  FlattenEntities(tree)[p]
             = IF p \in Visible(tree)
               THEN <<[slots |-> tree[p].slots, urn |-> tree[p].urn,
                       texts |-> Distinct(Below(tree, p, Texts(tree))),
                       children |-> Below(tree, p, FlattenEntities(tree))]>>
               ELSE IF p \in Stops(tree) THEN <<>>
               ELSE Below(tree, p, FlattenEntities(tree))
<1> DEFINE found == FlattenEntities(tree)
           D == Visible(tree)
<1>1. PICK v : /\ IsTelling(v, tree, D, TextsOf(tree), UnderEach(tree, D))
               /\ IsWalk(found, tree, Stops(tree), D, v)  BY EntitiesFound
<1>2. D \subseteq Stops(tree)  BY DEF Visible, EntityPaths, Stops
<1>3. /\ Walked(tree, Stops(tree), D)
      /\ ReachedBelow(Stops(tree), D, p) = {q \in D : Under(tree, p, q)}
  BY <1>2, BelowIsUnder
<1>4. TextsUnder(tree, p) = Distinct(Below(tree, p, Texts(tree)))  BY TextsFound
<1> HIDE DEF found, D
<1>5. Below(tree, p, found) = Mapped(v, ReachedBelow(Stops(tree), D, p))
  BY <1>1, <1>3, WalkMapped
<1>6. found[p] = IF p \in D THEN <<v[p]>> ELSE IF p \in Stops(tree) THEN <<>>
                 ELSE Below(tree, p, found)  BY <1>1 DEF IsWalk
<1>7. ASSUME p \in D
      PROVE  v[p] = [slots |-> tree[p].slots, urn |-> tree[p].urn,
                     texts |-> Distinct(Below(tree, p, Texts(tree))),
                     children |-> Below(tree, p, found)]
  <2>1. v[p] = Telling(v, tree, TextsOf(tree), UnderEach(tree, D), p)
    BY <1>1, <1>7 DEF IsTelling
  <2>2. UnderEach(tree, D)[p] = {q \in D : Under(tree, p, q)}  BY <1>7 DEF UnderEach
  <2>3. TextsOf(tree)[p] = TextsUnder(tree, p)  BY DEF TextsOf
  <2> QED BY <1>3, <1>4, <1>5, <2>1, <2>2, <2>3 DEF Telling
<1> QED BY <1>6, <1>7 DEF found, D

LEMMA LeafIsTree ==
    ASSUME NEW leaf, IsLeaf(leaf)
    PROVE  IsTree(leaf)
<1>1. DOMAIN leaf = {<<>>} /\ leaf[<<>>].sub = 0  BY DEF IsLeaf
<1>2. IsFiniteSet(DOMAIN leaf) /\ DOMAIN leaf \subseteq Seq(Nat)
  <2>1. IsFiniteSet({<<>>})  BY FS_Singleton
  <2>2. {<<>>} \subseteq Seq(Nat)  OBVIOUS
  <2> QED BY <1>1, <2>1, <2>2
<1>3. \A p \in DOMAIN leaf : {Append(p, i) : i \in 1..leaf[p].sub} = {}  BY <1>1
<1>4. UNION {{Append(p, i) : i \in 1..leaf[p].sub} : p \in DOMAIN leaf} = {}  BY <1>3
<1> QED BY <1>1, <1>2, <1>4 DEF IsTree

LEMMA KidsAreLeaves ==
    ASSUME NEW T, \A t \in T : IsLeaf(t), NEW kids \in Seq(Seq(T)) PROVE LeafKids(T, kids)
<1>1. \A i \in 1..Len(kids) : kids[i] \in Seq(T)  BY ElementOfSeq
<1> QED BY <1>1, ElementOfSeq, LenProperties DEF LeafKids

LEMMA CardOfFamilies ==
    ASSUME NEW S, NEW slots \in Seq(S), NEW T, \A t \in T : IsLeaf(t),
           NEW kids \in Seq(Seq(T)), Len(kids) = Len(slots)
    PROVE  Families(CardOf([i \in 1..Len(slots) |-> EntityNode(slots[i], kids[i])]).topComponents,
                    slots, kids)
<1> DEFINE N == Len(slots)
           nodes == [i \in 1..N |-> EntityNode(slots[i], kids[i])]
           E == {EntityNode(slots[i], kids[i]) : i \in 1..N}
           none == Slots(<<>>, <<>>, <<>>, <<>>)
           tree == Node("container", none, NoText, nodes)
<1>1. N \in Nat /\ nodes \in Seq(E) /\ Len(nodes) = N
  <2>1. N \in Nat  BY LenProperties
  <2>2. nodes \in [1..N -> E]  OBVIOUS
  <2> HIDE DEF nodes, E, N
  <2> QED BY <2>1, <2>2, AList
<1>2. LeafKids(T, kids)  BY KidsAreLeaves
<1>3. ASSUME NEW i \in 1..N
      PROVE  /\ IsTree(nodes[i]) /\ Over(nodes[i], kids[i]) /\ <<>> \in DOMAIN nodes[i]
             /\ nodes[i][<<>>] = [kind |-> "entity", slots |-> slots[i], urn |-> NoUrn,
                                  text |-> NoText, sub |-> Len(kids[i])]
  <2> DEFINE own == slots[i]
             below == kids[i]
             node == Node("entity", own, NoText, below)
  <2>1. nodes[i] = node  BY DEF EntityNode
  <2>2. below \in Seq(T) /\ \A k \in 1..Len(below) : IsTree(below[k])  BY <1>2, LeafIsTree DEF LeafKids
  <2> HIDE DEF nodes, own, below
  <2>3. IsTree(node)  BY <2>2, NodeIsTree
  <2>4. /\ Over(node, below) /\ <<>> \in DOMAIN node
        /\ node[<<>>] = [kind |-> "entity", slots |-> own, urn |-> NoUrn,
                         text |-> NoText, sub |-> Len(below)]  BY <2>2, NodeOverTrees
  <2> HIDE DEF node
  <2> QED BY <2>1, <2>3, <2>4 DEF own, below
<1> HIDE DEF nodes, E
<1>4. /\ IsTree(tree) /\ Over(tree, nodes) /\ <<>> \in DOMAIN tree
      /\ tree[<<>>] = [kind |-> "container", slots |-> none, urn |-> NoUrn,
                       text |-> NoText, sub |-> N]
  <2>1. nodes \in Seq(E) /\ (\A i \in 1..Len(nodes) : IsTree(nodes[i])) /\ Len(nodes) = N
    BY <1>1, <1>3
  <2> HIDE DEF none, N
  <2> QED BY <2>1, NodeOverTrees, NodeIsTree
<1> HIDE DEF tree
<1>5. tree[<<>>].kind = "container" /\ tree[<<>>].sub = N  BY <1>4
<1>6. /\ \A i \in 1..N : <<i>> \in DOMAIN tree /\ tree[<<i>>] = nodes[i][<<>>]
      /\ \A i \in 1..N : \A q \in DOMAIN nodes[i] :
            <<i>> \o q \in DOMAIN tree /\ tree[<<i>> \o q] = nodes[i][q]
      /\ \A p \in DOMAIN tree :
            p = <<>> \/ \E i \in 1..N : \E q \in DOMAIN nodes[i] : p = <<i>> \o q
  BY <1>1, <1>4 DEF Over
<1>7. ASSUME NEW i \in 1..N
      PROVE  /\ tree[<<i>>].kind = "entity" /\ tree[<<i>>].slots = slots[i]
             /\ tree[<<i>>].urn = NoUrn /\ tree[<<i>>].sub = Len(kids[i])
  <2>1. tree[<<i>>] = [kind |-> "entity", slots |-> slots[i], urn |-> NoUrn,
                       text |-> NoText, sub |-> Len(kids[i])]  BY <1>3, <1>6
  <2> QED BY <2>1
<1>8. ASSUME NEW i \in 1..N, NEW k \in 1..Len(kids[i])
      PROVE  <<i, k>> \in DOMAIN tree /\ tree[<<i, k>>] = kids[i][k][<<>>]
  <2>1. <<k>> \in DOMAIN nodes[i] /\ nodes[i][<<k>>] = kids[i][k][<<>>]  BY <1>3 DEF Over
  <2> QED BY <1>6, <2>1, JoinedPair
<1>9. ASSUME NEW p \in DOMAIN tree, p # <<>>
      PROVE  \/ \E i \in 1..N : p = <<i>>
             \/ \E i \in 1..N : \E k \in 1..Len(kids[i]) : p = <<i, k>>
  <2>1. PICK i \in 1..N : \E q \in DOMAIN nodes[i] : p = <<i>> \o q  BY <1>6, <1>9
  <2>2. PICK q \in DOMAIN nodes[i] : p = <<i>> \o q  BY <2>1
  <2>3. CASE q = <<>>
    <3>1. p = <<i>>  BY <2>2, <2>3
    <3> QED BY <3>1
  <2>4. CASE q # <<>>
    <3>1. PICK k \in 1..Len(kids[i]) : \E r \in DOMAIN kids[i][k] : q = <<k>> \o r
      BY <1>3, <2>4 DEF Over
    <3>2. DOMAIN kids[i][k] = {<<>>}  BY <1>2 DEF IsLeaf, LeafKids
    <3>3. q = <<k>> \o <<>>  BY <3>1, <3>2
    <3>4. q = <<k>>  BY <3>3
    <3>5. p = <<i, k>>  BY <2>2, <3>4, JoinedPair
    <3> QED BY <3>5
  <2> QED BY <2>3, <2>4
<1>10. Families(tree, slots, kids)  BY <1>4, <1>5, <1>6, <1>7, <1>8, <1>9 DEF Families
<1> QED BY <1>10 DEF CardOf, Card, tree, nodes, none

\* Distinct values of nothing are none.
LEMMA DistinctNone ==
    Distinct(<<>>) = <<>>
<1>1. <<>> \in Seq(Nat) /\ Len(<<>>) = 0  BY LenProperties
<1>2. {i \in DOMAIN <<>> : \A k \in 1..(i - 1) : <<>>[k] # <<>>[i]} \cap 1..Len(<<>>) = {}
  BY <1>1
<1> QED BY <1>1, <1>2, KeepNone DEF Distinct

\* Two steps from the root.
LEMMA TwoSteps ==
    ASSUME NEW a, NEW b
    PROVE  Append(<<a>>, b) = <<a, b>>
<1>1. <<a>> \in Seq({a, b}) /\ b \in {a, b}  OBVIOUS
<1>2. Append(<<a>>, b) = <<a>> \o <<b>>  BY <1>1, AppendIsConcat
<1> QED BY <1>2, JoinedPair

\* What is strictly above a node is at or above the one that it stands below.
LEMMA StrictlyAbove ==
    ASSUME NEW p \in Seq(Nat), NEW i \in Nat, NEW r, r = Append(p, i),
           NEW q \in Seq(Nat), IsStrictPrefix(q, r)
    PROVE  IsPrefix(q, p)
BY Appended

\* What is below an entity of such a card, whatever is found.
LEMMA BelowFamily ==
    ASSUME NEW tree, NEW slots, NEW kids, Families(tree, slots, kids), NEW i \in 1..Len(slots),
           NEW found
    PROVE  Below(tree, <<i>>, found) = FlattenSeq(OfChildren(found, i, Len(kids[i])))
<1>1. \A k : Append(<<i>>, k) = <<i, k>>  BY TwoSteps
<1>2. tree[<<i>>].sub = Len(kids[i])  BY DEF Families
<1>3. [k \in 1..tree[<<i>>].sub |-> found[Append(<<i>>, k)]]
        = [k \in 1..Len(kids[i]) |-> found[<<i, k>>]]  BY <1>1, <1>2
<1> QED BY <1>3 DEF Below, OfChildren

\* A card of families shows every entity that has a title.
LEMMA FamiliesAreVisible ==
    ASSUME NEW S, NEW slots \in Seq(S), NEW T, \A t \in T : IsLeaf(t),
           NEW kids \in Seq(Seq(T)), Len(kids) = Len(slots), NEW tree, Families(tree, slots, kids),
           \A i \in 1..Len(slots) : "title" \in DOMAIN slots[i] /\ slots[i].title # <<>>
    PROVE  /\ \A i \in 1..Len(slots) : <<i>> \in Visible(tree)
           /\ \A i \in 1..Len(slots) : \A k \in 1..Len(kids[i]) :
                 kids[i][k][<<>>].kind = "entity" => <<i, k>> \in Visible(tree)
<1>1. Len(slots) \in Nat  BY LenProperties
<1>2. LeafKids(T, kids)  BY KidsAreLeaves
<1>3. ASSUME NEW p \in EntityPaths(tree), "title" \in DOMAIN tree[p].slots,
             tree[p].slots.title # <<>>, Cardinality(EntitiesOver(tree, p)) <= 1
      PROVE  p \in Visible(tree)
  <2>1. Shows(tree, p)  BY <1>3 DEF Shows
  <2>2. EntitiesOver(tree, p) \subseteq DOMAIN tree /\ IsFiniteSet(DOMAIN tree)
    BY DEF EntitiesOver, Families, IsTree
  <2>3. Cardinality(EntitiesOver(tree, p)) \in Nat  BY <2>2, FS_Subset, FS_CardinalityType
  <2>4. Cardinality(EntitiesOver(tree, p)) <= MaxEntityDepth  BY <1>3, <2>3, DepthAssumption
  <2> QED BY <2>1, <2>4 DEF Visible
<1>4. ASSUME NEW i \in 1..Len(slots), NEW q \in EntitiesOver(tree, <<i>>) PROVE FALSE
  <2>1. q \in DOMAIN tree /\ IsStrictPrefix(q, <<i>>) /\ tree[q].kind = "entity"
    BY DEF EntitiesOver
  <2>2. i \in Nat /\ <<i>> \in Seq(Nat) /\ <<i>> = Append(<<>>, i) /\ <<>> \in Seq(Nat)  BY <1>1
  <2>3. q \in Seq(Nat)  BY <2>1 DEF Families, IsTree
  <2>4. IsPrefix(q, <<>>)  BY <2>1, <2>2, <2>3, StrictlyAbove
  <2>5. q = <<>>  BY <2>2, <2>3, <2>4, PrefixOrder
  <2>6. tree[<<>>].kind = "container"  BY DEF Families
  <2> QED BY <2>1, <2>5, <2>6
<1>5. ASSUME NEW i \in 1..Len(slots), NEW k \in 1..Len(kids[i]), NEW q \in EntitiesOver(tree, <<i, k>>)
      PROVE  q = <<i>>
  <2>1. q \in DOMAIN tree /\ IsStrictPrefix(q, <<i, k>>) /\ tree[q].kind = "entity"
    BY DEF EntitiesOver
  <2>2. i \in Nat /\ k \in Nat /\ <<i>> \in Seq(Nat) /\ <<i>> = Append(<<>>, i) /\ <<>> \in Seq(Nat)
    BY <1>1, <1>2 DEF LeafKids
  <2>7. <<i, k>> = Append(<<i>>, k)  BY TwoSteps
  <2>3. q \in Seq(Nat)  BY <2>1 DEF Families, IsTree
  <2>4. IsPrefix(q, <<i>>)  BY <2>1, <2>2, <2>3, <2>7, StrictlyAbove
  <2>5. q = <<i>> \/ IsStrictPrefix(q, <<i>>)  BY <2>4 DEF IsStrictPrefix
  <2>6. IsStrictPrefix(q, <<i>>) => q \in EntitiesOver(tree, <<i>>)  BY <2>1 DEF EntitiesOver
  <2> QED BY <1>4, <2>5, <2>6
<1>6. ASSUME NEW i \in 1..Len(slots) PROVE <<i>> \in Visible(tree)
  <2>1. EntitiesOver(tree, <<i>>) = {}  BY <1>4
  <2>2. Cardinality(EntitiesOver(tree, <<i>>)) <= 1
    <3>1. Cardinality({}) = 0  BY FS_EmptySet
    <3>2. Cardinality(EntitiesOver(tree, <<i>>)) = 0  BY <2>1, <3>1
    <3> QED BY <3>2
  <2>3. <<i>> \in EntityPaths(tree) /\ tree[<<i>>].slots = slots[i]
    BY DEF EntityPaths, Families
  <2> QED BY <1>3, <2>2, <2>3
<1>7. ASSUME NEW i \in 1..Len(slots), NEW k \in 1..Len(kids[i]), kids[i][k][<<>>].kind = "entity"
      PROVE  <<i, k>> \in Visible(tree)
  <2>1. EntitiesOver(tree, <<i, k>>) \subseteq {<<i>>}  BY <1>5
  <2>2. Cardinality(EntitiesOver(tree, <<i, k>>)) <= 1
    <3>1. Cardinality({<<i>>}) = 1 /\ IsFiniteSet({<<i>>})  BY FS_Singleton
    <3> QED BY <2>1, <3>1, FS_Subset
  <2>3. <<i, k>> \in EntityPaths(tree) /\ tree[<<i, k>>] = kids[i][k][<<>>]
    BY <1>7 DEF EntityPaths, Families
  <2>4. IsLeaf(kids[i][k])  BY <1>2 DEF LeafKids
  <2>5. "title" \in DOMAIN tree[<<i, k>>].slots /\ tree[<<i, k>>].slots.title # <<>>
    BY <1>7, <2>3, <2>4 DEF IsLeaf
  <2> QED BY <1>3, <2>2, <2>3, <2>5
<1> QED BY <1>6, <1>7

LEMMA FamilyLists ==
    ASSUME NEW S, NEW slots \in Seq(S), NEW kids
    PROVE  LET list == FamilyList(slots, kids)
           IN  list \in Seq(Range(list)) /\ Len(list) = Len(slots)
<1>1. Len(slots) \in Nat  BY LenProperties
<1>2. FamilyList(slots, kids) \in [1..Len(slots) -> Range(FamilyList(slots, kids))]
  BY DEF FamilyList, Range
<1> QED BY <1>1, <1>2, AList

\* A card of families is flattened to its families.
LEMMA FlattenedFamilies ==
    ASSUME NEW S, NEW slots \in Seq(S), NEW T, \A t \in T : IsLeaf(t),
           NEW kids \in Seq(Seq(T)), Len(kids) = Len(slots), NEW tree, Families(tree, slots, kids),
           \A i \in 1..Len(slots) : "title" \in DOMAIN slots[i] /\ slots[i].title # <<>>
    PROVE  FlattenSection(tree) = FamilyList(slots, kids)
<1> DEFINE texts == Texts(tree)
           flats == FlattenEntities(tree)
<1>1. IsTree(tree) /\ tree[<<>>].sub = Len(slots)  BY DEF Families
<1>2. LeafKids(T, kids)  BY KidsAreLeaves
<1>3. ASSUME NEW p \in DOMAIN tree
      PROVE  /\ texts[p] = IF p \in TextPaths(tree) THEN <<tree[p].text>>
                           ELSE IF p \in Stops(tree) THEN <<>> ELSE Below(tree, p, texts)
             /\ flats[p] = IF p \in Visible(tree)
                           THEN <<[slots |-> tree[p].slots, urn |-> tree[p].urn,
                                   texts |-> Distinct(Below(tree, p, texts)),
                                   children |-> Below(tree, p, flats)]>>
                           ELSE IF p \in Stops(tree) THEN <<>> ELSE Below(tree, p, flats)
  BY <1>1, EntityIsFound, TextsFound
<1>4. /\ \A i \in 1..Len(slots) : <<i>> \in Visible(tree)
      /\ \A i \in 1..Len(slots) : \A k \in 1..Len(kids[i]) :
            kids[i][k][<<>>].kind = "entity" => <<i, k>> \in Visible(tree)
  BY FamiliesAreVisible
<1>5. \A p \in Visible(tree) : tree[p].kind = "entity"  BY DEF Visible, EntityPaths
<1> HIDE DEF texts, flats
<1>6. ASSUME NEW i \in 1..Len(slots), NEW k \in 1..Len(kids[i])
      PROVE  texts[<<i, k>>] = LeafTexts(kids[i][k]) /\ flats[<<i, k>>] = LeafFlats(kids[i][k])
  <2> DEFINE p == <<i, k>>
             leaf == kids[i][k]
  <2>1. p \in DOMAIN tree /\ tree[p] = leaf[<<>>] /\ IsLeaf(leaf)  BY <1>2 DEF Families, LeafKids
  <2>2. leaf[<<>>].kind = "entity" => p \in Visible(tree)  BY <1>4
  <2> HIDE DEF p, leaf
  <2>3. Below(tree, p, texts) = <<>> /\ Below(tree, p, flats) = <<>>
    <3>1. tree[p].sub = 0  BY <2>1 DEF IsLeaf
    <3> QED BY <3>1, NothingBelow
  <2>4. p \in Stops(tree)  BY <2>1 DEF Stops, IsLeaf
  <2>5. CASE leaf[<<>>].kind = "text"
    <3>1. p \in TextPaths(tree) /\ p \notin Visible(tree)
      BY <1>5, <2>1, <2>5 DEF TextPaths, IsLeaf
    <3>2. texts[p] = <<tree[p].text>> /\ flats[p] = <<>>  BY <1>3, <2>1, <2>4, <3>1
    <3> QED BY <2>1, <2>5, <3>2 DEF LeafTexts, LeafFlats, p, leaf
  <2>6. CASE leaf[<<>>].kind # "text"
    <3>1. leaf[<<>>].kind = "entity" /\ leaf[<<>>].urn = NoUrn  BY <2>1, <2>6 DEF IsLeaf
    <3>2. p \in Visible(tree) /\ p \notin TextPaths(tree)
      BY <2>1, <2>2, <2>6, <3>1 DEF TextPaths
    <3>3. texts[p] = <<>>  BY <1>3, <2>1, <2>4, <3>2
    <3>4. flats[p] = <<Flat(tree[p].slots)>>
      BY <1>3, <2>1, <2>3, <3>1, <3>2, DistinctNone DEF Flat
    <3> QED BY <2>1, <2>6, <3>3, <3>4 DEF LeafTexts, LeafFlats, p, leaf
  <2> QED BY <2>5, <2>6
<1>7. ASSUME NEW i \in 1..Len(slots)
      PROVE  flats[<<i>>] = <<Family(slots[i], kids[i])>>
  <2>1. /\ <<i>> \in DOMAIN tree /\ tree[<<i>>].slots = slots[i] /\ tree[<<i>>].urn = NoUrn
    BY DEF Families
  <2>2. \A found : Below(tree, <<i>>, found) = FlattenSeq(OfChildren(found, i, Len(kids[i])))
    BY BelowFamily
  <2>3. /\ OfChildren(texts, i, Len(kids[i])) = [k \in 1..Len(kids[i]) |-> LeafTexts(kids[i][k])]
        /\ OfChildren(flats, i, Len(kids[i])) = [k \in 1..Len(kids[i]) |-> LeafFlats(kids[i][k])]
    BY <1>6 DEF OfChildren
  <2>4. flats[<<i>>] = <<[slots |-> slots[i], urn |-> NoUrn,
                          texts |-> Distinct(Below(tree, <<i>>, texts)),
                          children |-> Below(tree, <<i>>, flats)]>>  BY <1>3, <1>4, <2>1
  <2>5. /\ Below(tree, <<i>>, texts) = FlattenSeq([k \in 1..Len(kids[i]) |-> LeafTexts(kids[i][k])])
        /\ Below(tree, <<i>>, flats) = FlattenSeq([k \in 1..Len(kids[i]) |-> LeafFlats(kids[i][k])])
    BY <2>2, <2>3
  <2> QED BY <2>4, <2>5 DEF Family
<1>8. FlattenSection(tree) = flats[<<>>]
  <2>1. ASSUME NEW i \in 1..Len(slots), NEW k \in 1..Len(kids[i])
        PROVE  tree[<<i, k>>].kind # "opaque"
    <3>1. IsLeaf(kids[i][k])  BY <1>2 DEF LeafKids
    <3> QED BY <3>1 DEF IsLeaf, Families
  <2>2. \A p \in DOMAIN tree : tree[p].kind # "opaque"  BY <2>1 DEF Families
  <2>3. Open(tree)  BY <2>2 DEF Open
  <2> QED BY <1>1, <2>3, CardIsFound DEF flats
<1>9. flats[<<>>] = Below(tree, <<>>, flats)
  <2>1. <<>> \in DOMAIN tree  BY <1>1, Nodes
  <2>2. <<>> \notin Visible(tree) /\ <<>> \notin Stops(tree)  BY <1>5 DEF Families, Stops
  <2> QED BY <1>3, <2>1, <2>2
<1>10. Below(tree, <<>>, flats) = FlattenSeq([i \in 1..Len(slots) |-> flats[<<i>>]])
  BY <1>1, BelowRoot
<1> DEFINE list == FamilyList(slots, kids)
<1>11. list \in Seq(Range(list)) /\ Len(list) = Len(slots)  BY FamilyLists
<1>12. [i \in 1..Len(slots) |-> flats[<<i>>]] = [i \in 1..Len(slots) |-> <<list[i]>>]
  BY <1>7 DEF FamilyList
<1> HIDE DEF list
<1>13. FlattenSeq([i \in 1..Len(slots) |-> <<list[i]>>]) = list  BY <1>11, FlattenSingletons
<1> QED BY <1>8, <1>9, <1>10, <1>12, <1>13 DEF list

LEMMA FamiliesAreRead ==
    ASSUME NEW S, NEW slots \in Seq(S), NEW T, \A t \in T : IsLeaf(t),
           NEW kids \in Seq(Seq(T)), Len(kids) = Len(slots),
           \A i \in 1..Len(slots) : "title" \in DOMAIN slots[i] /\ slots[i].title # <<>>
    PROVE  FamiliesRead(slots, kids)
<1> DEFINE card == CardOf([i \in 1..Len(slots) |-> EntityNode(slots[i], kids[i])])
           list == FamilyList(slots, kids)
<1>1. FlattenSection(card.topComponents) = list
  <2> DEFINE tree == card.topComponents
  <2>1. Families(tree, slots, kids)  BY CardOfFamilies
  <2> HIDE DEF tree, card
  <2> QED BY <2>1, FlattenedFamilies DEF tree
<1>2. card.urn # NoUrn /\ "topComponents" \in DOMAIN card  BY DEF CardOf, Card, Urn, NoUrn
<1> HIDE DEF card
<1>3. <<>> \in Seq({}) /\ \A e \in {} : "topComponents" \notin DOMAIN e  OBVIOUS
<1>4. <<>> \o <<card>> = <<card>>  OBVIOUS
<1>5. FlattenCards(<<>> \o <<card>>) = FlattenSeq(<<FlattenSection(card.topComponents)>>)
  BY <1>2, <1>3, OnlyCard
<1>6. list \in Seq(Range(list))  BY FamilyLists
<1> HIDE DEF list
<1>7. FlattenSeq(<<list>>) = list  BY <1>6, FlattenOne
<1> QED BY <1>1, <1>4, <1>5, <1>7 DEF FamiliesRead, card, list

\* An entity over nothing tells of nothing else.
LEMMA ChildlessFamily ==
    ASSUME NEW slots
    PROVE  Family(slots, <<>>) = Flat(slots)
<1> DEFINE none == <<>>
<1>1. /\ [k \in 1..Len(none) |-> LeafTexts(none[k])] = <<>>
      /\ [k \in 1..Len(none) |-> LeafFlats(none[k])] = <<>>  OBVIOUS
<1>2. FlattenSeq(<<>>) = <<>>  BY DEF FlattenSeq
<1> QED BY <1>1, <1>2, DistinctNone DEF Family, Flat

\* A card whose entities have a title and no children is flattened to the list of its
\* entities, as they were.
LEMMA ChildlessCard ==
    ASSUME NEW S, NEW slots \in Seq(S),
           \A i \in 1..Len(slots) : "title" \in DOMAIN slots[i] /\ slots[i].title # <<>>
    PROVE  FlattenSection(CardOf([i \in 1..Len(slots) |-> EntityNode(slots[i], <<>>)]).topComponents)
             = [i \in 1..Len(slots) |-> Flat(slots[i])]
<1> DEFINE kids == [i \in 1..Len(slots) |-> <<>>]
           tree == CardOf([i \in 1..Len(slots) |-> EntityNode(slots[i], kids[i])]).topComponents
<1>1. Len(slots) \in Nat /\ kids \in Seq(Seq({})) /\ Len(kids) = Len(slots)  BY LenProperties
<1>2. \A i \in 1..Len(slots) : kids[i] = <<>>  OBVIOUS
<1>3. \A t \in {} : IsLeaf(t)  OBVIOUS
<1> HIDE DEF kids
<1>4. Families(tree, slots, kids)  BY <1>1, <1>3, CardOfFamilies
<1>5. tree = CardOf([i \in 1..Len(slots) |-> EntityNode(slots[i], <<>>)]).topComponents  BY <1>2
<1> HIDE DEF tree
<1>6. FlattenSection(tree) = FamilyList(slots, kids)  BY <1>1, <1>3, <1>4, FlattenedFamilies
<1>7. FamilyList(slots, kids) = [i \in 1..Len(slots) |-> Flat(slots[i])]
  BY <1>2, ChildlessFamily DEF FamilyList
<1> QED BY <1>5, <1>6, <1>7

--------
(* The subject's card, and a section in every tier. *)

\* The subject's card is read, whoever is mentioned before it.
LEMMA SubjectCardIsRead ==
    ASSUME NEW S, \A e \in S : "topComponents" \notin DOMAIN e, NEW others \in Seq(S)
    PROVE  FlattenCards(others \o <<SubjectCard>>)
             = <<Flat(Slots(SubjectName, SubjectHeadline, <<>>, <<>>))>>
<1> DEFINE line == Slots(SubjectName, SubjectHeadline, <<>>, <<>>)
           slots == <<line>>
           tree == SubjectCard.topComponents
           nodes == [i \in 1..Len(slots) |-> EntityNode(slots[i], <<>>)]
           flat == Flat(line)
<1>1. slots \in Seq({line}) /\ Len(slots) = 1 /\ slots[1] = line  OBVIOUS
<1>2. "title" \in DOMAIN line /\ line.title # <<>>  BY DEF Slots, SubjectName
<1> HIDE DEF line
<1>3. nodes = <<EntityNode(line, <<>>)>>  BY <1>1
<1>4. SubjectCard = CardOf(nodes)  BY <1>3 DEF SubjectCard, line
<1> HIDE DEF slots
<1>5. tree = CardOf(nodes).topComponents  BY <1>4
<1>6. FlattenSection(tree) = [i \in 1..Len(slots) |-> Flat(slots[i])]
  <2>1. \A i \in 1..Len(slots) : "title" \in DOMAIN slots[i] /\ slots[i].title # <<>>
    BY <1>1, <1>2
  <2> HIDE DEF tree
  <2> QED BY <1>1, <1>5, <2>1, ChildlessCard
<1> HIDE DEF tree, nodes
<1> HIDE DEF flat
<1>7. FlattenSection(tree) = <<flat>>  BY <1>1, <1>6 DEF flat
<1>8. SubjectCard.urn # NoUrn /\ "topComponents" \in DOMAIN SubjectCard
  BY DEF SubjectCard, CardOf, Card, NoUrn, Urn
<1>9. FlattenCards(others \o <<SubjectCard>>) = FlattenSeq(<<FlattenSection(tree)>>)
  BY <1>8, OnlyCard DEF tree
<1>10. FlattenSeq(<<<<flat>>>>) = <<flat>>
  <2>1. <<flat>> \in Seq({flat})  OBVIOUS
  <2> QED BY <2>1, FlattenOne
<1> QED BY <1>7, <1>9, <1>10 DEF flat, line

\* Theorem: everything that identifies a person comes from the subject, in every
\* tier, whoever else a response mentions after them, and whether or not the
\* card of the subject came: for any accompanying entities in any number.
THEOREM OnePersonIsRead == Spec => []OnePerson
<1> DEFINE S == People \cup {SubjectEntity}
           R == S \cup {SubjectCard}
<1>1. ASSUME NEW others \in Lists(People) PROVE others \in Seq(People)  BY DEF Lists
<1>2. \A e \in S : "topComponents" \notin DOMAIN e
  BY PeopleAssumption DEF SubjectEntity, Person
<1>3. read = Idle => OnePerson  BY DEF Idle, OnePerson
<1>4. ASSUME NEW others \in Lists(People), NEW withCard \in Lists(People),
             NEW card \in {<<>>, withCard \o <<SubjectCard>>}, ReadPerson(others, card)
      PROVE  OnePerson'
  <2> DEFINE flat == Flat(Slots(SubjectName, SubjectHeadline, <<>>, <<>>))
             last == <<SubjectCard>>
  <2>1. flat.slots.title = SubjectName  BY DEF Flat, Slots
  <2>2. others \in Seq(People) /\ withCard \in Seq(People)  BY <1>1
  <2>3. withCard \in Seq(S)  BY <2>2
  <2>4. FlattenCards(withCard \o last) = <<flat>>  BY <1>2, <2>3, SubjectCardIsRead
  <2>5. SubjectEntity \in R /\ others \in Seq(R) /\ withCard \in Seq(R) /\ last \in Seq(R)
    BY <2>2
  <2> HIDE DEF flat, last, R
  <2>6. card \in Seq(R)
    <3>1. withCard \o last \in Seq(R)  BY <2>5, ConcatProperties
    <3>2. <<>> \in Seq(R)  BY EmptySeq
    <3> QED BY <3>1, <3>2 DEF last
  <2>7. FlattenCards(card) \in {<<>>, <<flat>>}  BY <2>4, NoCards DEF last
  <2> QED BY <1>4, <2>1, <2>5, <2>6, <2>7, PersonIsRead
<1>5. ASSUME Next PROVE OnePerson'
  <2>1. ASSUME read'.kind # "person" PROVE OnePerson'  BY <2>1 DEF OnePerson
  <2> QED BY <1>4, <1>5, <2>1, Kinds DEF Next, Receive
<1>6. OnePerson /\ UNCHANGED read => OnePerson'  BY DEF OnePerson
<1> QED BY <1>3, <1>5, <1>6, PTL DEF Spec

\* A card of a section is flattened to its items.
LEMMA CardIsFlattened ==
    ASSUME NEW section, NEW I, NEW items \in Seq(I)
    PROVE  FlattenCards(<<AsCard(section, items)>>)
             = [i \in 1..Len(items) |-> Flat(ItemSlots(section, items[i]))]
<1> DEFINE N == Len(items)
           slots == [i \in 1..N |-> ItemSlots(section, items[i])]
           S == {slots[i] : i \in 1..N}
           card == AsCard(section, items)
           tree == card.topComponents
           flats == [i \in 1..N |-> Flat(slots[i])]
           nodes == [i \in 1..Len(slots) |-> EntityNode(slots[i], <<>>)]
<1>1. N \in Nat /\ DOMAIN items = 1..N  BY LenProperties
<1>2. slots \in Seq(S) /\ Len(slots) = N  BY <1>1
<1>3. \A i \in 1..N : "title" \in DOMAIN slots[i] /\ slots[i].title # <<>>
  BY DEF ItemSlots, Slots
<1>4. card = CardOf(nodes)
  <2>1. \A i \in 1..N : AsNode(section, items[i]) = EntityNode(slots[i], <<>>)
    BY DEF AsNode, ItemSlots
  <2> HIDE DEF slots, N
  <2> QED BY <1>1, <1>2, <2>1 DEF AsCard
<1> HIDE DEF slots, S, N
<1>5. tree = CardOf(nodes).topComponents  BY <1>4
<1> HIDE DEF tree
<1>6. FlattenSection(tree) = flats  BY <1>2, <1>3, <1>5, ChildlessCard
<1> HIDE DEF nodes
<1>7. card.urn # NoUrn /\ "topComponents" \in DOMAIN card  BY <1>4 DEF CardOf, Card, NoUrn, Urn
<1> HIDE DEF card
<1>8. FlattenCards(<<card>>) = FlattenSeq(<<FlattenSection(tree)>>)
  <2>1. <<>> \in Seq({}) /\ <<>> \o <<card>> = <<card>>  OBVIOUS
  <2>2. FlattenCards(<<>> \o <<card>>) = FlattenSeq(<<FlattenSection(card.topComponents)>>)
    BY <1>7, <2>1, OnlyCard
  <2> QED BY <2>1, <2>2 DEF tree
<1>9. flats \in Seq({flats[i] : i \in 1..N})  BY <1>1
<1>10. flats = [i \in 1..N |-> Flat(ItemSlots(section, items[i]))]  BY DEF slots
<1> HIDE DEF flats
<1>11. FlattenSeq(<<flats>>) = flats  BY <1>9, FlattenOne
<1> QED BY <1>6, <1>8, <1>10, <1>11 DEF card, N

\* The card of a section tells the truth about its items.
LEMMA CardAgrees ==
    ASSUME NEW section \in AllSections, NEW I, NEW items \in Seq(I),
           \A i \in 1..Len(items) : IsItem(section, items[i])
    PROVE  ParseSection(section, FlattenCards(<<AsCard(section, items)>>))
             = OnceIfSkills(section, TrueItems(section, items, "date"))
<1> DEFINE n == Len(items)
           flats == [i \in 1..n |-> Flat(ItemSlots(section, items[i]))]
           E == {flats[i] : i \in 1..n}
           readings == [i \in DOMAIN flats |-> CardReading(section, flats[i].slots)]
<1>1. n \in Nat  BY LenProperties
<1>2. FlattenCards(<<AsCard(section, items)>>) = flats  BY CardIsFlattened
<1>3. flats \in Seq(E) /\ Len(flats) = n  BY <1>1
<1>4. \A i \in 1..n : flats[i].slots = ItemSlots(section, items[i])  BY DEF Flat
<1>5. \A i \in 1..n : flats[i].slots.title # <<>>  BY <1>4 DEF ItemSlots, Slots
<1>6. DOMAIN flats = 1..n  OBVIOUS
<1>7. readings = TrueItems(section, items, "date")
  <2>1. \A i \in 1..n : CardReading(section, flats[i].slots) = TrueItem(section, items[i], "date")
    BY <1>4, CardTellsTheTruth
  <2> HIDE DEF flats
  <2> QED BY <1>6, <2>1 DEF TrueItems
<1>8. ParseSection(section, flats) = OnceIfSkills(section, readings)
  <2> HIDE DEF flats, E
  <2> QED BY <1>3, <1>5, CardIsRead
<1> QED BY <1>2, <1>7, <1>8

\* What a section should come to.
LEMMA ExpectedIsOnce ==
    ASSUME NEW section, NEW I, NEW items \in Seq(I), NEW form
    PROVE  Expected(section, items, form) = OnceIfSkills(section, TrueItems(section, items, form))
<1>1. DOMAIN items = 1..Len(items)  BY LenProperties
<1> QED BY <1>1 DEF Expected, OnceIfSkills, DistinctNames, TrueItems

\* It is the invariant, in this state and in the next.
LEMMA AgreesInRead == (SectionsAgree <=> AgreesIn(read)) /\ (SectionsAgree' <=> AgreesIn(read'))
BY DEF SectionsAgree, AgreesIn, ReadAlike

\* Every section reads the same in every tier, apart from REST's missing dates.
LEMMA TiersAgree ==
    ASSUME NEW section \in AllSections, NEW I, NEW items \in Seq(I),
           \A i \in 1..Len(items) : IsItem(section, items[i]), ReadItems(section, items)
    PROVE  SectionsAgree'
<1> DEFINE n == Len(items)
           entities == AsEntities(section, items)
           E == {entities[i] : i \in 1..n}
           type == TypedAs(section).type
           truth == TrueItems(section, items, "iso")
           expected == OnceIfSkills(section, truth)
           written == OnceIfSkills(section, TrueItems(section, items, "date"))
<1>1. n \in Nat /\ DOMAIN items = 1..n  BY LenProperties
<1>2. /\ read'.kind = "items" /\ read'.section = section /\ read'.items = items
      /\ read'.dash = DashProfile(DashItems(section, items),
                                  LAMBDA included : DashSection(section, included))
      /\ read'.rest = RestSection(section, RestItems(section, items))
      /\ read'.card = ParseSection(section, FlattenCards(<<AsCard(section, items)>>))
  BY DEF ReadItems, DashItems, RestItems
<1>3. entities \in Seq(E) /\ Len(entities) = n /\ \A i \in 1..n : Says(entities[i], section, items[i])
  BY EntitiesSay
<1>4. /\ ByType(DashItems(section, items), {type}) = entities
      /\ ByType(RestItems(section, items), {type}) = entities
      /\ Subject(DashItems(section, items)) # <<>>  BY ItemsAreFound
<1>16. ItemsSaid(section, items, entities)  BY <1>1, <1>3 DEF ItemsSaid
<1> HIDE DEF entities, E
<1>5. read'.dash = expected
  <2>1. read'.dash = DashSection(section, DashItems(section, items))
    BY <1>2, <1>4 DEF DashProfile
  <2>2. DashSection(section, DashItems(section, items))
          = OnceIfSkills(section, Saying("dash", section, items, entities))
    BY <1>3, <1>4, <1>16, TiersRead
  <2> QED BY <1>3, <1>16, <2>1, <2>2, SayingIsTrue
<1>6. read'.card = written  BY <1>2, CardAgrees
<1>11. \E told : RestSection(section, RestItems(section, items)) = OnceIfSkills(section, told)
                   /\ ToldByRest(told, section, items)
  <2>1. RestSection(section, RestItems(section, items))
          = OnceIfSkills(section, Saying("rest", section, items, entities))
    BY <1>3, <1>4, <1>16, TiersRead
  <2>2. ToldByRest(Saying("rest", section, items, entities), section, items)
    BY <1>3, <1>16, SayingIsTrue
  <2> QED BY <2>1, <2>2
<1>12. PICK told : RestSection(section, RestItems(section, items)) = OnceIfSkills(section, told)
                     /\ ToldByRest(told, section, items)  BY <1>11
<1>7. /\ told \in Seq({told[i] : i \in DOMAIN told}) /\ Len(told) = n
      /\ \A i \in 1..n : \/ told[i] = TrueItem(section, items[i], "iso")
                         \/ Lacks(section, items[i]) /\ told[i].when.current
  BY <1>12 DEF ToldByRest
<1>8. /\ Len(truth) = n /\ DOMAIN truth = 1..n
      /\ \A i \in 1..n : truth[i] = TrueItem(section, items[i], "iso")  BY <1>1 DEF TrueItems
<1>14. Expected(section, items, "date") = written /\ Expected(section, items, "iso") = expected
  BY ExpectedIsOnce
<1> HIDE DEF truth, expected, written
<1>15. ASSUME Len(read'.rest) = Len(expected),
              \A i \in DOMAIN expected :
                 \/ read'.rest[i] = expected[i]
                 \/ Lacks(section, items[i]) /\ read'.rest[i].when.current
       PROVE  SectionsAgree'
  <2>1. ReadAlike(section, items, read'.card, read'.dash, read'.rest, written, expected)
    BY <1>5, <1>6, <1>15 DEF ReadAlike
  <2>2. AgreesIn(read')  BY <1>2, <1>14, <2>1 DEF AgreesIn
  <2> QED BY <2>2, AgreesInRead
<1>9. CASE section = "skills"
  <2>1. \A i \in 1..n : told[i] = truth[i]  BY <1>7, <1>8, <1>9 DEF Lacks, Ranged
  <2>2. told = truth
    <3>1. DOMAIN told = 1..n /\ told = [i \in DOMAIN told |-> told[i]]
      BY <1>1, <1>7, LenProperties
    <3>2. truth = [i \in DOMAIN truth |-> truth[i]]  BY DEF truth, TrueItems
    <3> QED BY <1>8, <2>1, <3>1, <3>2
  <2>3. read'.rest = expected  BY <1>2, <1>12, <2>2 DEF expected
  <2> QED BY <2>3, <1>15
<1>10. CASE section # "skills"
  <2>1. read'.rest = told /\ expected = truth  BY <1>2, <1>10, <1>12 DEF OnceIfSkills, expected
  <2> QED BY <1>7, <1>8, <1>15, <2>1
<1> QED BY <1>9, <1>10

\* Skills, certificates, languages, projects and the rest of the short sections have the
\* same items, sources, ranges and days on cards and in both typed tiers, for whatever
\* items, days and limits; a single date is in the card's words there, and in ISO form here.
THEOREM SectionsReadAlike == Spec => []SectionsAgree
<1>1. read = Idle => SectionsAgree  BY DEF Idle, SectionsAgree
<1>2. ASSUME NEW section \in AllSections,
             NEW items \in Lists({item \in ItemsOf(section) : Wellformed(section, item)}),
             ReadItems(section, items)
      PROVE  SectionsAgree'
  <2> DEFINE I == {item \in ItemsOf(section) : Wellformed(section, item)}
  <2>1. \A item \in I : IsItem(section, item)  BY ItemsAreItems
  <2> HIDE DEF I
  <2>2. items \in Seq(I)  BY DEF Lists, I
  <2>3. \A i \in 1..Len(items) : IsItem(section, items[i])  BY <2>1, <2>2, LenProperties
  <2> QED BY <1>2, <2>2, <2>3, TiersAgree
<1>3. ASSUME Next PROVE SectionsAgree'
  <2>1. ASSUME read'.kind # "items" PROVE SectionsAgree'  BY <2>1 DEF SectionsAgree
  <2> QED BY <1>2, <1>3, <2>1, Kinds DEF Next, Receive
<1>4. SectionsAgree /\ UNCHANGED read => SectionsAgree'  BY AgreesInRead
<1> QED BY <1>1, <1>3, <1>4, PTL DEF Spec

--------
(* The employers of a career on a card. *)

\* Only entities are told of an entity over entities.
LEMMA EmployerIsFlattened ==
    ASSUME NEW R, NEW run, IsRun(run, R)
    PROVE  Family(EmployerSlots(run), EmployerKids(run)) = Employer(run)
<1> DEFINE n == Len(run)
           kids == EmployerKids(run)
           slots == EmployerSlots(run)
           role == [k \in 1..n |-> Flat(RoleSlots(run[k], <<Word("full-time")>>))]
           F == {Flat(RoleSlots(run[k], <<Word("full-time")>>)) : k \in 1..n}
<1>1. n \in Nat  BY LenProperties DEF IsRun
<1>2. CASE n = 1
  <2>1. kids = <<>> /\ Len(kids) = 0  BY <1>2, LenProperties DEF EmployerKids
  <2>2. /\ [k \in 1..Len(kids) |-> LeafTexts(kids[k])] = [k \in 1..0 |-> <<>>]
        /\ [k \in 1..Len(kids) |-> LeafFlats(kids[k])] = [k \in 1..0 |-> <<>>]  BY <2>1
  <2>3. FlattenSeq([k \in 1..0 |-> <<>>]) = <<>>  BY FlattenNone
  <2>4. Family(slots, kids) = [slots |-> slots, urn |-> NoUrn, texts |-> <<>>, children |-> <<>>]
    BY <2>2, <2>3, DistinctNone DEF Family
  <2> QED BY <1>2, <2>4 DEF Employer
<1>3. CASE n # 1
  <2>1. kids = [k \in 1..n |-> EntityNode(RoleSlots(run[k], <<Word("full-time")>>), <<>>)]
    BY <1>3 DEF EmployerKids
  <2>2. Len(kids) = n  BY <1>1, <2>1
  <2>3. ASSUME NEW k \in 1..n
        PROVE  LeafTexts(kids[k]) = <<>> /\ LeafFlats(kids[k]) = <<role[k]>>
    <3> DEFINE leaf == kids[k]
               own == RoleSlots(run[k], <<Word("full-time")>>)
    <3>1. leaf = EntityNode(own, <<>>)  BY <2>1
    <3> HIDE DEF own, leaf
    <3>2. leaf[<<>>].kind = "entity" /\ leaf[<<>>].slots = own  BY <3>1, LeafNode
    <3>3. "entity" # "text"  OBVIOUS
    <3>4. LeafTexts(leaf) = <<>> /\ LeafFlats(leaf) = <<Flat(own)>>
      BY <3>2, <3>3 DEF LeafTexts, LeafFlats
    <3> QED BY <3>4 DEF leaf, own
  <2>4. /\ [k \in 1..Len(kids) |-> LeafTexts(kids[k])] = [k \in 1..n |-> <<>>]
        /\ [k \in 1..Len(kids) |-> LeafFlats(kids[k])] = [k \in 1..n |-> <<role[k]>>]
    BY <2>2, <2>3
  <2>5. FlattenSeq([k \in 1..n |-> <<>>]) = <<>>  BY <1>1, FlattenNone
  <2>6. role \in Seq(F) /\ Len(role) = n
    <3>1. role \in [1..n -> F]  OBVIOUS
    <3> HIDE DEF role, F, n
    <3> QED BY <1>1, <3>1, AList
  <2> HIDE DEF role, F
  <2>7. FlattenSeq([k \in 1..n |-> <<role[k]>>]) = role  BY <2>6, FlattenSingletons
  <2> HIDE DEF kids, slots
  <2>8. Family(slots, kids) = [slots |-> slots, urn |-> NoUrn, texts |-> <<>>, children |-> role]
    BY <2>4, <2>5, <2>7, DistinctNone DEF Family
  <2> QED BY <1>3, <2>8 DEF Employer, role, kids, slots
<1> QED BY <1>2, <1>3

\* The card of a career is flattened to its employers.
LEMMA CareerCardIsRead ==
    ASSUME NEW R, NEW roles \in Seq(R)
    PROVE  FlattenCards(<<AsCareerCard(roles)>>)
             = [i \in 1..Len(Runs(roles)) |-> Employer(Runs(roles)[i])]
<1> DEFINE runs == Runs(roles)
           n == Len(runs)
           slots == [i \in 1..n |-> EmployerSlots(runs[i])]
           kids == [i \in 1..n |-> EmployerKids(runs[i])]
           S == {EmployerSlots(runs[i]) : i \in 1..n}
           T == {EntityNode(RoleSlots(role, <<Word("full-time")>>), <<>>) : role \in R}
<1>1. AreRuns(runs, R)  BY RunsOfRoles
<1> HIDE DEF runs
<1>2. n \in Nat /\ DOMAIN runs = 1..n /\ \A i \in 1..n : IsRun(runs[i], R)
  BY <1>1, LenProperties DEF AreRuns
<1>3. \A t \in T : IsLeaf(t)
  <2> SUFFICES ASSUME NEW role \in R
               PROVE  IsLeaf(EntityNode(RoleSlots(role, <<Word("full-time")>>), <<>>))
    OBVIOUS
  <2> DEFINE own == RoleSlots(role, <<Word("full-time")>>)
             leaf == EntityNode(own, <<>>)
  <2>1. "title" \in DOMAIN own /\ own.title # <<>>  BY DEF RoleSlots, Slots
  <2> HIDE DEF own
  <2>2. /\ DOMAIN leaf = {<<>>} /\ leaf[<<>>].kind = "entity" /\ leaf[<<>>].sub = 0
        /\ leaf[<<>>].slots = own /\ leaf[<<>>].urn = NoUrn  BY LeafNode
  <2> HIDE DEF leaf
  <2>3. IsLeaf(leaf)  BY <2>1, <2>2 DEF IsLeaf
  <2> QED BY <2>3 DEF leaf, own
<1>4. ASSUME NEW i \in 1..n PROVE EmployerKids(runs[i]) \in Seq(T)
  <2> DEFINE run == runs[i]
             m == Len(run)
  <2>1. run \in Seq(R)  BY <1>2 DEF IsRun
  <2> HIDE DEF run
  <2>2. m \in Nat /\ \A k \in 1..m : run[k] \in R  BY <2>1, LenProperties, ElementOfSeq
  <2>3. CASE m = 1  BY <2>3 DEF EmployerKids, run
  <2>4. CASE m # 1
    <3>1. EmployerKids(run) = [k \in 1..m |-> EntityNode(RoleSlots(run[k], <<Word("full-time")>>), <<>>)]
      BY <2>4 DEF EmployerKids
    <3>2. EmployerKids(run) \in [1..m -> T]  BY <2>2, <3>1
    <3> HIDE DEF T, m
    <3> QED BY <2>2, <3>2, AList DEF run
  <2> QED BY <2>3, <2>4
<1>5. slots \in Seq(S) /\ Len(slots) = n
  <2>1. slots \in [1..n -> S]  OBVIOUS
  <2> HIDE DEF slots, S, n
  <2> QED BY <1>2, <2>1, AList
<1>6. kids \in Seq(Seq(T)) /\ Len(kids) = n
  <2>1. kids \in [1..n -> Seq(T)]  BY <1>4
  <2> HIDE DEF kids, T, n
  <2> QED BY <1>2, <2>1, AList
<1>7. \A i \in 1..n : "title" \in DOMAIN slots[i] /\ slots[i].title # <<>>
  BY DEF EmployerSlots, RoleSlots, Slots
<1>8. AsCareerCard(roles) = CardOf([i \in 1..n |-> AsEmployer(runs[i])])
  BY <1>2 DEF AsCareerCard, runs
<1>9. ASSUME NEW i \in 1..n PROVE AsEmployer(runs[i]) = EntityNode(slots[i], kids[i])
  <2> DEFINE run == runs[i]
  <2>1. DOMAIN run = 1..Len(run)  BY <1>2, LenProperties DEF IsRun
  <2> HIDE DEF run
  <2>2. AsEmployer(run) = EntityNode(EmployerSlots(run), EmployerKids(run))
    BY <2>1 DEF AsEmployer, AsRole, EmployerSlots, EmployerKids, RoleSlots
  <2> QED BY <2>2 DEF run
<1>10. [i \in 1..n |-> AsEmployer(runs[i])] = [i \in 1..Len(slots) |-> EntityNode(slots[i], kids[i])]
  BY <1>5, <1>9
<1>11. ASSUME NEW i \in 1..n PROVE Family(slots[i], kids[i]) = Employer(runs[i])
  BY <1>2, EmployerIsFlattened
<1> HIDE DEF slots, kids, S, T
<1>12. FlattenCards(<<CardOf([i \in 1..Len(slots) |-> EntityNode(slots[i], kids[i])])>>)
         = [i \in 1..Len(slots) |-> Family(slots[i], kids[i])]
  <2>1. /\ slots \in Seq(S) /\ (\A t \in T : IsLeaf(t)) /\ kids \in Seq(Seq(T))
        /\ Len(kids) = Len(slots)
        /\ \A i \in 1..Len(slots) : "title" \in DOMAIN slots[i] /\ slots[i].title # <<>>
    BY <1>3, <1>5, <1>6, <1>7
  <2>2. FamiliesRead(slots, kids)  BY <2>1, FamiliesAreRead
  <2> QED BY <2>2 DEF FamiliesRead, FamilyList
<1>13. [i \in 1..Len(slots) |-> Family(slots[i], kids[i])] = [i \in 1..n |-> Employer(runs[i])]
  BY <1>5, <1>11
<1> QED BY <1>8, <1>10, <1>12, <1>13 DEF runs

\* A position of a role, whatever else is known of it.
LEMMA ToldOfPosition ==
    ASSUME NEW role, IsPeriod(role), NEW type, NEW metadata, NEW description
    PROVE  Told(Position(<<role.title>>, <<role.company>>, type, metadata, AsCaption(role),
                         description)) = TrueRole(role)
<1> DEFINE position == Position(<<role.title>>, <<role.company>>, type, metadata, AsCaption(role),
                                description)
<1>1. CaptionRange(AsCaption(role)) = TrueRange(role)  BY PeriodIsRead
<1>2. /\ position["title"] = <<role.title>> /\ position["company"] = <<role.company>>
      /\ position["dates"] = TrueRange(role)  BY <1>1 DEF Position
<1> HIDE DEF position
<1>3. Told(position) = [f \in {"title", "company", "dates"} |-> TrueRole(role)[f]]
  BY <1>2 DEF Told, TrueRole
<1>4. TrueRole(role) = [f \in {"title", "company", "dates"} |-> TrueRole(role)[f]]
  BY DEF TrueRole
<1> QED BY <1>3, <1>4 DEF position

\* A single role is no group, and is read from its own slots.
LEMMA SingleIsParsed ==
    ASSUME NEW R, NEW run, IsRun(run, R), \A k \in 1..Len(run) : IsPeriod(run[k]), Len(run) = 1
    PROVE  TellsRun(ParsedEntity(Employer(run)), run)
<1> DEFINE role == run[1]
           slots == RoleSlots(role, <<role.company, Word("full-time")>>)
           e == Employer(run)
<1>1. e = Flat(slots) /\ IsPeriod(role)  BY DEF Employer, EmployerSlots, Flat
<1>2. /\ slots.title = <<role.title>> /\ slots.subtitle = <<role.company, Word("full-time")>>
      /\ slots.caption = AsCaption(role)  BY DEF RoleSlots, Slots
<1> HIDE DEF e, role, slots
<1>3. e.slots = slots /\ e.children = <<>>  BY <1>1 DEF Flat
<1>4. ~IsGroupedEmployer(e)  BY <1>3 DEF IsGroupedEmployer
<1>5. Shown(<<e>>) = <<e>>
  <2> DEFINE places == {i \in DOMAIN <<e>> :
                          <<e>>[i].slots.title # <<>> \/ <<e>>[i].slots.subtitle # <<>>}
  <2>3. <<e>> \in Seq({e}) /\ Len(<<e>>) = 1 /\ DOMAIN <<e>> = 1..1 /\ <<e>>[1] = e  OBVIOUS
  <2>4. e.slots.title # <<>>  BY <1>2, <1>3
  <2>5. 1 \in places  BY <2>3, <2>4
  <2>1. <<e>> \in Seq({e}) /\ \A i \in 1..Len(<<e>>) : i \in places
    <3> HIDE DEF places
    <3> QED BY <2>3, <2>5
  <2>2. Shown(<<e>>) = Keep(<<e>>, places)  BY DEF Shown, Filter
  <2> HIDE DEF places
  <2> QED BY <2>1, <2>2, KeepAll
<1>6. ParsedEntity(e) = [k \in DOMAIN <<e>> |-> Single(<<e>>[k])]
  BY <1>4, <1>5 DEF ParsedEntity
<1>7. DOMAIN <<e>> = 1..1 /\ <<e>>[1] = e  OBVIOUS
<1>8. ParsedEntity(e) = [k \in 1..1 |-> ParsedEntity(e)[k]] /\ ParsedEntity(e)[1] = Single(e)
  BY <1>6, <1>7
<1>9. First(slots.subtitle) = <<role.company>>  BY <1>2 DEF First
<1>10. \E type, metadata, description :
          Single(e) = Position(<<role.title>>, <<role.company>>, type, metadata, AsCaption(role),
                               description)  BY <1>2, <1>3, <1>9 DEF Single
<1>11. Told(Single(e)) = TrueRole(role)  BY <1>1, <1>10, ToldOfPosition
<1> QED BY <1>8, <1>11 DEF TellsRun, e, role

\* The roles at one employer are a group, and are read from the children.
LEMMA GroupIsParsed ==
    ASSUME NEW R, NEW run, IsRun(run, R), \A k \in 1..Len(run) : IsPeriod(run[k]), Len(run) # 1
    PROVE  TellsRun(ParsedEntity(Employer(run)), run)
<1> DEFINE n == Len(run)
           e == Employer(run)
           own(k) == RoleSlots(run[k], <<Word("full-time")>>)
           kids == [k \in 1..n |-> Flat(own(k))]
           K == {Flat(own(k)) : k \in 1..n}
<1>1. n \in Nat /\ n >= 1
  <2>1. run \in Seq(R) /\ run # <<>>  BY DEF IsRun
  <2> QED BY <2>1, LenProperties, EmptySeq
<1>2. e.children = kids /\ e.slots.title = <<run[1].company>>
  BY DEF Employer, EmployerSlots, Slots
<1>3. \A k \in 1..n : /\ own(k).title = <<run[k].title>> /\ own(k).caption = AsCaption(run[k])
                      /\ kids[k].slots = own(k)  BY DEF RoleSlots, Slots, Flat
<1>4. kids \in Seq(K) /\ Len(kids) = n
  <2>1. kids \in [1..n -> K]  OBVIOUS
  <2> HIDE DEF kids, K, n
  <2> QED BY <1>1, <2>1, AList
<1> HIDE DEF kids, K, own
<1>5. DOMAIN kids = 1..n  BY <1>4, LenProperties
<1>6. IsGroupedEmployer(e)
  <2>1. 1 \in DOMAIN e.children /\ e.children[1].slots.title # <<>>  BY <1>1, <1>2, <1>3, <1>5, SMTT(30)
  <2>2. CaptionRange(AsCaption(run[1])) = TrueRange(run[1])
    <3>1. IsPeriod(run[1])  BY <1>1
    <3> QED BY <3>1, PeriodIsRead
  <2>3. TrueRange(run[1]).given = TRUE  BY DEF TrueRange, MakeRange, NoRange
  <2>4. CaptionRange(e.children[1].slots.caption).given  BY <1>1, <1>2, <1>3, <2>2, <2>3
  <2> QED BY <2>1, <2>4 DEF IsGroupedEmployer
<1>7. Titled(kids) = kids
  <2> DEFINE places == {i \in DOMAIN kids : kids[i].slots.title # <<>>}
  <2>1. Titled(kids) = Keep(kids, places)  BY DEF Titled, Filter
  <2>3. \A i \in 1..n : kids[i].slots.title # <<>>  BY <1>3
  <2>2. \A i \in 1..Len(kids) : i \in places  BY <1>4, <1>5, <2>3
  <2> HIDE DEF places
  <2> QED BY <1>4, <2>1, <2>2, KeepAll
<1> DEFINE parsed == ParsedEntity(e)
<1>8. parsed = ExpandGrouped(e)  BY <1>6 DEF ParsedEntity
<1>9. /\ parsed = [k \in 1..n |-> parsed[k]]
      /\ \A k \in 1..n : \E type, metadata, description :
            parsed[k] = Position(kids[k].slots.title, e.slots.title, type, metadata,
                                 kids[k].slots.caption, description)
  <2> DEFINE type(kid) ==
               IF \E i \in DOMAIN kid.slots.subtitle : IsEmployment(kid.slots.subtitle[i])
               THEN FirstIn(kid.slots.subtitle, IsEmployment) ELSE kid.slots.subtitle
  <2>1. ExpandGrouped(e) =
          [k \in DOMAIN kids |->
             Position(kids[k].slots.title, e.slots.title, type(kids[k]),
                      kids[k].slots.metadata, kids[k].slots.caption, kids[k].texts)]
    BY <1>2, <1>7 DEF ExpandGrouped
  <2> HIDE DEF type, parsed, n, e
  <2>2. \A k \in 1..n :
           parsed[k] = Position(kids[k].slots.title, e.slots.title, type(kids[k]),
                                kids[k].slots.metadata, kids[k].slots.caption, kids[k].texts)
    BY <1>5, <1>8, <2>1
  <2>3. parsed = [k \in 1..n |-> parsed[k]]  BY <1>5, <1>8, <2>1
  <2> QED BY <2>2, <2>3
<1> HIDE DEF parsed
<1>10. ASSUME NEW k \in 1..n PROVE Told(parsed[k]) = TrueRole(run[k])
  <2>1. kids[k].slots.title = <<run[k].title>> /\ kids[k].slots.caption = AsCaption(run[k])
    BY <1>3
  <2>2. e.slots.title = <<run[k].company>>  BY <1>2 DEF IsRun
  <2>3. PICK type, metadata, description :
            parsed[k] = Position(<<run[k].title>>, <<run[k].company>>, type, metadata,
                                 AsCaption(run[k]), description)
    BY <1>9, <2>1, <2>2, SMTT(30)
  <2> QED BY <2>3, ToldOfPosition
<1> QED BY <1>9, <1>10 DEF TellsRun, parsed, e

\* The card of a career tells every role of it, in order.
LEMMA CardTellsCareer ==
    ASSUME NEW R, NEW roles \in Seq(R), \A role \in R : IsPeriod(role)
    PROVE  ToldAll(ParseExperience(FlattenCards(<<AsCareerCard(roles)>>)))
             = [i \in 1..Len(roles) |-> TrueRole(roles[i])]
<1> DEFINE runs == Runs(roles)
           n == Len(runs)
           flats == [i \in 1..n |-> Employer(runs[i])]
           parsed == [i \in 1..n |-> ParsedEntity(flats[i])]
           A == UNION {{parsed[i][k] : k \in 1..Len(runs[i])} : i \in 1..n}
           truth == [role \in R |-> TrueRole(role)]
           told == [position \in A |-> Told(position)]
<1>1. AreRuns(runs, R) /\ FlattenSeq(runs) = roles  BY RunsOfRoles
<1>2. FlattenCards(<<AsCareerCard(roles)>>) = flats  BY CareerCardIsRead
<1> HIDE DEF runs
<1>3. /\ n \in Nat /\ DOMAIN runs = 1..n /\ runs \in Seq(Seq(R))
      /\ \A i \in 1..n : /\ IsRun(runs[i], R) /\ Len(runs[i]) \in Nat
                         /\ \A k \in 1..Len(runs[i]) : runs[i][k] \in R
  <2>1. runs \in Seq(Seq(R)) /\ \A i \in 1..n : IsRun(runs[i], R)  BY <1>1 DEF AreRuns
  <2>2. \A i \in 1..n : runs[i] \in Seq(R)  BY <2>1 DEF IsRun
  <2> QED BY <2>1, <2>2, LenProperties, ElementOfSeq
<1>4. ASSUME NEW i \in 1..n PROVE TellsRun(parsed[i], runs[i])
  <2> DEFINE run == runs[i]
  <2>1. IsRun(run, R) /\ \A k \in 1..Len(run) : IsPeriod(run[k])  BY <1>3
  <2>2. parsed[i] = ParsedEntity(Employer(run))  OBVIOUS
  <2> HIDE DEF run, parsed
  <2>3. TellsRun(ParsedEntity(Employer(run)), run)  BY <2>1, SingleIsParsed, GroupIsParsed
  <2> QED BY <2>2, <2>3 DEF run
<1>5. ParseExperience(flats) = FlattenSeq(parsed)
  <2>1. DOMAIN flats = 1..n  OBVIOUS
  <2> QED BY <2>1 DEF ParseExperience, ParsedEntity
<1> HIDE DEF flats
<1>6. ASSUME NEW i \in 1..n
      PROVE  /\ parsed[i] \in Seq(A) /\ Len(parsed[i]) = Len(runs[i])
             /\ \A k \in 1..Len(runs[i]) : parsed[i][k] \in A
  <2>1. parsed[i] = [k \in 1..Len(runs[i]) |-> parsed[i][k]]  BY <1>4 DEF TellsRun
  <2>2. ASSUME NEW k \in 1..Len(runs[i]) PROVE parsed[i][k] \in A
    <3> DEFINE P(j) == {parsed[j][l] : l \in 1..Len(runs[j])}
    <3>1. parsed[i][k] \in P(i)  OBVIOUS
    <3>2. A = UNION {P(j) : j \in 1..n}  OBVIOUS
    <3> HIDE DEF P, A, parsed
    <3> QED BY <3>1, <3>2
  <2> HIDE DEF A, parsed
  <2>3. parsed[i] \in [1..Len(runs[i]) -> A] /\ Len(runs[i]) \in Nat  BY <1>3, <2>1, <2>2
  <2> QED BY <2>2, <2>3, AList
<1>7. parsed \in Seq(Seq(A)) /\ Len(parsed) = n
  <2>1. parsed = [i \in 1..n |-> parsed[i]]  OBVIOUS
  <2> HIDE DEF parsed, A, n
  <2>2. parsed \in [1..n -> Seq(A)] /\ n \in Nat  BY <1>3, <1>6, <2>1
  <2> QED BY <2>2, AList
<1> HIDE DEF parsed, A
<1>8. FlattenSeq([i \in 1..Len(parsed) |-> [k \in 1..Len(parsed[i]) |-> told[parsed[i][k]]]])
        = [j \in 1..Len(FlattenSeq(parsed)) |-> told[FlattenSeq(parsed)[j]]]
  <2> HIDE DEF told
  <2> QED BY <1>7, FlattenMapped
<1>9. FlattenSeq([i \in 1..Len(runs) |-> [k \in 1..Len(runs[i]) |-> truth[runs[i][k]]]])
        = [j \in 1..Len(roles) |-> truth[roles[j]]]
  <2> HIDE DEF truth
  <2>1. FlattenSeq([i \in 1..Len(runs) |-> [k \in 1..Len(runs[i]) |-> truth[runs[i][k]]]])
          = [j \in 1..Len(FlattenSeq(runs)) |-> truth[FlattenSeq(runs)[j]]]
    BY <1>3, FlattenMapped
  <2> QED BY <1>1, <2>1
<1>10. [i \in 1..Len(parsed) |-> [k \in 1..Len(parsed[i]) |-> told[parsed[i][k]]]]
         = [i \in 1..Len(runs) |-> [k \in 1..Len(runs[i]) |-> truth[runs[i][k]]]]
  <2>1. ASSUME NEW i \in 1..n
        PROVE  [k \in 1..Len(parsed[i]) |-> told[parsed[i][k]]]
                 = [k \in 1..Len(runs[i]) |-> truth[runs[i][k]]]
    <3>1. ASSUME NEW k \in 1..Len(runs[i]) PROVE told[parsed[i][k]] = truth[runs[i][k]]
      <4>1. told[parsed[i][k]] = Told(parsed[i][k]) /\ truth[runs[i][k]] = TrueRole(runs[i][k])
        BY <1>3, <1>6
      <4>2. Told(parsed[i][k]) = TrueRole(runs[i][k])  BY <1>4 DEF TellsRun
      <4> QED BY <4>1, <4>2
    <3> QED BY <1>6, <3>1
  <2> QED BY <1>7, <2>1
<1>11. FlattenSeq(parsed) \in Seq(A)  BY <1>7, FlattenProperties
<1>12. ToldAll(FlattenSeq(parsed)) = [j \in 1..Len(FlattenSeq(parsed)) |-> told[FlattenSeq(parsed)[j]]]
  <2> DEFINE flat == FlattenSeq(parsed)
  <2> HIDE DEF flat
  <2>1. flat \in Seq(A) /\ DOMAIN flat = 1..Len(flat)  BY <1>11, LenProperties DEF flat
  <2>2. \A j \in 1..Len(flat) : flat[j] \in A  BY <2>1, ElementOfSeq
  <2>3. ToldAll(flat) = [j \in 1..Len(flat) |-> told[flat[j]]]  BY <2>1, <2>2 DEF ToldAll
  <2> QED BY <2>3 DEF flat
<1>13. [j \in 1..Len(roles) |-> truth[roles[j]]] = [j \in 1..Len(roles) |-> TrueRole(roles[j])]
  <2>1. \A j \in 1..Len(roles) : roles[j] \in R  BY ElementOfSeq
  <2> QED BY <2>1
<1> HIDE DEF told, truth
<1> QED BY <1>2, <1>5, <1>8, <1>9, <1>10, <1>12, <1>13

--------
(* The entities of a career in the typed tiers, in order. *)

\* Positions and schools are found behind anything else.
LEMMA HistoryIsFound ==
    ASSUME NEW type \in HistoryTypes, NEW S, NEW others \in Seq(S), NEW entities \in Seq(S),
           \A i \in 1..Len(others) : others[i].type \in OtherEntities,
           \A i \in 1..Len(entities) : entities[i].type = NamedType(type)
    PROVE  ByType(others \o entities, {type}) = entities
<1> DEFINE W == {"Position", "Education"}
<1>1. "Group" \notin W /\ "Profile" \notin W /\ "Card" \notin W  OBVIOUS
<1>2. PICK w \in W : type = <<w>>  BY DEF HistoryTypes
<1> HIDE DEF W
<1>3. type \in Seq(W) /\ type # <<>>  BY <1>2
<1>4. IsSuffix(type, NamedType(type)) /\ \A i \in 1..Len(others) : ~IsSuffix(type, others[i].type)
  BY <1>1, <1>3, OthersAreOther
<1> QED BY <1>4, ByTypeBehind

\* A record whose range is said to be given.
LEMMA SaidToBeGiven ==
    ASSUME NEW g, NEW start, NEW end
    PROVE  [[given |-> g, start |-> start, end |-> end] EXCEPT !.given = TRUE]
             = [given |-> TRUE, start |-> start, end |-> end]
<1> DEFINE old == [given |-> g, start |-> start, end |-> end]
           new == [old EXCEPT !["given"] = TRUE]
           raw == [given |-> TRUE, start |-> start, end |-> end]
           D == {"given", "start", "end"}
<1>1. /\ DOMAIN old = D /\ old["start"] = start /\ old["end"] = end
      /\ old = [x \in DOMAIN old |-> old[x]]  OBVIOUS
<1> HIDE DEF old
<1>2. DOMAIN new = D /\ new = [x \in DOMAIN new |-> new[x]]  BY <1>1
<1>3. new["given"] = TRUE /\ new["start"] = start /\ new["end"] = end  BY <1>1
<1>4. /\ DOMAIN raw = D /\ raw = [x \in DOMAIN raw |-> raw[x]]
      /\ raw["given"] = TRUE /\ raw["start"] = start /\ raw["end"] = end  OBVIOUS
<1> SUFFICES new = raw  BY DEF old
<1> HIDE DEF new, raw
<1>5. \A x \in D : new[x] = raw[x]  BY <1>3, <1>4
<1> QED BY <1>2, <1>4, <1>5

\* A period is read from the range of a typed entity, in both tiers.
LEMMA PeriodOfEntity ==
    ASSUME NEW item, IsPeriod(item),
           NEW e, e.range = [given |-> item.start.given, start |-> item.start, end |-> item.end]
    PROVE  DashRange(e) = TrueRange(item) /\ RestRange(e) = TrueRange(item)
<1> DEFINE raw == [given |-> TRUE, start |-> item.start, end |-> item.end]
<1>1. item.start.given = TRUE  BY GivenDates DEF IsPeriod
<1>2. e.range = raw  BY <1>1
<1>3. [e.range EXCEPT !.given = TRUE] = raw  BY SaidToBeGiven
<1>4. StructuredRange(raw) = TrueRange(item)  BY PeriodIsRead
<1> QED BY <1>2, <1>3, <1>4 DEF DashRange, RestRange

\* The text of one field is that field.
LEMMA TextOfField ==
    ASSUME NEW e, NEW name, NEW W, Field(e, name) \in Seq(W)
    PROVE  Text(e, <<name>>) = Field(e, name)
<1> DEFINE names == <<name>>
           words == Field(e, name)
<1>1. names \in Seq({name}) /\ names # <<>> /\ names[1] = name /\ Len(names) = 1  OBVIOUS
<1> HIDE DEF names, words
<1>2. words \in Seq(W) /\ Field(e, names[1]) = words  BY <1>1 DEF words
<1>3. CASE words # <<>>
  <2>1. Text(e, names) = words  BY <1>1, <1>2, <1>3, TextOfFirst
  <2> QED BY <2>1 DEF names, words
<1>4. CASE words = <<>>
  <2>1. \A i \in 1..Len(names) : Field(e, names[i]) = <<>>  BY <1>1, <1>2, <1>4
  <2>2. Text(e, names) = <<>>  BY <1>1, <2>1, TextOfNone
  <2> QED BY <1>4, <2>2 DEF names, words
<1> QED BY <1>3, <1>4

\* A position of a typed tier is the role it stands for.
LEMMA PositionIsRead ==
    ASSUME NEW role, IsPeriod(role), NEW id, NEW e,
           e = Typed(<<"Position">>, id,
                     [f \in {"title", "companyName"} |->
                        IF f = "title" THEN <<role.title>> ELSE <<role.company>>],
                     role.start, role.end)
    PROVE  /\ TypedPosition(e, DashRange(e)) = TrueRole(role)
           /\ TypedPosition(e, RestRange(e)) = TrueRole(role)
           /\ e.type = NamedType(<<"Position">>)
<1>1. /\ e.fields = [f \in {"title", "companyName"} |->
                        IF f = "title" THEN <<role.title>> ELSE <<role.company>>]
      /\ e.range = [given |-> role.start.given, start |-> role.start, end |-> role.end]
      /\ e.type = NamedType(<<"Position">>)  BY DEF Typed, NamedType
<1>2. Field(e, "title") = <<role.title>> /\ Field(e, "companyName") = <<role.company>>
  BY <1>1 DEF Field
<1>3. Text(e, <<"title">>) = <<role.title>> /\ Text(e, <<"companyName">>) = <<role.company>>
  <2>1. /\ Field(e, "title") \in Seq({role.title})
        /\ Field(e, "companyName") \in Seq({role.company})
    <3>1. ASSUME NEW w PROVE <<w>> \in Seq({w})  OBVIOUS
    <3> QED BY <1>2, <3>1
  <2> QED BY <1>2, <2>1, TextOfField
<1>4. DashRange(e) = TrueRange(role) /\ RestRange(e) = TrueRange(role)  BY <1>1, PeriodOfEntity
<1> QED BY <1>1, <1>2, <1>3, <1>4 DEF TypedPosition, TrueRole

\* The positions of a career.
LEMMA PositionsOfRoles ==
    ASSUME NEW R, NEW roles \in Seq(R), \A role \in R : IsPeriod(role)
    PROVE  LET positions == AsPositions(roles)
           IN /\ positions \in Seq({positions[i] : i \in 1..Len(roles)})
              /\ Len(positions) = Len(roles)
              /\ \A i \in 1..Len(roles) :
                    /\ TypedPosition(positions[i], DashRange(positions[i])) = TrueRole(roles[i])
                    /\ TypedPosition(positions[i], RestRange(positions[i])) = TrueRole(roles[i])
                    /\ positions[i].type = NamedType(<<"Position">>)
<1> DEFINE n == Len(roles)
           positions == AsPositions(roles)
           P == {positions[i] : i \in 1..n}
           Entity(i) == Typed(<<"Position">>, i,
                              [f \in {"title", "companyName"} |->
                                 IF f = "title" THEN <<roles[i].title>> ELSE <<roles[i].company>>],
                              roles[i].start, roles[i].end)
<1>1. n \in Nat /\ DOMAIN roles = 1..n /\ \A i \in 1..n : roles[i] \in R
  BY LenProperties, ElementOfSeq
<1>2. positions = [i \in 1..n |-> Entity(i)]  BY <1>1 DEF AsPositions
<1> HIDE DEF positions
<1>3. positions \in Seq(P) /\ Len(positions) = n
  <2>1. positions \in [1..n -> P]  BY <1>2
  <2> HIDE DEF P, n
  <2> QED BY <1>1, <2>1, AList
<1>4. ASSUME NEW i \in 1..n
      PROVE  /\ TypedPosition(positions[i], DashRange(positions[i])) = TrueRole(roles[i])
             /\ TypedPosition(positions[i], RestRange(positions[i])) = TrueRole(roles[i])
             /\ positions[i].type = NamedType(<<"Position">>)
  <2> DEFINE role == roles[i]
             e == positions[i]
  <2>1. IsPeriod(role)  BY <1>1
  <2>2. e = Typed(<<"Position">>, i,
                  [f \in {"title", "companyName"} |->
                     IF f = "title" THEN <<role.title>> ELSE <<role.company>>],
                  role.start, role.end)  BY <1>2
  <2> HIDE DEF role, e
  <2>3. /\ TypedPosition(e, DashRange(e)) = TrueRole(role)
        /\ TypedPosition(e, RestRange(e)) = TrueRole(role)
        /\ e.type = NamedType(<<"Position">>)  BY <2>1, <2>2, PositionIsRead
  <2> QED BY <2>3 DEF role, e
<1> QED BY <1>3, <1>4 DEF positions

\* The REST reader, behind anything else, tells a career as it was.
LEMMA RestTellsCareer ==
    ASSUME NEW R, NEW roles \in Seq(R), \A role \in R : IsPeriod(role),
           NEW S, NEW others \in Seq(S), \A i \in 1..Len(others) : others[i].type \in OtherEntities
    PROVE  RestExperience(others \o AsPositions(roles)) = TrueCareer(roles)
<1> DEFINE n == Len(roles)
           positions == AsPositions(roles)
           P == {positions[i] : i \in 1..n}
           type == <<"Position">>
<1>1. /\ positions \in Seq(P) /\ Len(positions) = n
      /\ \A i \in 1..n : /\ TypedPosition(positions[i], RestRange(positions[i])) = TrueRole(roles[i])
                         /\ positions[i].type = NamedType(type)  BY PositionsOfRoles
<1> HIDE DEF positions, P
<1>2. others \in Seq(S \cup P) /\ positions \in Seq(S \cup P)  BY <1>1
<1>3. type \in HistoryTypes  BY DEF HistoryTypes
<1>4. ByType(others \o positions, {type}) = positions
  <2> HIDE DEF type
  <2> QED BY <1>1, <1>2, <1>3, HistoryIsFound
<1>5. DOMAIN positions = 1..n  BY <1>1, LenProperties
<1>6. RestExperience(others \o positions)
        = [i \in 1..n |-> TypedPosition(positions[i], RestRange(positions[i]))]
  BY <1>4, <1>5 DEF RestExperience
<1> QED BY <1>1, <1>6 DEF TrueCareer, positions

\* Every place in the order is taken.
LEMMA OrderIsFull ==
    ASSUME NEW n \in Nat, NEW order, IsOrder(order, n), NEW m \in 1..n
    PROVE  \E k \in 1..n : order[k] = m
<1> DEFINE A == 1..n
           taken == {order[k] : k \in A}
<1>1. IsFiniteSet(A) /\ Cardinality(A) = n  BY FS_Interval
<1>2. taken \subseteq A  BY DEF IsOrder
<1>3. IsFiniteSet(taken) /\ Cardinality(A) = Cardinality(taken)
  <2> DEFINE f == [k \in A |-> order[k]]
  <2>1. /\ f \in [A -> taken] /\ (\A x, y \in A : f[x] = f[y] => x = y)
        /\ \A z \in taken : \E x \in A : f[x] = z  BY DEF IsOrder
  <2> HIDE DEF f, taken, A
  <2> QED BY <1>1, <2>1, SameSize
<1>4. taken = A
  <2> HIDE DEF A, taken
  <2> QED BY <1>1, <1>2, <1>3, FS_Subset
<1>5. m \in taken  BY <1>4
<1> QED BY <1>5

\* As many come before a thing in the order as its place says.
LEMMA PlaceInOrder ==
    ASSUME NEW n \in Nat, NEW order, IsOrder(order, n), NEW k \in 1..n
    PROVE  Cardinality({i \in 1..n : order[i] < order[k]}) = order[k] - 1
<1> DEFINE o == order[k]
           A == {i \in 1..n : order[i] < order[k]}
           B == 1..(o - 1)
           f == [i \in A |-> order[i]]
<1>1. o \in 1..n /\ \A i \in 1..n : order[i] \in 1..n  BY DEF IsOrder
<1>2. f \in [A -> B] /\ \A x, y \in A : f[x] = f[y] => x = y
  <2>1. \A i \in A : order[i] \in B  BY <1>1
  <2>2. \A i, j \in 1..n : order[i] = order[j] => i = j  BY DEF IsOrder
  <2> HIDE DEF B
  <2> QED BY <2>1, <2>2
<1>3. ASSUME NEW z \in B PROVE \E x \in A : f[x] = z
  <2>1. z \in 1..n /\ z < o  BY <1>1
  <2>2. PICK x \in 1..n : order[x] = z  BY <2>1, OrderIsFull
  <2> QED BY <2>1, <2>2
<1>4. IsFiniteSet(A)
  <2>1. A \subseteq 1..n /\ IsFiniteSet(1..n)  BY FS_Interval
  <2> HIDE DEF A
  <2> QED BY <2>1, FS_Subset
<1> HIDE DEF A, f
<1>5. Cardinality(A) = Cardinality(B)
  <2> HIDE DEF B
  <2> QED BY <1>2, <1>3, <1>4, SameSize
<1>6. Cardinality(B) = o - 1
  <2> DEFINE b == o - 1
  <2>1. b \in Nat  BY <1>1
  <2> HIDE DEF b
  <2>2. Cardinality(1..b) = IF 1 > b THEN 0 ELSE b - 1 + 1  BY <2>1, FS_Interval
  <2>3. Cardinality(1..b) = b  BY <2>1, <2>2
  <2> QED BY <2>3 DEF b
<1> QED BY <1>5, <1>6 DEF A

\* Items whose starts are in some order are sorted into it.
LEMMA SortedByOrder ==
    ASSUME NEW S, NEW items \in Seq(S), NEW n \in Nat, Len(items) = n, NEW order, IsOrder(order, n),
           \A i, k \in 1..n : Recency(items[i]) > Recency(items[k]) <=> order[i] < order[k],
           \A i \in 1..n : Recency(items[i]) \in Int
    PROVE  /\ DOMAIN NewestFirst(items) = 1..n
           /\ NewestFirst(items) = [m \in 1..n |-> NewestFirst(items)[m]]
           /\ \A k \in 1..n : NewestFirst(items)[order[k]] = items[k]
<1> DEFINE Ahead(i, k) == \/ Recency(items[i]) > Recency(items[k])
                          \/ Recency(items[i]) = Recency(items[k]) /\ i < k
           Size(k) == Cardinality({i \in 1..n : Ahead(i, k)})
           sorted == [m \in 1..n |-> items[CHOOSE k \in 1..n : Size(k) = m - 1]]
<1>1. DOMAIN items = 1..n  BY LenProperties
<1>2. NewestFirst(items) = sorted  BY <1>1 DEF NewestFirst
<1>3. \A k \in 1..n : order[k] \in 1..n /\ \A i \in 1..n : order[i] = order[k] => i = k
  BY DEF IsOrder
<1>4. ASSUME NEW i \in 1..n, NEW k \in 1..n PROVE Ahead(i, k) <=> order[i] < order[k]
  <2>1. /\ Recency(items[i]) \in Int /\ Recency(items[k]) \in Int
        /\ Recency(items[i]) > Recency(items[k]) <=> order[i] < order[k]
        /\ Recency(items[k]) > Recency(items[i]) <=> order[k] < order[i]  OBVIOUS
  <2>2. /\ order[i] \in Nat /\ order[k] \in Nat /\ (order[i] = order[k] => i = k)
        /\ i \in Nat /\ k \in Nat  BY <1>3
  <2> QED BY <2>1, <2>2
<1>5. ASSUME NEW k \in 1..n PROVE Size(k) = order[k] - 1
  <2>1. {i \in 1..n : Ahead(i, k)} = {i \in 1..n : order[i] < order[k]}  BY <1>4
  <2> QED BY <2>1, PlaceInOrder
<1> HIDE DEF Size
<1>6. ASSUME NEW k \in 1..n PROVE sorted[order[k]] = items[k]
  <2> DEFINE m == order[k]
             c == CHOOSE j \in 1..n : Size(j) = m - 1
  <2>1. m \in 1..n  BY <1>3
  <2>2. Size(k) = m - 1  BY <1>5
  <2>3. c \in 1..n /\ Size(c) = m - 1  BY <2>2
  <2>4. order[c] - 1 = m - 1  BY <1>5, <2>3
  <2>5. order[c] \in Nat /\ m \in Nat  BY <1>3, <2>3
  <2>6. order[c] = order[k]  BY <2>4, <2>5
  <2>7. c = k  BY <1>3, <2>3, <2>6
  <2>8. sorted[m] = items[c]  BY <2>1
  <2> QED BY <2>7, <2>8
<1> HIDE DEF sorted
<1>7. DOMAIN sorted = 1..n /\ sorted = [m \in 1..n |-> sorted[m]]  BY DEF sorted
<1> QED BY <1>2, <1>6, <1>7

\* A later start is more recent.
LEMMA LaterIsMoreRecent ==
    ASSUME NEW a, IsPeriod(a), NEW b, IsPeriod(b)
    PROVE  /\ Recency(TrueRole(a)) \in Int
           /\ Earlier(a.start, b.start) => Recency(TrueRole(b)) > Recency(TrueRole(a))
<1>1. ASSUME NEW r, IsPeriod(r)
      PROVE  /\ r.start.year \in Int /\ Or(r.start.month, 0) \in 0..12
             /\ Recency(TrueRole(r)) = 13 * r.start.year + Or(r.start.month, 0)
  <2>1. r.start \in Dates /\ Known(r.start.year)  BY <1>1 DEF IsPeriod, IsDay
  <2>2. r.start.year \in Int /\ r.start.month \in {Absent} \cup 1..12  BY <2>1 DEF Dates
  <2>3. Or(r.start.month, 0) \in 0..12  BY <2>2 DEF Or, Known, Absent
  <2>4. TrueRole(r).dates.start = r.start  BY DEF TrueRole, TrueRange, MakeRange, NoRange
  <2>5. Recency(TrueRole(r)) = 13 * Or(r.start.year, 0) + Or(r.start.month, 0)
    BY <2>4 DEF Recency
  <2>6. Or(r.start.year, 0) = r.start.year  BY <2>1 DEF Or
  <2> QED BY <2>2, <2>3, <2>5, <2>6
<1>2. /\ a.start.year \in Int /\ Or(a.start.month, 0) \in 0..12
      /\ Recency(TrueRole(a)) = 13 * a.start.year + Or(a.start.month, 0)
      /\ b.start.year \in Int /\ Or(b.start.month, 0) \in 0..12
      /\ Recency(TrueRole(b)) = 13 * b.start.year + Or(b.start.month, 0)  BY <1>1
<1> QED BY <1>2 DEF Earlier

\* A response that begins with the subject has one.
LEMMA BehindSubject ==
    ASSUME NEW S, NEW rest \in Seq(S)
    PROVE  Subject(<<SubjectEntity>> \o rest) # <<>>
<1> DEFINE T == S \cup {SubjectEntity}
           one == <<SubjectEntity>>
           included == one \o rest
<1>1. one \in Seq(T) /\ rest \in Seq(T) /\ Len(one) = 1 /\ one[1] = SubjectEntity /\ Len(rest) \in Nat
  BY LenProperties
<1> HIDE DEF T, one
<1>2. /\ included \in Seq(T) /\ Len(included) = Len(one) + Len(rest)
      /\ \A i \in 1..(Len(one) + Len(rest)) :
            included[i] = IF i <= Len(one) THEN one[i] ELSE rest[i - Len(one)]
  BY <1>1, ConcatProperties
<1> HIDE DEF included
<1>3. included # <<>> /\ included[1] = SubjectEntity  BY <1>1, <1>2
<1>4. Subject(included) = <<SubjectEntity>>  BY <1>2, <1>3, SubjectIsFound
<1> QED BY <1>4 DEF included, one

\* The roles of a career, sorted by their starts, are in their order.
LEMMA CareerIsSorted ==
    ASSUME NEW R, NEW roles, IsCareer(roles, R), NEW order, IsOrder(order, Len(roles))
    PROVE  NewestFirst([i \in 1..Len(roles) |-> TrueRole(roles[order[i]])]) = TrueCareer(roles)
<1> DEFINE n == Len(roles)
           items == [i \in 1..n |-> TrueRole(roles[order[i]])]
           S == {TrueRole(role) : role \in R}
           truth == TrueCareer(roles)
<1>1. /\ n \in Nat /\ \A i \in 1..n : roles[i] \in R /\ IsPeriod(roles[i])
      /\ \A i, k \in 1..n : i < k => Earlier(roles[k].start, roles[i].start)
  BY LenProperties, ElementOfSeq DEF IsCareer
<1>2. /\ \A i \in 1..n : order[i] \in 1..n
      /\ \A i, k \in 1..n : order[i] = order[k] => i = k  BY DEF IsOrder
<1>3. ASSUME NEW i \in 1..n, NEW k \in 1..n, i < k
      PROVE  Recency(TrueRole(roles[i])) > Recency(TrueRole(roles[k]))
  <2>1. IsPeriod(roles[i]) /\ IsPeriod(roles[k]) /\ Earlier(roles[k].start, roles[i].start)
    BY <1>1, <1>3
  <2> QED BY <2>1, LaterIsMoreRecent
<1>4. ASSUME NEW i \in 1..n PROVE Recency(TrueRole(roles[i])) \in Int
  BY <1>1, LaterIsMoreRecent
<1>5. \A i, k \in 1..n : Recency(TrueRole(roles[i])) > Recency(TrueRole(roles[k])) <=> i < k
  <2> SUFFICES ASSUME NEW i \in 1..n, NEW k \in 1..n
               PROVE  Recency(TrueRole(roles[i])) > Recency(TrueRole(roles[k])) <=> i < k
    OBVIOUS
  <2>1. CASE i < k  BY <1>3, <2>1
  <2>2. CASE i = k  BY <1>4, <2>2
  <2>3. CASE k < i  BY <1>3, <1>4, <2>3
  <2> QED BY <1>1, <2>1, <2>2, <2>3
<1>6. items \in Seq(S) /\ Len(items) = n
  <2>1. items \in [1..n -> S]  BY <1>1, <1>2
  <2> HIDE DEF items, S, n
  <2> QED BY <1>1, <2>1, AList
<1>7. \A i \in 1..n : items[i] = TrueRole(roles[order[i]])  OBVIOUS
<1> HIDE DEF items, S, n
<1>8. /\ \A i, k \in 1..n : Recency(items[i]) > Recency(items[k]) <=> order[i] < order[k]
      /\ \A i \in 1..n : Recency(items[i]) \in Int  BY <1>2, <1>4, <1>5, <1>7, SMTT(30)
<1>9. IsOrder(order, n)  BY DEF n
<1>10. /\ DOMAIN NewestFirst(items) = 1..n
       /\ NewestFirst(items) = [m \in 1..n |-> NewestFirst(items)[m]]
       /\ \A k \in 1..n : NewestFirst(items)[order[k]] = items[k]
  BY <1>1, <1>6, <1>8, <1>9, SortedByOrder
<1>11. ASSUME NEW m \in 1..n PROVE NewestFirst(items)[m] = TrueRole(roles[m])
  <2>1. PICK k \in 1..n : order[k] = m  BY <1>1, <1>9, OrderIsFull
  <2> QED BY <1>7, <1>10, <2>1
<1>12. NewestFirst(items) = [m \in 1..n |-> TrueRole(roles[m])]  BY <1>10, <1>11
<1> QED BY <1>12 DEF TrueCareer, items, n

\* The dash reader tells a career as it was, in whatever order it gets the positions.
LEMMA DashTellsCareer ==
    ASSUME NEW R, NEW roles, IsCareer(roles, R), NEW order, IsOrder(order, Len(roles))
    PROVE  LET positions == AsPositions(roles)
               shuffled == Noise \o [i \in DOMAIN roles |-> positions[order[i]]]
           IN DashProfile(<<SubjectEntity>> \o shuffled, DashExperience) = TrueCareer(roles)
<1> DEFINE n == Len(roles)
           positions == AsPositions(roles)
           P == {positions[i] : i \in 1..n}
           mixed == [i \in 1..n |-> positions[order[i]]]
           type == <<"Position">>
           group == Noise[1]
           one == <<SubjectEntity>>
           two == <<SubjectEntity, group>>
           S == P \cup {SubjectEntity, group}
           included == one \o (Noise \o mixed)
<1>1. /\ n \in Nat /\ DOMAIN roles = 1..n /\ roles \in Seq(R)
      /\ \A role \in R : IsPeriod(role)  BY LenProperties DEF IsCareer
<1>2. /\ positions \in Seq(P) /\ Len(positions) = n
      /\ \A i \in 1..n : /\ TypedPosition(positions[i], DashRange(positions[i])) = TrueRole(roles[i])
                         /\ positions[i].type = NamedType(type)  BY <1>1, PositionsOfRoles
<1>3. \A i \in 1..n : order[i] \in 1..n  BY DEF IsOrder
<1> HIDE DEF positions
<1>4. mixed \in Seq(P) /\ Len(mixed) = n /\ DOMAIN mixed = 1..n
  <2>1. mixed \in [1..n -> P]  BY <1>3
  <2>2. DOMAIN mixed = 1..n  OBVIOUS
  <2> HIDE DEF mixed, P, n
  <2> QED BY <1>1, <2>1, <2>2, AList
<1>5. \A i \in 1..n : mixed[i] = positions[order[i]] /\ mixed[i].type = NamedType(type)
  BY <1>2, <1>3
<1>6. Noise = <<group>>  BY DEF Noise
<1> HIDE DEF mixed, P, group
<1>7. one \o Noise = two  BY <1>6, JoinedPair
<1>8. /\ one \in Seq(S) /\ Noise \in Seq(S) /\ two \in Seq(S) /\ mixed \in Seq(S)
      /\ Len(two) = 2 /\ two[1] = SubjectEntity /\ two[2] = group  BY <1>4, <1>6
<1> HIDE DEF S, one, two
<1>9. included = two \o mixed
  <2>1. (one \o Noise) \o mixed = one \o (Noise \o mixed)  BY <1>8, ConcatAssociative, SMTT(30)
  <2> QED BY <1>7, <2>1
<1>10. ByType(included, {type}) = mixed
  <2>1. \A i \in 1..Len(two) : two[i].type \in OtherEntities  BY <1>8 DEF OtherEntities, group
  <2>2. type \in HistoryTypes  BY DEF HistoryTypes
  <2>3. \A i \in 1..Len(mixed) : mixed[i].type = NamedType(type)  BY <1>4, <1>5
  <2> HIDE DEF type, included
  <2> QED BY <1>8, <1>9, <2>1, <2>2, <2>3, HistoryIsFound
<1>11. Subject(included) # <<>>
  <2> DEFINE rest == Noise \o mixed
  <2>1. rest \in Seq(S)  BY <1>8, ConcatProperties
  <2> HIDE DEF rest
  <2>2. Subject(<<SubjectEntity>> \o rest) # <<>>  BY <2>1, BehindSubject
  <2> QED BY <2>2 DEF rest, one
<1>12. [i \in DOMAIN mixed |-> TypedPosition(mixed[i], DashRange(mixed[i]))]
         = [i \in 1..n |-> TrueRole(roles[order[i]])]  BY <1>2, <1>3, <1>4, <1>5
<1>13. DashExperience(included) = TrueCareer(roles)
  <2>1. DashExperience(included)
          = NewestFirst([i \in DOMAIN mixed |-> TypedPosition(mixed[i], DashRange(mixed[i]))])
    BY <1>10 DEF DashExperience
  <2>2. NewestFirst([i \in 1..n |-> TrueRole(roles[order[i]])]) = TrueCareer(roles)
    BY CareerIsSorted
  <2> QED BY <1>12, <2>1, <2>2
<1>14. DashProfile(included, DashExperience) = TrueCareer(roles)
  BY <1>11, <1>13 DEF DashProfile
<1> QED BY <1>1, <1>14 DEF positions, mixed, one

\* That role is the one in the row's unnumbered columns.
LEMMA NewestIsPromoted ==
    ASSUME NEW R, NEW roles, IsCareer(roles, R), roles # <<>>
    PROVE  /\ ToFlat(TrueCareer(roles)).job = <<TrueCareer(roles)[NewestHeld(roles)]>>
           /\ ToFlat(TrueCareer(roles)).count = Len(roles)
<1> DEFINE n == Len(roles)
           truth == TrueCareer(roles)
           held == {i \in 1..n : ~roles[i].end.given}
           I == {i \in 1..Len(truth) : truth[i].dates.current}
           current == SelectInSeq(truth, LAMBDA job : job.dates.current)
<1>1. /\ n \in Nat /\ n # 0 /\ \A i \in 1..n : IsPeriod(roles[i])
  <2>1. roles \in Seq(R) /\ \A role \in R : IsPeriod(role)  BY DEF IsCareer
  <2> QED BY <2>1, LenProperties, EmptySeq, ElementOfSeq
<1>2. Len(truth) = n /\ \A i \in 1..n : truth[i] = TrueRole(roles[i])  BY <1>1 DEF TrueCareer
<1>3. truth # <<>> /\ Head(truth) = truth[1]  BY <1>1 DEF TrueCareer
<1> HIDE DEF truth
<1>4. \A i \in 1..n : truth[i].dates.current = ~roles[i].end.given
  <2>1. ASSUME NEW role PROVE TrueRole(role).dates.current = ~role.end.given
    <3> DEFINE over == role.end.given
               made == MakeRange(role.start, role.end, ~over)
    <3>3. ASSUME NEW N PROVE [made EXCEPT !.months = N].current = made.current
      BY DEF MakeRange, NoRange
    <3>4. TrueRole(role).dates = TrueRange(role)  BY DEF TrueRole
    <3>5. TrueRange(role).current = made.current  BY <3>3 DEF TrueRange
    <3>1. TrueRole(role).dates.current = made.current  BY <3>4, <3>5
    <3>2. made.current = ~over  BY DEF MakeRange, NoRange
    <3> QED BY <3>1, <3>2
  <2> QED BY <1>2, <2>1
<1>5. I = held  BY <1>2, <1>4
<1>6. current = IF I # {} THEN Min(I) ELSE 0  BY DEF SelectInSeq
<1> HIDE DEF current, I
<1>7. CASE held = {}
  <2>1. current = 0  BY <1>5, <1>6, <1>7
  <2>2. Promoted(truth) = <<truth[1]>>  BY <1>3, <2>1 DEF Promoted, current
  <2>3. NewestHeld(roles) = 1  BY <1>7 DEF NewestHeld
  <2> QED BY <1>2, <2>2, <2>3 DEF ToFlat, truth
<1>8. CASE held # {}
  <2> HIDE DEF held
  <2>1. held \subseteq Nat /\ held \subseteq 1..n  BY <1>1 DEF held
  <2>2. PICK p \in held : \A k \in held : p <= k  BY <1>8, <2>1, LeastNumber
  <2>3. Min(held) = p  BY <2>1, <2>2, Least
  <2>4. current = p /\ p # 0  BY <1>1, <1>5, <1>6, <1>8, <2>1, <2>3
  <2>5. Promoted(truth) = <<truth[p]>>  BY <2>4 DEF Promoted, current
  <2>6. NewestHeld(roles) = p
    <3>1. NewestHeld(roles) = CHOOSE i \in held : \A k \in held : i <= k
      BY <1>8 DEF NewestHeld, held
    <3>2. \A i \in held : (\A k \in held : i <= k) => i = p  BY <2>1, <2>2
    <3> QED BY <2>2, <3>1, <3>2
  <2> QED BY <1>2, <2>5, <2>6 DEF ToFlat, truth
<1> QED BY <1>7, <1>8

--------
(* A career in every tier, and in the row for spreadsheets. *)

\* What is told of a career is all of it.
LEMMA CareerIsTold ==
    ASSUME NEW R, NEW roles \in Seq(R)
    PROVE  ToldAll(TrueCareer(roles)) = TrueCareer(roles)
<1> DEFINE n == Len(roles)
           truth == TrueCareer(roles)
<1>1. ASSUME NEW role PROVE Told(TrueRole(role)) = TrueRole(role)
  <2> DEFINE dates == TrueRange(role)
             given == [title |-> <<role.title>>, company |-> <<role.company>>, dates |-> dates]
  <2> HIDE DEF dates
  <2>1. Told(given) = given  BY DEF Told
  <2> QED BY <2>1 DEF TrueRole, dates
<1>2. DOMAIN truth = 1..n /\ \A i \in 1..n : truth[i] = TrueRole(roles[i])  BY DEF TrueCareer
<1>3. [i \in 1..n |-> Told(truth[i])] = [i \in 1..n |-> TrueRole(roles[i])]  BY <1>1, <1>2
<1> HIDE DEF truth
<1>4. ToldAll(truth) = [i \in 1..n |-> TrueRole(roles[i])]  BY <1>2, <1>3 DEF ToldAll
<1> QED BY <1>4 DEF truth, TrueCareer

\* The reader of an older page tells a career, with its entities and without.
LEMMA PageTellsCareer ==
    ASSUME NEW R, NEW roles \in Seq(R), roles # <<>>, \A role \in R : IsPeriod(role)
    PROVE  LET card == <<AsCareerCard(roles)>>
           IN /\ HtmlSection(card \o Noise \o AsPositions(roles), RestExperience, ParseExperience)
                   = TrueCareer(roles)
              /\ ToldAll(HtmlSection(card, RestExperience, ParseExperience)) = TrueCareer(roles)
<1> DEFINE card == <<AsCareerCard(roles)>>
           group == Noise[1]
           others == card \o Noise
           none == <<>>
           type == <<"Position">>
           S == {AsCareerCard(roles), group}
           truth == TrueCareer(roles)
<1>1. AsCareerCard(roles).type = <<"Profile", "Card">>  BY DEF AsCareerCard, CardOf, Card
<1>2. Noise = <<group>>  BY DEF Noise
<1>3. /\ AsCareerCard(roles).type \in OtherEntities
      /\ group.type \in OtherEntities  BY <1>1 DEF OtherEntities
<1>4. others = <<AsCareerCard(roles), group>>
  <2> HIDE DEF group
  <2> QED BY <1>2, JoinedPair
<1>5. /\ others \in Seq(S) /\ \A i \in 1..Len(others) : others[i].type \in OtherEntities
      /\ card \in Seq(S) /\ \A i \in 1..Len(card) : card[i].type \in OtherEntities
      /\ none \in Seq(S) /\ Len(none) = 0
  <2> DEFINE a == AsCareerCard(roles)
             both == <<a, group>>
             one == <<a>>
  <2> HIDE DEF a, group
  <2>1. /\ both \in Seq({a, group}) /\ one \in Seq({a, group})
        /\ \A i \in 1..Len(both) : both[i] \in {a, group}
        /\ \A i \in 1..Len(one) : one[i] \in {a, group}  OBVIOUS
  <2>2. none \in Seq({a, group}) /\ Len(none) = 0  OBVIOUS
  <2>3. a.type \in OtherEntities /\ group.type \in OtherEntities  BY <1>3 DEF a
  <2>4. others = both /\ card = one /\ S = {a, group}  BY <1>4 DEF a
  <2> HIDE DEF both, one, others, card, S, none
  <2>5. \A x \in {a, group} : x.type \in OtherEntities  BY <2>3
  <2> QED BY <2>1, <2>2, <2>4, <2>5
<1> HIDE DEF group
<1>6. truth # <<>>
  <2>1. Len(roles) # 0 /\ Len(roles) \in Nat  BY LenProperties, EmptySeq
  <2> QED BY <2>1 DEF TrueCareer
<1> HIDE DEF S, others, card, none, truth
<1>7. RestExperience(others \o AsPositions(roles)) = truth  BY <1>5, RestTellsCareer DEF truth
<1>8. HtmlSection(others \o AsPositions(roles), RestExperience, ParseExperience) = truth
  BY <1>6, <1>7 DEF HtmlSection, Orelse
<1>9. RestExperience(card) = <<>>
  <2>1. card \o none = card  BY <1>5, ConcatEmptySeq DEF none
  <2>2. type \in HistoryTypes  BY DEF HistoryTypes
  <2>3. \A i \in 1..Len(none) : none[i].type = NamedType(type)  BY <1>5
  <2>4. ByType(card \o none, {type}) = none
    <3> HIDE DEF type
    <3> QED BY <1>5, <2>2, <2>3, HistoryIsFound
  <2>5. ByType(card, {type}) = <<>>  BY <2>1, <2>4 DEF none
  <2> QED BY <2>5 DEF RestExperience
<1>10. ToldAll(ParseExperience(FlattenCards(card))) = truth
  BY CardTellsCareer DEF card, truth, TrueCareer
<1>11. ToldAll(HtmlSection(card, RestExperience, ParseExperience)) = truth
  BY <1>9, <1>10 DEF HtmlSection, Orelse
<1> QED BY <1>8, <1>11 DEF truth, others, card

\* It is the invariant, in this state and in the next.
LEMMA CareersAgreeInRead ==
    (CareersAgree <=> CareersAgreeIn(read)) /\ (CareersAgree' <=> CareersAgreeIn(read'))
<1>1. CareersAgree <=> CareersAgreeIn(read)
  BY DEF CareersAgree, CareersAgreeIn, CareerReadIn, TruthOf, NewestIn
<1>2. CareersAgree' <=> CareersAgreeIn(read')
  BY DEF CareersAgree, CareersAgreeIn, CareerReadIn, TruthOf, NewestIn
<1> QED BY <1>1, <1>2

\* Every tier tells a career as it was.
LEMMA CareerIsReadAlike ==
    ASSUME NEW R, NEW roles, IsCareer(roles, R), roles # <<>>,
           NEW order, IsOrder(order, Len(roles)), ReadCareer(roles, order)
    PROVE  CareersAgree'
<1> DEFINE n == Len(roles)
           truth == TrueCareer(roles)
<1>1. /\ roles \in Seq(R) /\ (\A role \in R : IsPeriod(role)) /\ n \in Nat /\ DOMAIN roles = 1..n
  BY LenProperties DEF IsCareer
<1>2. read'.kind = "career" /\ read'.roles = roles  BY DEF ReadCareer
<1>3. read'.dash = truth
  <2>1. LET positions == AsPositions(roles)
            shuffled == Noise \o [i \in DOMAIN roles |-> positions[order[i]]]
        IN DashProfile(<<SubjectEntity>> \o shuffled, DashExperience) = truth
    BY DashTellsCareer
  <2> QED BY <2>1 DEF ReadCareer
<1>4. read'.rest = truth
  <2>1. Noise \in Seq({Noise[1]}) /\ \A i \in 1..Len(Noise) : Noise[i].type \in OtherEntities
    <3> DEFINE group == Noise[1]
    <3>1. Noise = <<group>> /\ group.type \in OtherEntities  BY DEF Noise, OtherEntities
    <3> HIDE DEF group
    <3> QED BY <3>1
  <2>2. RestExperience(Noise \o AsPositions(roles)) = truth  BY <1>1, <2>1, RestTellsCareer
  <2> QED BY <2>2 DEF ReadCareer
<1>5. read'.card = truth
  <2>1. ToldAll(ParseExperience(FlattenCards(<<AsCareerCard(roles)>>))) = truth
    BY <1>1, CardTellsCareer DEF TrueCareer
  <2> QED BY <2>1 DEF ReadCareer
<1>6. read'.html = truth /\ read'.htmlCard = truth
  <2> DEFINE card == <<AsCareerCard(roles)>>
  <2>1. /\ HtmlSection(card \o Noise \o AsPositions(roles), RestExperience, ParseExperience) = truth
        /\ ToldAll(HtmlSection(card, RestExperience, ParseExperience)) = truth
    BY <1>1, PageTellsCareer
  <2>2. ToldAll(truth) = truth  BY <1>1, CareerIsTold
  <2> HIDE DEF truth
  <2> QED BY <2>1, <2>2 DEF ReadCareer
<1>7. ToFlat(truth).job = <<truth[NewestHeld(roles)]>> /\ ToFlat(truth).count = n
  BY NewestIsPromoted
<1>8. truth = TruthOf(roles)  BY <1>1 DEF TrueCareer, TrueRole, TruthOf
<1>9. NewestIn(roles) = NewestHeld(roles)
  <2>1. DOMAIN truth = 1..n  BY DEF TrueCareer
  <2> QED BY <1>8, <2>1 DEF NewestIn, NewestHeld
<1> HIDE DEF truth
<1>10. CareerReadIn(read', truth, NewestHeld(roles))
  BY <1>2, <1>3, <1>4, <1>5, <1>6, <1>7 DEF CareerReadIn
<1>11. CareersAgreeIn(read')  BY <1>2, <1>8, <1>9, <1>10 DEF CareersAgreeIn
<1> QED BY <1>11, CareersAgreeInRead

\* The careers of the model are careers as the lemmas take them.
LEMMA CareersAreCareers ==
    ASSUME NEW roles \in Careers
    PROVE  roles # <<>> /\ IsCareer(roles, {roles[i] : i \in 1..Len(roles)})
<1> DEFINE given == [title : {Word("title")}, company : Companies, start : ToSet(Days),
                     end : ToSet(Days) \cup {NoDate}]
           R == {roles[i] : i \in 1..Len(roles)}
<1>1. /\ \E n \in 1..MaxRoles : roles \in [1..n -> given]
      /\ \A i \in DOMAIN roles : roles[i].end.given => Span(roles[i].start, roles[i].end) > 0
      /\ \A i, k \in DOMAIN roles : i < k => Earlier(roles[k].start, roles[i].start)
  BY DEF Careers
<1> HIDE DEF given
<1>2. PICK n \in 1..MaxRoles : roles \in [1..n -> given]  BY <1>1
<1>3. n \in Nat /\ n # 0  OBVIOUS
<1>4. roles \in Seq(given) /\ Len(roles) = n /\ DOMAIN roles = 1..n  BY <1>2, <1>3, AList
<1>5. roles # <<>> /\ roles \in Seq(R)
  <2>1. roles \in [1..n -> R]  BY <1>2, <1>4
  <2> HIDE DEF R
  <2> QED BY <1>3, <1>4, <2>1, AList, EmptySeq
<1>6. \A day \in ToSet(Days) : IsDay(day) /\ Span(day, Today) > 0
  <2>1. ToSet(Days) = {Days[i] : i \in DOMAIN Days}  BY DEF ToSet
  <2>2. \A i \in DOMAIN Days : Days[i] \in Dates  BY DaysAssumption, LenProperties
  <2> QED BY <2>1, <2>2, DaysAssumption DEF IsDay
<1>7. ASSUME NEW i \in 1..n PROVE IsPeriod(roles[i])
  <2>1. roles[i].start \in ToSet(Days) /\ roles[i].end \in ToSet(Days) \cup {NoDate}
    BY <1>2 DEF given
  <2>2. IsDay(roles[i].start) /\ Span(roles[i].start, Today) > 0  BY <1>6, <2>1
  <2>3. CASE roles[i].end = NoDate  BY <2>2, <2>3 DEF IsPeriod
  <2>4. CASE roles[i].end \in ToSet(Days)
    <3>1. IsDay(roles[i].end)  BY <1>6, <2>4
    <3>2. Span(roles[i].start, roles[i].end) > 0  BY <1>1, <1>4, <3>1, GivenDates
    <3> QED BY <2>2, <3>1, <3>2 DEF IsPeriod
  <2> QED BY <2>1, <2>3, <2>4
<1>8. \A role \in R : IsPeriod(role)  BY <1>4, <1>7
<1>9. \A i, k \in 1..Len(roles) : i < k => Earlier(roles[k].start, roles[i].start)
  BY <1>1, <1>4
<1> QED BY <1>5, <1>8, <1>9 DEF IsCareer

\* Their orders too.
LEMMA OrdersAreOrders ==
    ASSUME NEW n, NEW order \in Orders(n)
    PROVE  IsOrder(order, n)
<1>1. order \in [1..n -> 1..n] /\ \A a, b \in DOMAIN order : order[a] = order[b] => a = b
  BY DEF Orders, IsInjective
<1> QED BY <1>1 DEF IsOrder

--------
(* A school in every tier. *)

\* Its dates come out of a caption and of a typed entity; REST needs them to be given.
LEMMA SchoolDatesAreRead ==
    ASSUME NEW W, NEW e, IsSchool(e, W),
           NEW entity, entity.range = [given |-> e.start.given, start |-> e.start, end |-> e.end]
    PROVE  /\ CaptionRange(AsCaption(e)) = SchoolDates(e)
           /\ DashRange(entity) = SchoolDates(e)
           /\ e.start.given => RestRange(entity) = SchoolDates(e)
<1>1. CASE IsPeriod(e)
  <2>1. e.start.given = TRUE  BY <1>1, GivenDates DEF IsPeriod
  <2>2. CaptionRange(AsCaption(e)) = TrueRange(e)  BY <1>1, PeriodIsRead
  <2>3. DashRange(entity) = TrueRange(e) /\ RestRange(entity) = TrueRange(e)
    BY <1>1, PeriodOfEntity
  <2> QED BY <2>1, <2>2, <2>3 DEF SchoolDates
<1>2. CASE e.start = NoDate /\ e.end = NoDate
  <2>1. e.start.given = FALSE  BY <1>2, GivenDates
  <2>2. SchoolDates(e) = NoRange  BY <2>1 DEF SchoolDates
  <2>3. CaptionRange(AsCaption(e)) = NoRange
    <3>1. AsCaption(e) = <<>>  BY <2>1 DEF AsCaption
    <3>2. CaptionRange(<<>>) = NoRange  BY DEF CaptionRange
    <3> QED BY <3>1, <3>2
  <2>4. DashRange(entity) = NoRange
    <3>1. entity.range.given = FALSE  BY <2>1
    <3> QED BY <3>1 DEF DashRange, StructuredRange
  <2> QED BY <2>1, <2>2, <2>3, <2>4
<1> QED BY <1>1, <1>2 DEF IsSchool

\* What was appended to a list comes off it again.
LEMMA AppendedLast ==
    ASSUME NEW S, NEW s \in Seq(S), NEW x \in S
    PROVE  /\ Front(Append(s, x)) = s /\ Last(Append(s, x)) = x /\ Len(Append(s, x)) = Len(s) + 1
<1> DEFINE t == Append(s, x)
<1>1. /\ t \in Seq(S) /\ Len(t) = Len(s) + 1 /\ t[Len(s) + 1] = x /\ Len(s) \in Nat
      /\ \A i \in 1..Len(s) : t[i] = s[i]  BY AppendProperties, LenProperties
<1>2. t # <<>>  BY <1>1, EmptySeq
<1> HIDE DEF t
<1>3. /\ Front(t) \in Seq(S) /\ Len(Front(t)) = Len(t) - 1
      /\ \A i \in 1..Len(Front(t)) : Front(t)[i] = t[i]  BY <1>1, <1>2, FrontAndLast
<1>4. Last(t) = x  BY <1>1 DEF Last
<1>5. Front(t) = s
  <2> DEFINE front == Front(t)
  <2>1. /\ front \in Seq(S) /\ Len(front) = Len(s) /\ \A i \in 1..Len(s) : front[i] = s[i]
    BY <1>1, <1>3
  <2> HIDE DEF front
  <2>2. front = s  BY <2>1, SeqEqual
  <2> QED BY <2>2 DEF front
<1> QED BY <1>1, <1>4, <1>5 DEF t

\* The field of study is split from the degree.
LEMMA DegreeIsSplit ==
    ASSUME NEW W, NEW e, IsSchool(e, W)
    PROVE  /\ SplitDegree(e.degree \o e.field).degree = e.degree
           /\ SplitDegree(e.degree \o e.field).field = e.field
<1>1. e.degree \in Seq(W) /\ (e.field = <<>> \/ \E w \in W : e.field = <<w>>)
  BY DEF IsSchool, AtMostOne
<1>2. CASE e.field = <<>>
  <2>1. e.degree \o <<>> = e.degree  BY <1>1, ConcatEmptySeq
  <2>2. Len(e.degree) < 2  BY <1>1, <1>2, LenProperties DEF IsSchool
  <2>3. SplitDegree(e.degree) = [degree |-> e.degree, field |-> <<>>]  BY <2>2 DEF SplitDegree
  <2> QED BY <1>2, <2>1, <2>3
<1>3. ASSUME NEW w \in W, e.field = <<w>>
      PROVE  /\ SplitDegree(e.degree \o e.field).degree = e.degree
             /\ SplitDegree(e.degree \o e.field).field = e.field
  <2> DEFINE words == Append(e.degree, w)
  <2>1. e.degree \o <<w>> = words  BY <1>1, AppendIsConcat
  <2>2. Front(words) = e.degree /\ Last(words) = w /\ Len(words) = Len(e.degree) + 1
    BY <1>1, AppendedLast
  <2>3. e.degree # <<>>  BY <1>3 DEF IsSchool
  <2> HIDE DEF words
  <2>4. ~(Len(words) < 2)  BY <1>1, <2>2, <2>3, LenProperties, EmptySeq
  <2>5. SplitDegree(words) = [degree |-> e.degree, field |-> <<w>>]
    BY <2>2, <2>4 DEF SplitDegree
  <2>6. e.degree \o e.field = words  BY <1>3, <2>1
  <2>7. SplitDegree(words).degree = e.degree /\ SplitDegree(words).field = <<w>>  BY <2>5
  <2> QED BY <1>3, <2>6, <2>7
<1> QED BY <1>1, <1>2, <1>3

\* A labelled text is a leaf, and all it adds is that text.
LEMMA LabelledLeaf ==
    ASSUME NEW t, t # NoText
    PROVE  /\ IsLeaf(TextNode(t)) /\ LeafTexts(TextNode(t)) = <<t>> /\ LeafFlats(TextNode(t)) = <<>>
<1> DEFINE leaf == TextNode(t)
           none == Slots(<<>>, <<>>, <<>>, <<>>)
           D == {<<>>} \cup UNION {{<<i>> \o q : q \in DOMAIN <<>>[i]} : i \in DOMAIN <<>>}
           root == [kind |-> "text", slots |-> none, urn |-> NoUrn, text |-> t, sub |-> Len(<<>>)]
<1>1. leaf = [p \in D |-> IF p # <<>> THEN <<>>[Head(p)][Tail(p)] ELSE root]
  BY DEF TextNode, Node
<1>2. D = {<<>>}  OBVIOUS
<1>3. root.kind = "text" /\ root.sub = 0 /\ root.text = t  OBVIOUS
<1> HIDE DEF D, root, leaf
<1>4. DOMAIN leaf = {<<>>} /\ leaf[<<>>] = root  BY <1>1, <1>2
<1>5. "text" # "entity"  OBVIOUS
<1>6. IsLeaf(leaf)  BY <1>3, <1>4, <1>5 DEF IsLeaf
<1>7. LeafTexts(leaf) = <<t>> /\ LeafFlats(leaf) = <<>>  BY <1>3, <1>4 DEF LeafTexts, LeafFlats
<1> QED BY <1>6, <1>7 DEF leaf

\* No grade, or one.
LEMMA GradeIsRead ==
    ASSUME NEW W, NEW e, IsSchool(e, W)
    PROVE  /\ Family(SchoolSlots(e), SchoolKids(e)) = SchoolFlat(e)
           /\ Labelled(GradeOn(e), "grade") = e.grade
           /\ \E T : SchoolKids(e) \in Seq(T) /\ \A t \in T : IsLeaf(t)
<1> DEFINE slots == SchoolSlots(e)
           kids == SchoolKids(e)
           texts == [k \in 1..Len(kids) |-> LeafTexts(kids[k])]
           flats == [k \in 1..Len(kids) |-> LeafFlats(kids[k])]
<1>1. e.grade = <<>> \/ \E g \in W : e.grade = <<g>>  BY DEF IsSchool, AtMostOne
<1>2. CASE e.grade = <<>>
  <2>1. kids = <<>> /\ GradeOn(e) = <<>>  BY <1>2 DEF SchoolKids, GradeOn
  <2>2. Len(kids) = 0  BY <2>1, LenProperties
  <2>3. texts = [k \in 1..0 |-> <<>>] /\ flats = [k \in 1..0 |-> <<>>]  BY <2>2
  <2>4. FlattenSeq([k \in 1..0 |-> <<>>]) = <<>>  BY FlattenNone
  <2>5. Family(slots, kids) = [slots |-> slots, urn |-> NoUrn, texts |-> <<>>, children |-> <<>>]
    BY <2>3, <2>4, DistinctNone DEF Family
  <2>6. Labelled(<<>>, "grade") = <<>>
    <3> DEFINE places == {i \in DOMAIN <<>> : <<>>[i].label = "grade"}
    <3>1. Filter(<<>>, LAMBDA t : t.label = "grade") = Keep(<<>>, places)  BY DEF Filter
    <3>2. <<>> \in Seq({}) /\ places \cap 1..Len(<<>>) = {}  OBVIOUS
    <3> HIDE DEF places
    <3>3. Keep(<<>>, places) = <<>>  BY <3>2, KeepNone
    <3> QED BY <3>1, <3>3 DEF Labelled
  <2>7. kids \in Seq({}) /\ \A t \in {} : IsLeaf(t)  BY <2>1
  <2> HIDE DEF kids, slots
  <2>8. Family(slots, kids) = SchoolFlat(e)  BY <2>1, <2>5 DEF SchoolFlat, slots
  <2> QED BY <1>2, <2>1, <2>6, <2>7, <2>8, SMTT(30) DEF kids, slots
<1>3. ASSUME NEW g \in W, e.grade = <<g>>
      PROVE  /\ Family(slots, kids) = SchoolFlat(e)
             /\ Labelled(GradeOn(e), "grade") = e.grade
             /\ \E T : kids \in Seq(T) /\ \A t \in T : IsLeaf(t)
  <2> DEFINE line == [label |-> "grade", text |-> g]
             leaf == TextNode(line)
             one == <<line>>
  <2>1. DOMAIN e.grade = 1..1 /\ e.grade[1] = g  BY <1>3
  <2>2. GradeOn(e) = one  BY <2>1 DEF GradeOn
  <2>3. kids = <<leaf>>
    <3>1. kids = [i \in 1..1 |-> leaf]  BY <2>1 DEF SchoolKids
    <3> HIDE DEF leaf, kids
    <3> QED BY <3>1
  <2>4. line # NoText /\ line.label = "grade" /\ line.text = g  BY DEF NoText
  <2> HIDE DEF line
  <2>5. IsLeaf(leaf) /\ LeafTexts(leaf) = one /\ LeafFlats(leaf) = <<>>  BY <2>4, LabelledLeaf
  <2> HIDE DEF leaf, kids
  <2>6. kids \in Seq({leaf}) /\ Len(kids) = 1 /\ kids[1] = leaf  BY <2>3
  <2>7. texts = <<one>> /\ flats = [k \in 1..1 |-> <<>>]
    <3>1. texts = [k \in 1..1 |-> one] /\ flats = [k \in 1..1 |-> <<>>]  BY <2>5, <2>6
    <3> HIDE DEF one, texts
    <3> QED BY <3>1
  <2>8. one \in Seq({line}) /\ Len(one) = 1 /\ DOMAIN one = 1..1 /\ one[1] = line  OBVIOUS
  <2> HIDE DEF one
  <2>9. FlattenSeq(<<one>>) = one /\ FlattenSeq([k \in 1..1 |-> <<>>]) = <<>>
    BY <2>8, FlattenOne, FlattenNone
  <2>10. Distinct(one) = one
    <3> DEFINE places == {i \in DOMAIN one : \A k \in 1..(i - 1) : one[k] # one[i]}
    <3>1. Distinct(one) = Keep(one, places)  BY DEF Distinct
    <3>2. \A i \in 1..Len(one) : i \in places  BY <2>8
    <3> HIDE DEF places
    <3> QED BY <2>8, <3>1, <3>2, KeepAll
  <2>11. Family(slots, kids) = [slots |-> slots, urn |-> NoUrn, texts |-> one, children |-> <<>>]
    BY <2>7, <2>9, <2>10 DEF Family
  <2>12. Labelled(one, "grade") = <<g>>
    <3> DEFINE places == {i \in DOMAIN one : one[i].label = "grade"}
    <3>1. Filter(one, LAMBDA t : t.label = "grade") = Keep(one, places)  BY DEF Filter
    <3>2. \A i \in 1..Len(one) : i \in places  BY <2>4, <2>8
    <3> HIDE DEF places
    <3>3. Keep(one, places) = one  BY <2>8, <3>2, KeepAll
    <3>4. one # <<>> /\ Last(one) = line  BY <2>8, EmptySeq, SMTT(30) DEF Last
    <3> QED BY <2>4, <3>1, <3>3, <3>4 DEF Labelled
  <2>13. kids \in Seq({leaf}) /\ \A t \in {leaf} : IsLeaf(t)  BY <2>5, <2>6
  <2>14. Family(slots, kids) = SchoolFlat(e)  BY <2>2, <2>11 DEF SchoolFlat
  <2> QED BY <1>3, <2>2, <2>12, <2>13, <2>14
<1> QED BY <1>1, <1>2, <1>3

\* The card of a school is flattened to that.
LEMMA SchoolCardIsRead ==
    ASSUME NEW W, NEW e, IsSchool(e, W)
    PROVE  FlattenCards(<<AsSchoolCard(e)>>) = <<SchoolFlat(e)>>
<1> DEFINE slots == SchoolSlots(e)
           kids == SchoolKids(e)
           own == <<slots>>
           below == <<kids>>
           nodes == [i \in 1..Len(own) |-> EntityNode(own[i], below[i])]
<1>1. "title" \in DOMAIN slots /\ slots.title # <<>>  BY DEF SchoolSlots, Slots
<1>2. PICK T : kids \in Seq(T) /\ \A t \in T : IsLeaf(t)  BY GradeIsRead
<1>3. Family(slots, kids) = SchoolFlat(e)  BY GradeIsRead
<1>4. AsSchoolCard(e) = CardOf(<<EntityNode(slots, kids)>>)
  BY DEF AsSchoolCard, SchoolSlots, SchoolKids
<1> HIDE DEF slots, kids
<1>5. /\ own \in Seq({slots}) /\ Len(own) = 1 /\ own[1] = slots
      /\ below \in Seq(Seq(T)) /\ Len(below) = 1 /\ below[1] = kids  BY <1>2
<1>6. nodes = <<EntityNode(slots, kids)>>
  <2> DEFINE node == EntityNode(slots, kids)
  <2>1. nodes = [i \in 1..1 |-> node]  BY <1>5
  <2> HIDE DEF node, nodes
  <2>2. nodes = <<node>>  BY <2>1
  <2> QED BY <2>2 DEF node
<1>7. [i \in 1..Len(own) |-> Family(own[i], below[i])] = <<SchoolFlat(e)>>
  <2> DEFINE flat == SchoolFlat(e)
             list == [i \in 1..Len(own) |-> Family(own[i], below[i])]
  <2>1. list = [i \in 1..1 |-> flat]  BY <1>3, <1>5
  <2> HIDE DEF flat, list
  <2>2. list = <<flat>>  BY <2>1
  <2> QED BY <2>2 DEF flat, list
<1>8. FlattenCards(<<CardOf(nodes)>>) = [i \in 1..Len(own) |-> Family(own[i], below[i])]
  <2> DEFINE S == {slots}
  <2> HIDE DEF S, own, below, nodes
  <2>1. /\ own \in Seq(S) /\ (\A t \in T : IsLeaf(t)) /\ below \in Seq(Seq(T))
        /\ Len(below) = Len(own)
        /\ \A i \in 1..Len(own) : "title" \in DOMAIN own[i] /\ own[i].title # <<>>
    BY <1>1, <1>2, <1>5 DEF S
  <2>2. FlattenCards(<<CardOf([i \in 1..Len(own) |-> EntityNode(own[i], below[i])])>>)
          = [i \in 1..Len(own) |-> Family(own[i], below[i])]
    <3>1. FamiliesRead(own, below)  BY <2>1, FamiliesAreRead
    <3> QED BY <3>1 DEF FamiliesRead, FamilyList
  <2> QED BY <2>2 DEF nodes
<1> QED BY <1>4, <1>6, <1>7, <1>8

\* The card of a school tells the truth.
LEMMA CardTellsSchool ==
    ASSUME NEW W, NEW e, IsSchool(e, W)
    PROVE  ToldSchools(ParseEducation(FlattenCards(<<AsSchoolCard(e)>>))) = <<TrueSchool(e)>>
<1> DEFINE flat == SchoolFlat(e)
           one == <<flat>>
           parsed == ParseEducation(one)
           split == SplitDegree(e.degree \o e.field)
<1>1. FlattenCards(<<AsSchoolCard(e)>>) = one  BY SchoolCardIsRead
<1>2. /\ flat.slots.title = <<e.school>> /\ flat.slots.subtitle = e.degree \o e.field
      /\ flat.slots.caption = AsCaption(e) /\ flat.texts = GradeOn(e)
  BY DEF SchoolFlat, SchoolSlots, Slots
<1>3. CaptionRange(AsCaption(e)) = SchoolDates(e)
  <2> DEFINE range == [given |-> e.start.given, start |-> e.start, end |-> e.end]
             entity == [range |-> range]
  <2>1. entity.range = range  OBVIOUS
  <2> HIDE DEF entity
  <2> QED BY <2>1, SchoolDatesAreRead
<1>4. split.degree = e.degree /\ split.field = e.field  BY DegreeIsSplit
<1>5. Labelled(GradeOn(e), "grade") = e.grade  BY GradeIsRead
<1> HIDE DEF flat, split
<1>6. one \in Seq({flat}) /\ Len(one) = 1 /\ DOMAIN one = 1..1 /\ one[1] = flat  OBVIOUS
<1> HIDE DEF one
<1>7. Shown(one) = one
  <2> DEFINE places == {i \in DOMAIN one :
                          one[i].slots.title # <<>> \/ one[i].slots.subtitle # <<>>}
  <2>1. Shown(one) = Keep(one, places)  BY DEF Shown, Filter
  <2>2. flat.slots.title # <<>>  BY <1>2
  <2>3. \A i \in 1..Len(one) : i \in places  BY <1>6, <2>2
  <2> HIDE DEF places
  <2> QED BY <1>6, <2>1, <2>3, KeepAll
<1>8. /\ DOMAIN parsed = 1..1 /\ parsed[1].school = flat.slots.title
      /\ parsed[1].degree = SplitDegree(flat.slots.subtitle).degree
      /\ parsed[1].field = SplitDegree(flat.slots.subtitle).field
      /\ parsed[1].grade = Labelled(flat.texts, "grade")
      /\ parsed[1].dates = CaptionRange(flat.slots.caption)
  <2> DEFINE told(entity) ==
               LET cut == SplitDegree(entity.slots.subtitle)
                   texts == entity.texts
               IN [school |-> entity.slots.title,
                   degree |-> cut.degree, field |-> cut.field,
                   grade |-> Labelled(texts, "grade"),
                   activities |-> Labelled(texts, "activities"),
                   description |-> Filter(texts, LAMBDA t : t.label = "none"),
                   dates |-> CaptionRange(entity.slots.caption)]
  <2>1. parsed = [i \in DOMAIN one |-> told(one[i])]  BY <1>7 DEF ParseEducation
  <2>2. /\ told(flat).school = flat.slots.title
        /\ told(flat).degree = SplitDegree(flat.slots.subtitle).degree
        /\ told(flat).field = SplitDegree(flat.slots.subtitle).field
        /\ told(flat).grade = Labelled(flat.texts, "grade")
        /\ told(flat).dates = CaptionRange(flat.slots.caption)  OBVIOUS
  <2> HIDE DEF told, parsed
  <2>3. DOMAIN parsed = 1..1 /\ parsed[1] = told(flat)  BY <1>6, <2>1
  <2> QED BY <2>2, <2>3
<1>9. /\ parsed[1].school = <<e.school>> /\ parsed[1].degree = e.degree /\ parsed[1].field = e.field
      /\ parsed[1].grade = e.grade /\ parsed[1].dates = SchoolDates(e)
  BY <1>2, <1>3, <1>4, <1>5, <1>8 DEF split
<1> HIDE DEF parsed
<1>10. ToldSchools(parsed) = <<TrueSchool(e)>>
  <2> DEFINE fields == {"school", "degree", "field", "grade", "dates"}
             told(school) == [f \in fields |-> school[f]]
  <2>1. ToldSchools(parsed) = [i \in 1..1 |-> told(parsed[i])]  BY <1>8 DEF ToldSchools
  <2> DEFINE true == TrueSchool(e)
  <2>2. told(parsed[1]) = true
    <3>1. \A f \in fields : parsed[1][f] = true[f]  BY <1>9 DEF TrueSchool
    <3>2. true = [f \in fields |-> true[f]]  BY DEF TrueSchool
    <3> QED BY <3>1, <3>2
  <2> HIDE DEF told, true
  <2>3. ToldSchools(parsed) = [i \in 1..1 |-> true]  BY <2>1, <2>2
  <2>4. [i \in 1..1 |-> true] = <<true>>  OBVIOUS
  <2> QED BY <2>3, <2>4 DEF true
<1> QED BY <1>1, <1>10 DEF parsed

\* The typed entity of a school tells the truth too.
LEMMA EntityTellsSchool ==
    ASSUME NEW W, NEW e, IsSchool(e, W), NEW id
    PROVE  /\ TypedEducation(AsSchool(e, id), DashRange(AsSchool(e, id))) = TrueSchool(e)
           /\ e.start.given =>
                 TypedEducation(AsSchool(e, id), RestRange(AsSchool(e, id))) = TrueSchool(e)
           /\ AsSchool(e, id).type = NamedType(<<"Education">>)
<1> DEFINE entity == AsSchool(e, id)
           G == {"schoolName", "degreeName", "fieldOfStudy", "grade"}
           fields == [f \in G |->
                        CASE f = "schoolName" -> <<e.school>> [] f = "degreeName" -> e.degree
                          [] f = "fieldOfStudy" -> e.field [] f = "grade" -> e.grade]
<1>1. /\ entity.fields = fields /\ entity.type = NamedType(<<"Education">>)
      /\ entity.range = [given |-> e.start.given, start |-> e.start, end |-> e.end]
  BY DEF AsSchool, Typed, NamedType
<1>2. /\ DOMAIN fields = G
      /\ fields["schoolName"] = <<e.school>> /\ fields["degreeName"] = e.degree
      /\ fields["fieldOfStudy"] = e.field /\ fields["grade"] = e.grade  OBVIOUS
<1> HIDE DEF entity, fields
<1>3. /\ Field(entity, "schoolName") = <<e.school>> /\ Field(entity, "degreeName") = e.degree
      /\ Field(entity, "fieldOfStudy") = e.field /\ Field(entity, "grade") = e.grade
  BY <1>1, <1>2 DEF Field
<1>4. /\ <<e.school>> \in Seq({e.school}) /\ e.degree \in Seq(W) /\ e.field \in Seq(W)
      /\ e.grade \in Seq(W)
  <2>1. ASSUME NEW w PROVE <<w>> \in Seq({w})  OBVIOUS
  <2>2. ASSUME NEW A, NEW s \in AtMostOne(A) PROVE s \in Seq(A)
    <3>1. s = <<>> \/ \E a \in A : s = <<a>>  BY DEF AtMostOne
    <3>2. ASSUME NEW a \in A, s = <<a>> PROVE s \in Seq(A)  BY <3>2
    <3>3. <<>> \in Seq(A)  OBVIOUS
    <3> QED BY <3>1, <3>2, <3>3
  <2> QED BY <2>1, <2>2 DEF IsSchool
<1>5. Text(entity, <<"schoolName">>) = <<e.school>>  BY <1>3, <1>4, TextOfField
<1>6. Text(entity, <<"degreeName">>) = e.degree  BY <1>3, <1>4, TextOfField
<1>7. Text(entity, <<"fieldOfStudy">>) = e.field  BY <1>3, <1>4, TextOfField
<1>8. Text(entity, <<"grade">>) = e.grade  BY <1>3, <1>4, TextOfField
<1>9. /\ DashRange(entity) = SchoolDates(e)
      /\ e.start.given => RestRange(entity) = SchoolDates(e)  BY <1>1, SchoolDatesAreRead
<1>10. ASSUME NEW dates, dates = SchoolDates(e) PROVE TypedEducation(entity, dates) = TrueSchool(e)
  BY <1>5, <1>6, <1>7, <1>8, <1>10 DEF TypedEducation, TrueSchool
<1> QED BY <1>1, <1>9, <1>10 DEF entity

\* A single entry is sorted.
LEMMA OneIsSorted ==
    ASSUME NEW x, Recency(x) \in Int
    PROVE  NewestFirst(<<x>>) = <<x>>
<1> DEFINE items == <<x>>
           order == [i \in 1..1 |-> 1]
           sorted == NewestFirst(items)
<1>1. /\ items \in Seq({x}) /\ Len(items) = 1 /\ items[1] = x  OBVIOUS
<1>2. IsOrder(order, 1) /\ order[1] = 1  BY DEF IsOrder
<1> HIDE DEF items, order
<1>3. /\ \A i, k \in 1..1 : Recency(items[i]) > Recency(items[k]) <=> order[i] < order[k]
      /\ \A i \in 1..1 : Recency(items[i]) \in Int  BY <1>1, <1>2
<1>4. /\ DOMAIN sorted = 1..1 /\ sorted = [m \in 1..1 |-> sorted[m]]
      /\ \A k \in 1..1 : sorted[order[k]] = items[k]
  <2> DEFINE S == {x}
             n == 1
  <2>1. n = 1  OBVIOUS
  <2> HIDE DEF S, n, sorted
  <2>2. /\ items \in Seq(S) /\ n \in Nat /\ Len(items) = n /\ IsOrder(order, n)
        /\ \A i, k \in 1..n : Recency(items[i]) > Recency(items[k]) <=> order[i] < order[k]
        /\ \A i \in 1..n : Recency(items[i]) \in Int  BY <1>1, <1>2, <1>3, <2>1 DEF S
  <2>3. /\ DOMAIN NewestFirst(items) = 1..n
        /\ NewestFirst(items) = [m \in 1..n |-> NewestFirst(items)[m]]
        /\ \A k \in 1..n : NewestFirst(items)[order[k]] = items[k]  BY <2>2, SortedByOrder
  <2> QED BY <2>1, <2>3 DEF sorted
<1> HIDE DEF sorted
<1>5. sorted[1] = x  BY <1>1, <1>2, <1>4
<1>6. sorted = [m \in 1..1 |-> x]  BY <1>4, <1>5
<1>7. [m \in 1..1 |-> x] = <<x>>  OBVIOUS
<1> QED BY <1>6, <1>7 DEF sorted, items

\* The dash reader and REST tell of the one school there is.
LEMMA TiersTellSchool ==
    ASSUME NEW W, NEW e, IsSchool(e, W)
    PROVE  /\ DashProfile(<<SubjectEntity, AsSchool(e, 1)>>, DashEducation) = <<TrueSchool(e)>>
           /\ e.start.given => RestEducation(<<AsSchool(e, 1)>>) = <<TrueSchool(e)>>
<1> DEFINE entity == AsSchool(e, 1)
           one == <<entity>>
           subject == <<SubjectEntity>>
           none == <<>>
           type == <<"Education">>
           S == {entity, SubjectEntity}
           truth == TrueSchool(e)
<1>1. /\ TypedEducation(entity, DashRange(entity)) = truth
      /\ e.start.given => TypedEducation(entity, RestRange(entity)) = truth
      /\ entity.type = NamedType(type)  BY EntityTellsSchool
<1>2. Recency(truth) \in Int
  <2>1. truth.dates = SchoolDates(e)  BY DEF TrueSchool
  <2>2. CASE IsPeriod(e)
    <3>1. SchoolDates(e) = TrueRange(e)  BY <2>2, GivenDates DEF IsPeriod, SchoolDates
    <3>2. TrueRole([title |-> e, company |-> e, start |-> e.start, end |-> e.end]).dates = TrueRange(e)
      BY DEF TrueRole, TrueRange
    <3> DEFINE role == [title |-> e, company |-> e, start |-> e.start, end |-> e.end]
    <3>3. IsPeriod(role)  BY <2>2 DEF IsPeriod
    <3>4. Recency(TrueRole(role)) \in Int  BY <3>3, LaterIsMoreRecent
    <3> HIDE DEF truth
    <3> QED BY <2>1, <3>1, <3>2, <3>4 DEF Recency
  <2>3. CASE e.start = NoDate /\ e.end = NoDate
    <3>1. SchoolDates(e) = NoRange  BY <2>3, GivenDates DEF SchoolDates
    <3>2. NoRange.start.year = Absent /\ NoRange.start.month = Absent  BY DEF NoRange, NoDate
    <3> HIDE DEF truth
    <3>3. Recency(truth) = 13 * 0 + 0  BY <2>1, <3>1, <3>2 DEF Recency, Or, Known
    <3> QED BY <3>3
  <2> QED BY <2>2, <2>3 DEF IsSchool
<1> HIDE DEF entity, truth
<1>3. /\ one \in Seq(S) /\ Len(one) = 1 /\ DOMAIN one = 1..1 /\ one[1] = entity
      /\ none \in Seq(S) /\ Len(none) = 0  OBVIOUS
<1>4. subject \in Seq(S) /\ Len(subject) = 1 /\ subject[1] = SubjectEntity  OBVIOUS
<1>5. type \in HistoryTypes /\ SubjectEntity.type \in OtherEntities
  BY DEF HistoryTypes, OtherEntities
<1>6. \A i \in 1..Len(one) : one[i].type = NamedType(type)  BY <1>1, <1>3
<1>7. subject \o one = <<SubjectEntity, entity>>  BY JoinedPair
<1> HIDE DEF S, one, subject, none
<1>8. ByType(subject \o one, {type}) = one
  <2>1. \A i \in 1..Len(subject) : subject[i].type \in OtherEntities  BY <1>4, <1>5
  <2> HIDE DEF type
  <2> QED BY <1>3, <1>4, <1>5, <1>6, <2>1, HistoryIsFound
<1>9. ByType(one, {type}) = one
  <2>1. none \o one = one  BY <1>3, ConcatEmptySeq DEF none
  <2>2. \A i \in 1..Len(none) : none[i].type \in OtherEntities  BY <1>3
  <2>3. ByType(none \o one, {type}) = one
    <3> HIDE DEF type
    <3> QED BY <1>3, <1>5, <1>6, <2>2, HistoryIsFound
  <2> QED BY <2>1, <2>3
<1>10. Subject(subject \o one) # <<>>
  <2>1. Subject(<<SubjectEntity>> \o one) # <<>>  BY <1>3, BehindSubject
  <2> QED BY <2>1 DEF subject
<1>11. [i \in DOMAIN one |-> TypedEducation(one[i], DashRange(one[i]))] = <<truth>>
  <2> DEFINE list == [i \in DOMAIN one |-> TypedEducation(one[i], DashRange(one[i]))]
  <2>1. list = [i \in 1..1 |-> truth]  BY <1>1, <1>3
  <2>2. [i \in 1..1 |-> truth] = <<truth>>  OBVIOUS
  <2> QED BY <2>1, <2>2
<1>12. DashProfile(<<SubjectEntity, entity>>, DashEducation) = <<truth>>
  <2>1. DashEducation(subject \o one) = NewestFirst(<<truth>>)  BY <1>8, <1>11 DEF DashEducation
  <2>2. NewestFirst(<<truth>>) = <<truth>>  BY <1>2, OneIsSorted
  <2>3. DashProfile(subject \o one, DashEducation) = <<truth>>
    BY <1>10, <2>1, <2>2 DEF DashProfile
  <2> QED BY <1>7, <2>3
<1>13. ASSUME e.start.given PROVE RestEducation(one) = <<truth>>
  <2> DEFINE list == [i \in DOMAIN one |-> TypedEducation(one[i], RestRange(one[i]))]
  <2>1. list = [i \in 1..1 |-> truth]  BY <1>1, <1>3, <1>13
  <2>2. [i \in 1..1 |-> truth] = <<truth>>  OBVIOUS
  <2>3. RestEducation(one) = list  BY <1>9 DEF RestEducation
  <2> QED BY <2>1, <2>2, <2>3
<1> QED BY <1>12, <1>13 DEF entity, truth, one

\* HistoryAgrees is about what was read and nothing else.
LEMMA HistoryStays == HistoryAgrees /\ UNCHANGED read => HistoryAgrees'
<1> SUFFICES ASSUME HistoryAgrees, UNCHANGED read PROVE HistoryAgrees'  OBVIOUS
<1>1. CareersAgree'
  <2>1. CareersAgreeIn(read) /\ read' = read  BY CareersAgreeInRead DEF HistoryAgrees
  <2> QED BY <2>1, CareersAgreeInRead
<1>2. EducationsAgree'  BY DEF HistoryAgrees, EducationsAgree
<1> QED BY <1>1, <1>2 DEF HistoryAgrees

\* Every tier tells of a school as it was.
LEMMA EducationIsReadAlike ==
    ASSUME NEW W, NEW e, IsSchool(e, W), ReadEducation(e)
    PROVE  EducationsAgree'
<1> DEFINE truth == TrueSchool(e)
           one == <<truth>>
<1>1. read'.kind = "education" /\ read'.education = e  BY DEF ReadEducation
<1>2. read'.dash = one /\ (e.start.given => read'.rest = one)
  <2>1. /\ DashProfile(<<SubjectEntity, AsSchool(e, 1)>>, DashEducation) = one
        /\ e.start.given => RestEducation(<<AsSchool(e, 1)>>) = one  BY TiersTellSchool
  <2> HIDE DEF one
  <2> QED BY <2>1 DEF ReadEducation
<1>3. read'.card = one
  <2>1. ToldSchools(ParseEducation(FlattenCards(<<AsSchoolCard(e)>>))) = one  BY CardTellsSchool
  <2> HIDE DEF one
  <2> QED BY <2>1 DEF ReadEducation
<1>4. truth.degree = e.degree /\ truth.field = e.field  BY DEF TrueSchool
<1>5. one[1] = truth  OBVIOUS
<1> HIDE DEF truth, one
<1> QED BY <1>1, <1>2, <1>3, <1>4, <1>5 DEF EducationsAgree

\* The educations of the model are schools as the lemmas take them.
LEMMA EducationsAreSchools ==
    ASSUME NEW e \in Educations, ReadEducation(e)
    PROVE  \E W : IsSchool(e, W)
<1> DEFINE W == {Word("bsc"), Word("hons"), Word("physics"), "a"}
<1>1. /\ e.degree \in Lists({Word("bsc"), Word("hons")})
      /\ e.field \in AtMostOne({Word("physics")}) /\ e.grade \in AtMostOne({"a"})
      /\ e.start \in {NoDate, Days[1]} /\ e.end \in {NoDate, Days[2]}  BY DEF Educations
<1>2. e.degree \in Seq(W)
  <2> DEFINE D == {Word("bsc"), Word("hons")}
  <2>1. D \subseteq W  OBVIOUS
  <2> HIDE DEF D, W
  <2>2. e.degree \in Seq(D)  BY <1>1 DEF Lists, D
  <2> QED BY <2>1, <2>2
<1>3. e.field \in AtMostOne(W)  BY <1>1 DEF AtMostOne
<1>4. e.grade \in AtMostOne(W)  BY <1>1 DEF AtMostOne
<1>5. /\ e.field = <<>> => Len(e.degree) <= 1
      /\ e.field # <<>> => e.degree # <<>>
      /\ e.end.given => e.start.given  BY DEF ReadEducation
<1>6. (e.start = NoDate /\ e.end = NoDate) \/ IsPeriod(e)
  <2>1. CASE e.start = NoDate  BY <1>1, <1>5, <2>1, GivenDates, DaysAreDays
  <2>2. CASE e.start = Days[1]  BY <1>1, <2>2, DaysAreDays DEF IsPeriod
  <2> QED BY <1>1, <2>1, <2>2
<1> HIDE DEF W
<1>7. IsSchool(e, W)  BY <1>2, <1>3, <1>4, <1>5, <1>6 DEF IsSchool
<1> QED BY <1>7

\* What a person did at work and at school is told alike by the cards, by both typed
\* tiers and by an older page, and the spreadsheet's row promotes the newest role that is
\* still held: for whatever careers, employers, days and limits.
THEOREM HistoryIsReadAlike == Spec => []HistoryAgrees
<1>1. read = Idle => HistoryAgrees  BY DEF Idle, HistoryAgrees, CareersAgree, EducationsAgree
<1>2. ASSUME NEW roles \in Careers, NEW order \in Orders(Len(roles)), ReadCareer(roles, order)
      PROVE  CareersAgree'
  <2> DEFINE R == {roles[i] : i \in 1..Len(roles)}
  <2>1. roles # <<>> /\ IsCareer(roles, R)  BY CareersAreCareers
  <2>2. IsOrder(order, Len(roles))  BY OrdersAreOrders
  <2> HIDE DEF R
  <2> QED BY <1>2, <2>1, <2>2, CareerIsReadAlike
<1>3. ASSUME NEW e \in Educations, ReadEducation(e) PROVE EducationsAgree'
  <2>1. PICK W : IsSchool(e, W)  BY <1>3, EducationsAreSchools
  <2> QED BY <1>3, <2>1, EducationIsReadAlike
<1>4. ASSUME Next PROVE HistoryAgrees'
  <2>1. ASSUME read'.kind # "career" PROVE CareersAgree'  BY <2>1 DEF CareersAgree
  <2>2. ASSUME read'.kind # "education" PROVE EducationsAgree'  BY <2>2 DEF EducationsAgree
  <2>3. CareersAgree'  BY <1>2, <1>4, <2>1, Kinds DEF Next, Receive
  <2>4. EducationsAgree'  BY <1>3, <1>4, <2>2, Kinds DEF Next, Receive
  <2> QED BY <2>3, <2>4 DEF HistoryAgrees
<1> QED BY <1>1, <1>4, HistoryStays, PTL DEF Spec
=============================================================================
