------------------------- MODULE HistoryScanProofs -------------------------
(***************************************************************************)
(* Proofs about the history of runs, for any names, tokens, limits and     *)
(* ages: a cleanup plan adds up, and a scan profile is full.  Both rest on *)
(* what a walk, a sort and a cut do to a finite set of entries.            *)
(***************************************************************************)
EXTENDS HistoryScan, FiniteSetTheorems, FunctionTheorems, SequenceTheorems, TLAPS

(***************************************************************************)
(* The inductive invariant: no two runs have one token, so a walk meets    *)
(* every entry at a place of its own.                                      *)
(***************************************************************************)
OneRunPerToken == \A r, q \in runs : r.token = q.token => r = q

HistoryInv ==
  /\ runs \subseteq RunRecords /\ IsFiniteSet(runs)
  /\ roots \subseteq Tasks /\ IsFiniteSet(roots)
  /\ OneRunPerToken /\ PlanAddsUp

\* The members of a set that a name and a token tell apart.
Placed(S) ==
  /\ \A x \in S : x.task \in Nat /\ x.token \in Nat
  /\ \A x, y \in S : x.task = y.task /\ x.token = y.token => x = y

Least(m, n) == IF m < n THEN m ELSE n

LEMMA Numbers ==
  /\ Tasks \subseteq Nat /\ Tokens \subseteq Nat /\ Limits \subseteq Nat
  /\ DefaultLimit \in Nat /\ MaxOld \in Nat
  /\ 0 \notin Tasks /\ 0 \notin Tokens /\ 1 \notin Tokens
BY ScanAssumption DEF ScanAssumption

LEMMA PlacesAreFinite ==
  ASSUME NEW n \in Nat PROVE IsFiniteSet(1..n) /\ Cardinality(1..n) = n
BY FS_Interval

LEMMA LimitedNat == ASSUME NEW n \in Limits PROVE Limited(n) \in Nat
BY Numbers DEF Limited

LEMMA LeastIsMin ==
  ASSUME NEW m \in Nat, NEW n \in Nat
  PROVE  Min({m, n}) = Least(m, n)
<1> DEFINE IsMin(x) == \A y \in {m, n} : x =< y
<1>1. Least(m, n) \in {m, n} /\ IsMin(Least(m, n))
  BY DEF Least
<1>2. Min({m, n}) \in {m, n} /\ IsMin(Min({m, n}))
  <2>1. \E x \in {m, n} : IsMin(x)
    BY <1>1
  <2> QED BY <2>1 DEF Min
<1> QED BY <1>1, <1>2

(***************************************************************************)
(* A cut keeps the first places.                                           *)
(***************************************************************************)
Prefix(c, seq, n) == c = [i \in 1..n |-> seq[i]] /\ Len(c) = n

LEMMA CutIsPrefix ==
  ASSUME NEW A, NEW n \in Nat, NEW seq \in [1..n -> A], NEW limit \in Nat
  PROVE  Prefix(Cut(seq, limit), seq, Least(limit, n))
<1> DEFINE m == Least(limit, n)
<1>1. seq \in Seq(A) /\ Len(seq) = n
  OBVIOUS
<1>2. m \in Nat /\ m <= n
  BY DEF Least
<1>3. Cut(seq, limit) = SubSeq(seq, 1, m)
  BY <1>1 DEF Cut, Least
<1>4. \A i \in 1..m : seq[i] \in A
  BY <1>2
<1> HIDE DEF m
<1>5. /\ SubSeq(seq, 1, m) \in Seq(A) /\ Len(SubSeq(seq, 1, m)) = m
      /\ \A i \in 1..m : SubSeq(seq, 1, m)[i] = seq[i]
  <2>1. /\ SubSeq(seq, 1, m) \in Seq(A)
        /\ Len(SubSeq(seq, 1, m)) = IF 1 <= m THEN m - 1 + 1 ELSE 0
        /\ \A i \in 1..(m - 1 + 1) : SubSeq(seq, 1, m)[i] = seq[1 + i - 1]
    BY <1>2, <1>4, SubSeqProperties
  <2> QED BY <2>1, <1>2
<1>6. SubSeq(seq, 1, m) \in [1..m -> A]
  BY <1>5, LenProperties
<1> QED BY <1>3, <1>5, <1>6 DEF m, Prefix

(***************************************************************************)
(* A strict order of a finite set lists it: a member's place is the number *)
(* of those before it, and no two members have one place.                  *)
(***************************************************************************)
StrictOrder(S, R) ==
  /\ \A x \in S : <<x, x>> \notin R
  /\ \A x, y, z \in S : <<x, y>> \in R /\ <<y, z>> \in R => <<x, z>> \in R
  /\ \A x, y \in S : x # y => <<x, y>> \in R \/ <<y, x>> \in R

LEMMA Listable ==
  ASSUME NEW S, IsFiniteSet(S), NEW R, StrictOrder(S, R)
  PROVE  \E s \in Bijection(1..Cardinality(S), S) :
           \A i, j \in 1..Cardinality(S) : i < j => <<s[i], s[j]>> \in R
<1> DEFINE n == Cardinality(S)
           Before(x) == {y \in S : <<y, x>> \in R}
           place == [x \in S |-> Cardinality(Before(x)) + 1]
<1>1. n \in Nat /\ IsFiniteSet(1..n) /\ Cardinality(1..n) = n
  BY FS_CardinalityType, PlacesAreFinite
<1>2. \A x \in S : IsFiniteSet(Before(x)) /\ Cardinality(Before(x)) \in Nat
  <2> SUFFICES ASSUME NEW x \in S
               PROVE  IsFiniteSet(Before(x)) /\ Cardinality(Before(x)) \in Nat
    OBVIOUS
  <2>1. Before(x) \subseteq S
    OBVIOUS
  <2> HIDE DEF Before
  <2> QED BY <2>1, FS_Subset, FS_CardinalityType
<1>3. \A x, y \in S : <<x, y>> \in R => Cardinality(Before(x)) < Cardinality(Before(y))
  <2> SUFFICES ASSUME NEW x \in S, NEW y \in S, <<x, y>> \in R
               PROVE  Cardinality(Before(x)) < Cardinality(Before(y))
    OBVIOUS
  <2>1. Before(x) \subseteq Before(y) /\ x \in Before(y) /\ x \notin Before(x)
    BY DEF StrictOrder
  <2> HIDE DEF Before
  <2>2. /\ Cardinality(Before(x)) <= Cardinality(Before(y))
        /\ Cardinality(Before(x)) # Cardinality(Before(y))
    BY <1>2, <2>1, FS_Subset
  <2> QED BY <1>2, <2>2
<1>4. \A x \in S : Cardinality(Before(x)) + 1 \in 1..n
  <2> SUFFICES ASSUME NEW x \in S PROVE Cardinality(Before(x)) + 1 \in 1..n
    OBVIOUS
  <2>1. Before(x) \subseteq S /\ x \notin Before(x)
    BY DEF StrictOrder
  <2> HIDE DEF Before
  <2>2. Cardinality(Before(x)) <= n /\ Cardinality(Before(x)) # n
    BY <2>1, FS_Subset
  <2> QED BY <1>1, <1>2, <2>2
<1> HIDE DEF n, Before
<1>5. place \in Injection(S, 1..n)
  <2>1. place \in [S -> 1..n]
    BY <1>4
  <2>2. \A x, y \in S : place[x] = place[y] => x = y
    <3> SUFFICES ASSUME NEW x \in S, NEW y \in S, x # y PROVE place[x] # place[y]
      OBVIOUS
    <3>1. <<x, y>> \in R \/ <<y, x>> \in R
      BY DEF StrictOrder
    <3>2. Cardinality(Before(x)) # Cardinality(Before(y))
      BY <1>2, <1>3, <3>1
    <3> QED BY <1>2, <3>2
  <2> QED BY <2>1, <2>2, Fun_IsInj
<1>6. place \in Surjection(S, 1..n)
  BY <1>1, <1>5, FS_Injection DEF n
<1> HIDE DEF place
<1> DEFINE s == [i \in 1..n |-> CHOOSE x \in S : place[x] = i]
<1>7. \A i \in 1..n : s[i] \in S /\ place[s[i]] = i
  BY <1>6 DEF Surjection
<1> HIDE DEF s
<1>8. s \in [1..n -> S]
  BY <1>7 DEF s
<1>9. \A x \in S : place[x] \in 1..n /\ s[place[x]] = x
  <2>1. \A x \in S : place[x] \in 1..n
    BY <1>5 DEF Injection
  <2>2. \A x, y \in S : place[x] = place[y] => x = y
    BY <1>5 DEF Injection, IsInjective
  <2> QED BY <2>1, <2>2, <1>7
<1>10. s \in Bijection(1..n, S)
  <2>1. \A i, j \in 1..n : s[i] = s[j] => i = j
    BY <1>7
  <2>2. \A x \in S : \E i \in 1..n : s[i] = x
    BY <1>9
  <2> QED BY <1>8, <2>1, <2>2, Fun_IsBij
<1>11. ASSUME NEW i \in 1..n, NEW j \in 1..n, i < j PROVE <<s[i], s[j]>> \in R
  <2>1. place[s[i]] < place[s[j]] /\ s[i] \in S /\ s[j] \in S /\ s[i] # s[j]
    BY <1>7, <1>11, <1>1
  <2>2. <<s[j], s[i]>> \notin R
    BY <2>1, <1>3, <1>2 DEF place
  <2> QED BY <2>1, <2>2 DEF StrictOrder
<1> QED BY <1>10, <1>11 DEF n

\* Whatever lists a set in a strict order lists each member once.
LEMMA OrderedIsBijection ==
  ASSUME NEW S, IsFiniteSet(S), NEW R, StrictOrder(S, R),
         NEW s \in [1..Cardinality(S) -> S],
         \A i, j \in 1..Cardinality(S) : i < j => <<s[i], s[j]>> \in R
  PROVE  s \in Bijection(1..Cardinality(S), S)
<1> DEFINE n == Cardinality(S)
<1>1. n \in Nat /\ IsFiniteSet(1..n) /\ Cardinality(1..n) = n
  BY FS_CardinalityType, PlacesAreFinite
<1> HIDE DEF n
<1>2. \A i, j \in 1..n : s[i] = s[j] => i = j
  <2> SUFFICES ASSUME NEW i \in 1..n, NEW j \in 1..n, i # j PROVE s[i] # s[j]
    OBVIOUS
  <2>1. i < j \/ j < i
    BY <1>1
  <2> QED BY <2>1 DEF StrictOrder, n
<1>3. s \in Injection(1..n, S)
  BY <1>2, Fun_IsInj DEF n
<1>4. s \in Surjection(1..n, S)
  BY <1>1, <1>3, FS_Injection DEF n
<1> QED BY <1>3, <1>4 DEF Bijection, n

(***************************************************************************)
(* The three orders of the scanner list what they sort, each member once.  *)
(***************************************************************************)
LEMMA WalkIsBijection ==
  ASSUME NEW S, IsFiniteSet(S), Placed(S)
  PROVE  Sorted(S, WalkOrder) \in Bijection(1..Cardinality(S), S)
<1> DEFINE R == {p \in S \X S : WalkOrder(p[1], p[2])}
           Lists(s) == \A i, j \in DOMAIN s : i < j => WalkOrder(s[i], s[j])
<1>1. \A x, y \in S : <<x, y>> \in R <=> WalkOrder(x, y)
  OBVIOUS
<1>2. StrictOrder(S, R)
  <2> HIDE DEF R
  <2> QED BY <1>1 DEF StrictOrder, WalkOrder, Placed
<1> HIDE DEF R
<1>3. \E s \in [1..Cardinality(S) -> S] : Lists(s)
  <2>1. PICK t \in Bijection(1..Cardinality(S), S) :
               \A i, j \in 1..Cardinality(S) : i < j => <<t[i], t[j]>> \in R
    BY <1>2, Listable
  <2>2. t \in [1..Cardinality(S) -> S]
    BY <2>1 DEF Bijection, Injection
  <2> QED BY <1>1, <2>1, <2>2
<1>4. Sorted(S, WalkOrder) = CHOOSE s \in [1..Cardinality(S) -> S] : Lists(s)
  BY DEF Sorted
<1> HIDE DEF Lists
<1>5. Sorted(S, WalkOrder) \in [1..Cardinality(S) -> S] /\ Lists(Sorted(S, WalkOrder))
  BY <1>3, <1>4
<1> DEFINE s == Sorted(S, WalkOrder)
<1>6. s \in [1..Cardinality(S) -> S] /\ Lists(s)
  BY <1>5
<1> HIDE DEF s
<1>7. \A i, j \in 1..Cardinality(S) : i < j => <<s[i], s[j]>> \in R
  BY <1>1, <1>6 DEF Lists
<1> QED BY <1>2, <1>6, <1>7, OrderedIsBijection DEF s

\* Places that are ordered by their numbers, and then as they were.
LEMMA StableIsStrict ==
  ASSUME NEW n \in Nat, NEW token \in [1..n -> Nat], NEW R,
         \A i, j \in 1..n :
           <<i, j>> \in R <=> token[i] < token[j] \/ (token[i] = token[j] /\ i < j)
  PROVE  StrictOrder(1..n, R)
<1>1. \A i \in 1..n : token[i] \in Nat /\ i \in Nat
  OBVIOUS
<1> DEFINE S == 1..n
<1>2. \A i, j \in S :
        <<i, j>> \in R <=> token[i] < token[j] \/ (token[i] = token[j] /\ i < j)
  OBVIOUS
<1>3. \A i \in S : <<i, i>> \notin R
  BY <1>1, <1>2
<1>4. ASSUME NEW x \in S, NEW y \in S, NEW z \in S, <<x, y>> \in R, <<y, z>> \in R
      PROVE  <<x, z>> \in R
  <2>1. /\ token[x] < token[y] \/ (token[x] = token[y] /\ x < y)
        /\ token[y] < token[z] \/ (token[y] = token[z] /\ y < z)
    BY <1>2, <1>4
  <2>2. token[x] < token[z] \/ (token[x] = token[z] /\ x < z)
    BY <2>1, <1>1
  <2> QED BY <1>2, <2>2
<1>5. ASSUME NEW x \in S, NEW y \in S, x # y
      PROVE  <<x, y>> \in R \/ <<y, x>> \in R
  <2>1. \/ token[x] < token[y] \/ (token[x] = token[y] /\ x < y)
        \/ token[y] < token[x] \/ (token[y] = token[x] /\ y < x)
    BY <1>1, <1>5
  <2> QED BY <1>2, <2>1
<1> QED BY <1>3, <1>4, <1>5 DEF StrictOrder

\* Sorted by their tokens the entries are the same, at other places.
Rearranged(c, seq, n) ==
  \E o \in Bijection(1..n, 1..n) : c = [i \in 1..n |-> seq[o[i]]]

LEMMA ByTokenRearranges ==
  ASSUME NEW A, \A x \in A : x.token \in Nat,
         NEW n \in Nat, NEW seq \in [1..n -> A]
  PROVE  Rearranged(ByToken(seq), seq, n)
<1> DEFINE token == [i \in DOMAIN seq |-> seq[i].token]
           Earlier(i, j) == token[i] < token[j] \/ (token[i] = token[j] /\ i < j)
           S == 1..n
           R == {p \in S \X S : Earlier(p[1], p[2])}
           Lists(s) == \A i, j \in DOMAIN s : i < j => Earlier(s[i], s[j])
           o == Sorted(DOMAIN seq, Earlier)
<1>1. IsFiniteSet(S) /\ Cardinality(S) = n /\ DOMAIN seq = S
  BY PlacesAreFinite
<1>2. ByToken(seq) = [i \in S |-> seq[o[i]]]
  BY <1>1 DEF ByToken
<1>3. token \in [1..n -> Nat]
  OBVIOUS
<1>4. o = CHOOSE s \in [1..Cardinality(S) -> S] : Lists(s)
  BY <1>1 DEF Sorted
<1> HIDE DEF o, token
<1>5. \A x, y \in S : <<x, y>> \in R <=> Earlier(x, y)
  OBVIOUS
<1> HIDE DEF R
<1>6. StrictOrder(S, R)
  BY <1>3, <1>5, StableIsStrict
<1> HIDE DEF S, Earlier
<1>7. \E s \in [1..Cardinality(S) -> S] : Lists(s)
  <2>1. PICK t \in Bijection(1..Cardinality(S), S) :
               \A i, j \in 1..Cardinality(S) : i < j => <<t[i], t[j]>> \in R
    BY <1>1, <1>6, Listable
  <2>2. t \in [1..Cardinality(S) -> S]
    BY <2>1 DEF Bijection, Injection
  <2> QED BY <1>5, <2>1, <2>2
<1> HIDE DEF Lists
<1>8. o \in [1..Cardinality(S) -> S] /\ Lists(o)
  BY <1>4, <1>7
<1>9. \A i, j \in 1..Cardinality(S) : i < j => <<o[i], o[j]>> \in R
  BY <1>5, <1>8 DEF Lists
<1>10. o \in Bijection(1..Cardinality(S), S)
  BY <1>1, <1>6, <1>8, <1>9, OrderedIsBijection
<1> QED BY <1>1, <1>2, <1>10 DEF S, Rearranged

\* Candidates that have ids of their own.
Identified(S) ==
  /\ \A x \in S : x.id \in Nat \X Nat \X Nat
  /\ \A x, y \in S : x.id = y.id => x = y

LEMMA IdsAreBijection ==
  ASSUME NEW S, IsFiniteSet(S), Identified(S)
  PROVE  Sorted(S, IdOrder) \in Bijection(1..Cardinality(S), S)
<1> DEFINE R == {p \in S \X S : IdOrder(p[1], p[2])}
           Lists(s) == \A i, j \in DOMAIN s : i < j => IdOrder(s[i], s[j])
           s == Sorted(S, IdOrder)
<1>1. \A x, y \in S : <<x, y>> \in R <=> IdOrder(x, y)
  OBVIOUS
<1>2. StrictOrder(S, R)
  <2> HIDE DEF R
  <2>1. \A x, y \in S : x # y =>
          x.id[1] # y.id[1] \/ x.id[2] # y.id[2] \/ x.id[3] # y.id[3]
    BY DEF Identified
  <2>2. \A x \in S : x.id[1] \in Nat /\ x.id[2] \in Nat /\ x.id[3] \in Nat
    BY DEF Identified
  <2> QED BY <1>1, <2>1, <2>2 DEF StrictOrder, IdOrder
<1> HIDE DEF R
<1>3. \E t \in [1..Cardinality(S) -> S] : Lists(t)
  <2>1. PICK t \in Bijection(1..Cardinality(S), S) :
               \A i, j \in 1..Cardinality(S) : i < j => <<t[i], t[j]>> \in R
    BY <1>2, Listable
  <2>2. t \in [1..Cardinality(S) -> S]
    BY <2>1 DEF Bijection, Injection
  <2> QED BY <1>1, <2>1, <2>2
<1>4. s = CHOOSE t \in [1..Cardinality(S) -> S] : Lists(t)
  BY DEF Sorted
<1> HIDE DEF Lists, s
<1>6. s \in [1..Cardinality(S) -> S] /\ Lists(s)
  BY <1>3, <1>4
<1>7. \A i, j \in 1..Cardinality(S) : i < j => <<s[i], s[j]>> \in R
  BY <1>1, <1>6 DEF Lists
<1> QED BY <1>2, <1>6, <1>7, OrderedIsBijection DEF s

(***************************************************************************)
(* What readinessScan looks at: the runs, and the task directories that    *)
(* have none.  No two of them have both name and token in common.          *)
(***************************************************************************)
Looked == {RunEntry(r) : r \in Listed} \cup {OrphanEntry(t) : t \in Orphans}

LEMMA LookedIsPlaced ==
  ASSUME HistoryInv
  PROVE  /\ IsFiniteSet(Looked) /\ Placed(Looked) /\ IsFiniteSet(Orphans)
         /\ \A e \in Looked : e.status = "orphan" => e.task \in Orphans /\ e = OrphanEntry(e.task)
         /\ \A e \in Looked : e.status \in {"ok", "stale", "malformed", "orphan"}
<1> DEFINE A == {RunEntry(r) : r \in Listed}
           B == {OrphanEntry(t) : t \in Orphans}
           f == [r \in Listed |-> RunEntry(r)]
           g == [t \in Orphans |-> OrphanEntry(t)]
<1>1. IsFiniteSet(A)
  <2>1. f \in Surjection(Listed, A)
    BY DEF Surjection
  <2>2. Listed \subseteq runs /\ IsFiniteSet(Listed)
    BY FS_Subset DEF Listed, HistoryInv
  <2> QED BY <2>1, <2>2, FS_Surjection
<1>2. Orphans \subseteq roots /\ IsFiniteSet(Orphans)
  BY FS_Subset DEF Orphans, HistoryInv
<1>3. IsFiniteSet(B)
  <2>1. g \in Surjection(Orphans, B)
    BY DEF Surjection
  <2> QED BY <1>2, <2>1, FS_Surjection
<1>4. IsFiniteSet(Looked)
  <2> HIDE DEF A, B
  <2>1. IsFiniteSet(A \cup B)
    BY <1>1, <1>3, FS_Union
  <2> QED BY <2>1 DEF Looked, A, B
<1>5. \A r \in Listed : /\ RunEntry(r).task = r.task /\ RunEntry(r).token = r.token
                        /\ r.task \in Nat /\ r.token \in Nat /\ r.token # 0 /\ r.token # 1
                        /\ RunEntry(r).status \in {"ok", "stale", "malformed"}
  BY Numbers DEF RunEntry, ReadinessStatus, RunRecords, HistoryInv, Listed
<1>6. \A t \in Orphans : /\ OrphanEntry(t).task = t /\ OrphanEntry(t).token \in {0, 1}
                         /\ t \in Nat /\ OrphanEntry(t).status = "orphan"
  BY <1>2, Numbers DEF OrphanEntry, HistoryInv
<1>7. \A r, q \in Listed : r.token = q.token => r = q
  BY DEF HistoryInv, OneRunPerToken, Listed
<1>8. \A e \in Looked : \/ \E r \in Listed : e = RunEntry(r)
                        \/ \E t \in Orphans : e = OrphanEntry(t)
  BY DEF Looked
<1>9. Placed(Looked)
  <2>1. \A e \in Looked : e.task \in Nat /\ e.token \in Nat
    BY <1>5, <1>6, <1>8
  <2>2. ASSUME NEW x \in Looked, NEW y \in Looked, x.task = y.task, x.token = y.token
        PROVE  x = y
    <3>1. CASE \E r \in Listed : x = RunEntry(r)
      BY <1>5, <1>6, <1>7, <1>8, <2>2, <3>1
    <3>2. CASE \E t \in Orphans : x = OrphanEntry(t)
      BY <1>5, <1>6, <1>8, <2>2, <3>2
    <3> QED BY <1>8, <3>1, <3>2
  <2> QED BY <2>1, <2>2 DEF Placed
<1> QED BY <1>2, <1>4, <1>5, <1>6, <1>8, <1>9

(***************************************************************************)
(* A readiness report has different entries, all of them looked at, and    *)
(* counts those of each kind.                                              *)
(***************************************************************************)
Tallied(rep) ==
  LET Entered(status) ==
        Cardinality({i \in DOMAIN rep.entries : rep.entries[i].status = status})
  IN  /\ rep.stale = Entered("stale") /\ rep.malformed = Entered("malformed")
      /\ Entered("orphan") <= rep.orphans

LEMMA ReportIsTallied ==
  ASSUME HistoryInv, NEW n \in Limits
  PROVE  /\ \E m \in Nat : ReadinessScan(n).entries \in [1..m -> Looked]
         /\ Tallied(ReadinessScan(n))
<1> DEFINE rep == ReadinessScan(n)
           all == Sorted(Looked, WalkOrder)
           size == Cardinality(Looked)
           m == Least(Limited(n), size)
           kept == Cut(all, Limited(n))
           Count(status) == Cardinality({i \in DOMAIN kept : kept[i].status = status})
<1>1. /\ rep.stale = Count("stale") /\ rep.malformed = Count("malformed")
      /\ rep.orphans = Cardinality(Orphans) /\ rep.entries = ByToken(kept)
  BY DEF ReadinessScan, Looked
<1>2. IsFiniteSet(Looked) /\ size \in Nat
  BY LookedIsPlaced, FS_CardinalityType
<1>3. all \in Bijection(1..size, Looked)
  BY LookedIsPlaced, WalkIsBijection
<1> HIDE DEF rep, all, size
<1>4. /\ all \in [1..size -> Looked]
      /\ \A i, j \in 1..size : all[i] = all[j] => i = j
  BY <1>3 DEF Bijection, Injection, IsInjective
<1>5. m \in Nat /\ m <= size
  BY <1>2, LimitedNat DEF Least
<1>6. kept \in [1..m -> Looked] /\ \A i \in 1..m : kept[i] = all[i]
  <2>1. Limited(n) \in Nat /\ size \in Nat /\ all \in [1..size -> Looked]
    BY <1>2, <1>4, LimitedNat
  <2>2. Prefix(kept, all, m)
    BY <2>1, CutIsPrefix
  <2> HIDE DEF kept, m
  <2>3. kept = [i \in 1..m |-> all[i]]
    BY <2>2 DEF Prefix
  <2> QED BY <1>2, <1>4, <1>5, <2>3
<1> HIDE DEF kept, m, Count
<1>7. \A e \in Looked : e.token \in Nat
  BY LookedIsPlaced DEF Placed
<1>8. PICK o \in Bijection(1..m, 1..m) : ByToken(kept) = [i \in 1..m |-> kept[o[i]]]
  <2>1. Rearranged(ByToken(kept), kept, m)
    BY <1>5, <1>6, <1>7, ByTokenRearranges
  <2> QED BY <2>1 DEF Rearranged
<1>9. /\ o \in [1..m -> 1..m]
      /\ \A i, j \in 1..m : o[i] = o[j] => i = j
      /\ \A k \in 1..m : \E i \in 1..m : o[i] = k
  BY <1>8 DEF Bijection, Injection, IsInjective, Surjection
<1>10. rep.entries \in [1..m -> Looked] /\ \A i \in 1..m : rep.entries[i] = kept[o[i]]
  BY <1>1, <1>6, <1>8, <1>9
<1>11. IsFiniteSet(1..m)
  BY <1>5, PlacesAreFinite
<1> DEFINE Kept(status) == {i \in 1..m : kept[i].status = status}
           Entered(status) == {i \in 1..m : rep.entries[i].status = status}
<1>12. ASSUME NEW status PROVE Cardinality(Entered(status)) = Cardinality(Kept(status))
  <2> DEFINE f == [i \in Entered(status) |-> o[i]]
  <2>1. f \in [Entered(status) -> Kept(status)]
    BY <1>9, <1>10
  <2>2. \A i, j \in Entered(status) : f[i] = f[j] => i = j
    BY <1>9
  <2>3. \A k \in Kept(status) : \E i \in Entered(status) : f[i] = k
    BY <1>9, <1>10
  <2>4. IsFiniteSet(Entered(status))
    BY <1>11, FS_Subset
  <2> HIDE DEF f, Kept, Entered
  <2>5. f \in Bijection(Entered(status), Kept(status))
    BY <2>1, <2>2, <2>3, Fun_IsBij
  <2> QED BY <2>4, <2>5, FS_Bijection, Fun_ExistsBij
<1>13. Cardinality(Entered("orphan")) <= Cardinality(Orphans)
  <2> DEFINE f == [i \in Entered("orphan") |-> rep.entries[i].task]
  <2>1. \A i \in Entered("orphan") :
          /\ rep.entries[i].task \in Orphans
          /\ rep.entries[i] = OrphanEntry(rep.entries[i].task)
    BY <1>10, LookedIsPlaced
  <2>2. f \in [Entered("orphan") -> Orphans]
    BY <2>1
  <2>3. ASSUME NEW i \in Entered("orphan"), NEW j \in Entered("orphan"), f[i] = f[j]
        PROVE  i = j
    <3>1. rep.entries[i] = rep.entries[j]
      BY <2>1, <2>3
    <3>2. kept[o[i]] = kept[o[j]] /\ o[i] \in 1..m /\ o[j] \in 1..m
      BY <1>9, <1>10, <3>1
    <3>3. o[i] = o[j]
      BY <1>2, <1>4, <1>5, <1>6, <3>2
    <3> QED BY <1>9, <3>3
  <2> HIDE DEF f, Entered
  <2>4. f \in Injection(Entered("orphan"), Orphans)
    BY <2>2, <2>3, Fun_IsInj
  <2> QED BY <2>4, LookedIsPlaced, FS_Injection
<1>14. DOMAIN kept = 1..m /\ DOMAIN rep.entries = 1..m
  BY <1>6, <1>10
<1>15. Tallied(rep)
  BY <1>1, <1>12, <1>13, <1>14 DEF Tallied, Count
<1> QED BY <1>5, <1>10, <1>15 DEF rep

(***************************************************************************)
(* A plan of a report that is tallied adds up: a candidate's id ends in    *)
(* its place, which grows from one to the next, so each is listed once.    *)
(***************************************************************************)
LEMMA PlanOfTally ==
  ASSUME NEW A, \A x \in A : x.task \in Nat /\ x.token \in Nat,
         NEW m \in Nat, NEW rep, rep.entries \in [1..m -> A], Tallied(rep),
         NEW n \in Limits
  PROVE  AddsUp(BuildCleanupDryRunPlan(rep, n))
<1>0. IsFiniteSet(1..m)
  BY PlacesAreFinite
<1> DEFINE e == rep.entries
           C == {i \in DOMAIN e : e[i].status # "ok"}
           Place(i) == Cardinality({j \in C : j <= i})
           candidate(i) == [id |-> CandidateId(e[i], Place(i)), entry |-> e[i],
                            risk |-> ClassifyRisk(e[i])]
           E == {candidate(i) : i \in C}
           s == Sorted(E, IdOrder)
           listed == Cut(s, Limited(n))
           k == Least(Limited(n), Cardinality(E))
           plan == BuildCleanupDryRunPlan(rep, n)
<1>1. plan.report = rep /\ plan.entries = listed
  BY DEF BuildCleanupDryRunPlan, PlanEntries
<1>2. C \subseteq 1..m /\ DOMAIN e = 1..m /\ IsFiniteSet(1..m)
  <2>1. DOMAIN e = 1..m
    OBVIOUS
  <2> QED BY <1>0, <2>1
<1>3. IsFiniteSet(C) /\ Cardinality(C) \in Nat
  <2> HIDE DEF C
  <2> QED BY <1>2, FS_Subset, FS_CardinalityType
<1>4. \A i \in C : /\ e[i].task \in Nat /\ e[i].token \in Nat /\ i \in Nat
                   /\ e[i].status # "ok"
  BY <1>2
<1> HIDE DEF e, C, plan
<1>5. \A i \in C : IsFiniteSet({j \in C : j <= i}) /\ Place(i) \in Nat
  <2> SUFFICES ASSUME NEW i \in C
               PROVE  IsFiniteSet({j \in C : j <= i}) /\ Place(i) \in Nat
    OBVIOUS
  <2> QED BY <1>3, FS_Subset, FS_CardinalityType
<1>6. ASSUME NEW i \in C, NEW j \in C, i < j PROVE Place(i) < Place(j)
  <2> DEFINE Up(x) == {y \in C : y <= x}
  <2>1. Up(i) \subseteq Up(j) /\ j \in Up(j) /\ j \notin Up(i)
    BY <1>4, <1>6
  <2>2. IsFiniteSet(Up(j)) /\ Cardinality(Up(i)) \in Nat /\ Cardinality(Up(j)) \in Nat
    BY <1>5
  <2>3. Place(i) = Cardinality(Up(i)) /\ Place(j) = Cardinality(Up(j))
    OBVIOUS
  <2> HIDE DEF Up, Place
  <2>4. Cardinality(Up(i)) <= Cardinality(Up(j)) /\ Cardinality(Up(i)) # Cardinality(Up(j))
    BY <2>1, <2>2, FS_Subset
  <2> QED BY <2>2, <2>3, <2>4
<1> HIDE DEF Place
<1>7. \A i \in C : /\ candidate(i).id = <<e[i].task \div 2, e[i].token, Place(i)>>
                   /\ candidate(i).entry = e[i]
  BY DEF CandidateId, ShortName
<1>8. \A i \in C : candidate(i).id \in Nat \X Nat \X Nat
  <2> SUFFICES ASSUME NEW i \in C PROVE candidate(i).id \in Nat \X Nat \X Nat
    OBVIOUS
  <2> HIDE DEF candidate
  <2>1. e[i].task \div 2 \in Nat
    BY <1>4
  <2> DEFINE short == e[i].task \div 2
             token == e[i].token
             place == Place(i)
  <2>2. short \in Nat /\ token \in Nat /\ place \in Nat
    BY <1>4, <1>5, <2>1
  <2>3. candidate(i).id = <<short, token, place>>
    BY <1>7
  <2> HIDE DEF short, token, place
  <2> QED BY <2>2, <2>3
<1>9. ASSUME NEW i \in C, NEW j \in C, candidate(i).id = candidate(j).id PROVE i = j
  <2>1. Place(i) = Place(j)
    BY <1>7, <1>9
  <2>2. i \in Nat /\ j \in Nat /\ Place(i) \in Nat /\ Place(j) \in Nat
    BY <1>4, <1>5
  <2> QED BY <1>6, <2>1, <2>2
<1> HIDE DEF candidate
<1> DEFINE f == [i \in C |-> candidate(i)]
<1>10. IsFiniteSet(E) /\ Cardinality(E) = Cardinality(C)
  <2>1. f \in [C -> E] /\ \A x \in E : \E i \in C : f[i] = x
    OBVIOUS
  <2>2. \A i, j \in C : f[i] = f[j] => i = j
    BY <1>9
  <2> HIDE DEF f, E
  <2>3. f \in Bijection(C, E)
    BY <2>1, <2>2, Fun_IsBij
  <2> QED BY <1>3, <2>3, FS_Bijection, Fun_ExistsBij
<1>11. Identified(E)
  BY <1>8, <1>9 DEF Identified
<1>12. \A x \in E : \E i \in C : x = candidate(i)
  OBVIOUS
<1>13. s \in Bijection(1..Cardinality(E), E)
  BY <1>10, <1>11, IdsAreBijection
<1> HIDE DEF s, E
<1>14. /\ s \in [1..Cardinality(E) -> E]
       /\ \A i, j \in 1..Cardinality(E) : s[i] = s[j] => i = j
  BY <1>13 DEF Bijection, Injection, IsInjective
<1>15. Limited(n) \in Nat /\ Cardinality(E) \in Nat
  BY <1>3, <1>10, LimitedNat
<1>16. Prefix(listed, s, k)
  BY <1>14, <1>15, CutIsPrefix
<1>17. k \in Nat /\ k <= Cardinality(E) /\ IsFiniteSet(1..k)
  <2>1. k \in Nat /\ k <= Cardinality(E)
    BY <1>15 DEF Least
  <2> HIDE DEF k
  <2> QED BY <2>1, PlacesAreFinite
<1>18. Len(listed) = Min({Limited(n), Cardinality(C)})
  BY <1>10, <1>15, <1>16, LeastIsMin DEF Prefix
<1> HIDE DEF k, listed
<1>19. /\ DOMAIN listed = 1..k /\ \A i \in 1..k : listed[i] \in E
       /\ \A i, j \in 1..k : listed[i] = listed[j] => i = j
  <2>1. listed = [i \in 1..k |-> s[i]]
    BY <1>16 DEF Prefix
  <2>2. \A i \in 1..k : i \in 1..Cardinality(E)
    BY <1>15, <1>17
  <2> QED BY <1>14, <2>1, <2>2
<1>20. \A i, j \in 1..k : listed[i].id = listed[j].id => i = j
  BY <1>11, <1>19 DEF Identified
<1> DEFINE Planned(status) == {i \in 1..k : listed[i].entry.status = status}
           Entered(status) == {i \in 1..m : e[i].status = status}
<1>21. ASSUME NEW status PROVE Cardinality(Planned(status)) <= Cardinality(Entered(status))
  <2> DEFINE g == [i \in Planned(status) |-> CHOOSE j \in C : listed[i] = candidate(j)]
  <2>1. \A i \in Planned(status) : g[i] \in C /\ listed[i] = candidate(g[i])
    BY <1>12, <1>19
  <2> HIDE DEF g
  <2>2. \A i \in Planned(status) : g[i] \in Entered(status)
    BY <1>2, <1>7, <2>1
  <2>3. g \in [Planned(status) -> Entered(status)]
    BY <2>2 DEF g
  <2>4. \A i, j \in Planned(status) : g[i] = g[j] => i = j
    BY <1>19, <2>1
  <2>5. IsFiniteSet(Entered(status))
    BY <1>2, FS_Subset
  <2> HIDE DEF Planned, Entered
  <2>6. g \in Injection(Planned(status), Entered(status))
    BY <2>3, <2>4, Fun_IsInj
  <2> QED BY <2>5, <2>6, FS_Injection
<1>22. /\ rep.stale = Cardinality(Entered("stale"))
       /\ rep.malformed = Cardinality(Entered("malformed"))
       /\ Cardinality(Entered("orphan")) <= rep.orphans
  BY <1>2 DEF Tallied, e
<1> QED
  <2>1. plan.entries = listed /\ plan.report = rep /\ plan.report.entries = e
    BY <1>1 DEF e
  <2> HIDE DEF Planned, Entered, plan
  <2>2. \A status : {i \in DOMAIN listed : listed[i].entry.status = status} = Planned(status)
    BY <1>19 DEF Planned
  <2>3. \A status : {i \in DOMAIN e : e[i].status = status} = Entered(status)
    BY <1>2 DEF Entered
  <2>4. {i \in DOMAIN e : e[i].status # "ok"} = C
    BY DEF C
  <2>5. \A i, j \in DOMAIN listed : listed[i].id = listed[j].id => i = j
    BY <1>19, <1>20
  <2>6. /\ plan.report.stale = Cardinality(Entered("stale"))
        /\ plan.report.malformed = Cardinality(Entered("malformed"))
        /\ Cardinality(Entered("orphan")) <= plan.report.orphans
    BY <1>22, <2>1
  <2>7. \E l \in Limits : Len(plan.entries) = Min({Limited(l), Cardinality(C)})
    BY <1>18, <2>1
  <2> HIDE DEF C
  <2>8. /\ \A status : {i \in DOMAIN plan.entries : plan.entries[i].entry.status = status}
                       = Planned(status)
        /\ \A status : {i \in DOMAIN plan.report.entries : plan.report.entries[i].status = status}
                       = Entered(status)
        /\ {i \in DOMAIN plan.report.entries : plan.report.entries[i].status # "ok"} = C
        /\ \A i, j \in DOMAIN plan.entries :
              plan.entries[i].id = plan.entries[j].id => i = j
    BY <2>1, <2>2, <2>3, <2>4, <2>5
  <2>9. AddsUp(plan)
    BY <1>21, <2>6, <2>7, <2>8 DEF AddsUp
  <2> QED BY <2>9 DEF plan

(***************************************************************************)
(* The invariant holds, so every plan ever made adds up.                   *)
(***************************************************************************)
LEMMA RunsChange ==
  ASSUME runs \subseteq RunRecords, IsFiniteSet(runs), OneRunPerToken,
         NEW r \in runs, NEW q \in RunRecords, q.token = r.token
  PROVE  LET changed == (runs \ {r}) \cup {q}
         IN  /\ changed \subseteq RunRecords /\ IsFiniteSet(changed)
             /\ \A a, b \in changed : a.token = b.token => a = b
<1>1. IsFiniteSet(runs \ {r})
  BY FS_RemoveElement
<1>2. IsFiniteSet((runs \ {r}) \cup {q})
  BY <1>1, FS_AddElement
<1> QED BY <1>2 DEF OneRunPerToken

\* The properties of HistoryInv hold at first and after every step.
THEOREM HistoryInvariance == Spec => []HistoryInv
<1>1. Init => HistoryInv
  <2>1. IsFiniteSet({})
    BY FS_EmptySet
  <2> QED BY <2>1 DEF Init, HistoryInv, OneRunPerToken, PlanAddsUp
<1>2. HistoryInv /\ [Next]_scanVars => HistoryInv'
  <2> SUFFICES ASSUME HistoryInv, [Next]_scanVars PROVE HistoryInv'
    OBVIOUS
  <2> USE DEF HistoryInv
  <2>1. ASSUME NEW t \in Tasks, MakeTaskRoot(t) PROVE HistoryInv'
    <3>1. IsFiniteSet(roots \cup {t})
      BY FS_AddElement
    <3> QED BY <2>1, <3>1 DEF MakeTaskRoot, Dropped, OneRunPerToken, PlanAddsUp
  <2>2. ASSUME NEW t \in Tasks, NEW k \in Tokens, NEW json \in BOOLEAN, StartRun(t, k, json)
        PROVE  HistoryInv'
    <3> DEFINE r == [task |-> t, token |-> k, json |-> json, manifest |-> "none", old |-> 0]
    <3>1. IsFiniteSet(roots \cup {t}) /\ IsFiniteSet(runs \cup {r})
      BY FS_AddElement
    <3>2. r \in RunRecords /\ r.token = k
      BY Numbers DEF RunRecords
    <3>3. runs' = runs \cup {r} /\ roots' = roots \cup {t} /\ plans' = {}
      BY <2>2 DEF StartRun, Dropped
    <3>4. \A q \in runs : q.token # k
      BY <2>2 DEF StartRun
    <3> HIDE DEF r
    <3> QED BY <3>1, <3>2, <3>3, <3>4 DEF OneRunPerToken, PlanAddsUp
  <2>3. ASSUME NEW r \in runs, Grow(r) PROVE HistoryInv'
    <3> DEFINE q == [r EXCEPT !.old = @ + 1]
    <3>1. q \in RunRecords /\ q.token = r.token
      BY <2>3, Numbers DEF Grow, RunRecords
    <3>2. runs' = (runs \ {r}) \cup {q} /\ UNCHANGED roots /\ plans' = {}
      BY <2>3 DEF Grow, Dropped
    <3> HIDE DEF q
    <3> QED BY <3>1, <3>2, RunsChange DEF OneRunPerToken, PlanAddsUp
  <2>4. ASSUME NEW r \in runs, RemoveRun(r) PROVE HistoryInv'
    <3>1. IsFiniteSet(runs \ {r})
      BY FS_RemoveElement
    <3> QED BY <2>4, <3>1 DEF RemoveRun, Dropped, OneRunPerToken, PlanAddsUp
  <2>5. ASSUME NEW r \in runs, NEW status \in Statuses, EndRun(r, status) PROVE HistoryInv'
    <3> DEFINE q == [r EXCEPT !.manifest = status]
    <3>1. q \in RunRecords /\ q.token = r.token
      BY DEF RunRecords
    <3>2. runs' = (runs \ {r}) \cup {q} /\ UNCHANGED roots /\ plans' = {}
      BY <2>5 DEF EndRun, Dropped
    <3> HIDE DEF q
    <3> QED BY <3>1, <3>2, RunsChange DEF OneRunPerToken, PlanAddsUp
  <2>6. ASSUME NEW seen \in Limits, NEW n \in Limits, PlanCleanup(seen, n) PROVE HistoryInv'
    <3> DEFINE rep == ReadinessScan(seen)
               plan == BuildCleanupDryRunPlan(rep, n)
    <3>1. plans' = {plan} /\ UNCHANGED <<runs, roots>>
      BY <2>6 DEF PlanCleanup
    <3>2. \A x \in Looked : x.task \in Nat /\ x.token \in Nat
      BY LookedIsPlaced DEF Placed
    <3>3. PICK m \in Nat : rep.entries \in [1..m -> Looked]
      BY ReportIsTallied
    <3>4. Tallied(rep)
      BY ReportIsTallied
    <3> HIDE DEF rep
    <3>5. AddsUp(plan)
      BY <3>2, <3>3, <3>4, PlanOfTally
    <3> HIDE DEF plan
    <3> QED BY <3>1, <3>5 DEF OneRunPerToken, PlanAddsUp
  <2>7. ASSUME NEW n \in Limits, NEW old \in {0, 1}, ScanProfile(n, old) PROVE HistoryInv'
    BY <2>7 DEF ScanProfile, OneRunPerToken, PlanAddsUp
  <2>8. CASE UNCHANGED scanVars
    BY <2>8 DEF scanVars, OneRunPerToken, PlanAddsUp
  <2>9. ASSUME NEW t \in Tasks, Seal(t) PROVE HistoryInv'
    BY <2>9 DEF Seal, Dropped, OneRunPerToken, PlanAddsUp
  <2> QED BY <2>1, <2>2, <2>3, <2>4, <2>5, <2>6, <2>7, <2>8, <2>9 DEF Next
<1> QED BY <1>1, <1>2, PTL DEF Spec

\* A cleanup plan lists what its report counts, each entry once, and only its
\* limit leaves any out: readinessScan and buildCleanupDryRunPlan.
THEOREM PlansAddUp == Spec => []PlanAddsUp
<1>1. HistoryInv => PlanAddsUp
  BY DEF HistoryInv
<1> QED BY <1>1, HistoryInvariance, PTL

(***************************************************************************)
(* A scan: its entries are the first of the walk, at other places.         *)
(***************************************************************************)
LEMMA ScanIsFull ==
  ASSUME HistoryInv, NEW n \in Limits, NEW old \in {0, 1}
  PROVE  LET eligible == {r \in Listed : r.old >= old}
             seq == ScanHistory(n, old).runs
         IN  /\ Len(seq) = Min({Limited(n), Cardinality(eligible)})
             /\ \A e \in Range(seq) : \E r \in eligible : r.token = e.token /\ r.task = e.task
             /\ Cardinality({e.token : e \in Range(seq)}) = Len(seq)
<1> DEFINE eligible == {r \in Listed : r.old >= old}
           seq == ScanHistory(n, old).runs
           size == Cardinality(eligible)
           walked == Sorted(eligible, WalkOrder)
           m == Least(Limited(n), size)
           kept == Cut(walked, Limited(n))
           entries == [i \in DOMAIN kept |-> ScanEntry(kept[i])]
           B == {ScanEntry(r) : r \in eligible}
<1>1. seq = ByToken(entries)
  BY DEF ScanHistory
<1>2. IsFiniteSet(eligible) /\ size \in Nat
  BY FS_Subset, FS_CardinalityType DEF HistoryInv, Listed
<1>3. \A r \in eligible : r.task \in Nat /\ r.token \in Nat
  BY Numbers DEF HistoryInv, RunRecords, Listed
<1>4. \A r, q \in eligible : r.token = q.token => r = q
  BY DEF HistoryInv, OneRunPerToken, Listed
<1>5. \A r \in eligible : ScanEntry(r).task = r.task /\ ScanEntry(r).token = r.token
  BY DEF ScanEntry
<1> HIDE DEF seq, eligible, size
<1>6. Placed(eligible)
  BY <1>3, <1>4 DEF Placed
<1>7. walked \in Bijection(1..size, eligible)
  BY <1>2, <1>6, WalkIsBijection DEF size
<1> HIDE DEF walked
<1>8. /\ walked \in [1..size -> eligible]
      /\ \A i, j \in 1..size : walked[i] = walked[j] => i = j
  BY <1>7 DEF Bijection, Injection, IsInjective
<1>9. Limited(n) \in Nat
  BY LimitedNat
<1>10. Prefix(kept, walked, m)
  BY <1>2, <1>8, <1>9, CutIsPrefix
<1>11. m \in Nat /\ m <= size /\ m = Min({Limited(n), size})
  BY <1>2, <1>9, LeastIsMin DEF Least
<1> HIDE DEF kept, m
<1>12. /\ kept \in [1..m -> eligible]
       /\ \A i, j \in 1..m : kept[i] = kept[j] => i = j
  <2>1. kept = [i \in 1..m |-> walked[i]]
    BY <1>10 DEF Prefix
  <2>2. \A i \in 1..m : i \in 1..size
    BY <1>2, <1>11
  <2> QED BY <1>8, <2>1, <2>2
<1>13. entries \in [1..m -> B] /\ \A i \in 1..m : entries[i] = ScanEntry(kept[i])
  BY <1>12
<1>14. \A e \in B : e.token \in Nat
  BY <1>3, <1>5
<1> HIDE DEF entries, B
<1>15. Rearranged(seq, entries, m)
  BY <1>1, <1>11, <1>13, <1>14, ByTokenRearranges
<1>16. PICK o \in Bijection(1..m, 1..m) : seq = [i \in 1..m |-> entries[o[i]]]
  BY <1>15 DEF Rearranged
<1>17. o \in [1..m -> 1..m] /\ \A i, j \in 1..m : o[i] = o[j] => i = j
  BY <1>16 DEF Bijection, Injection, IsInjective
<1> DEFINE chosen == [i \in 1..m |-> kept[o[i]]]
<1>18. /\ \A i \in 1..m : chosen[i] \in eligible
       /\ \A i, j \in 1..m : chosen[i] = chosen[j] => i = j
       /\ \A i \in 1..m : seq[i] = ScanEntry(chosen[i])
  BY <1>12, <1>13, <1>16, <1>17
<1>19. DOMAIN seq = 1..m /\ seq \in [1..m -> B]
  BY <1>13, <1>16, <1>17
<1>20. Len(seq) = m
  BY <1>11, <1>19
<1> HIDE DEF chosen
<1>21. \A i \in 1..m : /\ seq[i].token = chosen[i].token /\ seq[i].task = chosen[i].task
                       /\ chosen[i] \in eligible
  BY <1>5, <1>18
<1>22. \A e \in Range(seq) : \E i \in 1..m : e = seq[i]
  BY <1>19 DEF Range
<1>23. \A e \in Range(seq) : \E r \in eligible : r.token = e.token /\ r.task = e.task
  BY <1>21, <1>22
<1>24. Cardinality({e.token : e \in Range(seq)}) = m
  <2> DEFINE T == {e.token : e \in Range(seq)}
             f == [i \in 1..m |-> seq[i].token]
  <2>1. \A i \in 1..m : seq[i] \in Range(seq)
    BY <1>19 DEF Range
  <2>2. f \in [1..m -> T]
    BY <2>1
  <2>3. \A t \in T : \E i \in 1..m : f[i] = t
    BY <1>22
  <2>4. \A i, j \in 1..m : f[i] = f[j] => i = j
    BY <1>4, <1>18, <1>21
  <2> HIDE DEF f, T
  <2>5. f \in Bijection(1..m, T)
    BY <2>2, <2>3, <2>4, Fun_IsBij
  <2>6. IsFiniteSet(1..m) /\ Cardinality(1..m) = m
    BY <1>11, PlacesAreFinite
  <2>7. Cardinality(T) = m
    BY <2>5, <2>6, FS_Bijection, Fun_ExistsBij
  <2> QED BY <2>7 DEF T
<1> QED
  BY <1>11, <1>20, <1>23, <1>24 DEF eligible, seq, size

\* A scan profile holds as many of the runs that are old enough as its limit
\* allows, and each of them once: scanHistory.
THEOREM ProfilesAreFull == Spec => ProfileIsFull
<1>1. HistoryInv /\ [Next]_scanVars =>
        \A n \in Limits, old \in {0, 1} : ScanProfile(n, old) =>
          LET eligible == {r \in Listed : r.old >= old} IN
          /\ Len(profile'.runs) = Min({Limited(n), Cardinality(eligible)})
          /\ \A e \in Range(profile'.runs) :
               \E r \in eligible : r.token = e.token /\ r.task = e.task
          /\ Cardinality({e.token : e \in Range(profile'.runs)}) = Len(profile'.runs)
  <2> SUFFICES ASSUME HistoryInv, NEW n \in Limits, NEW old \in {0, 1}, ScanProfile(n, old)
               PROVE  LET eligible == {r \in Listed : r.old >= old} IN
                      /\ Len(profile'.runs) = Min({Limited(n), Cardinality(eligible)})
                      /\ \A e \in Range(profile'.runs) :
                           \E r \in eligible : r.token = e.token /\ r.task = e.task
                      /\ Cardinality({e.token : e \in Range(profile'.runs)}) = Len(profile'.runs)
    OBVIOUS
  <2>1. profile' = ScanHistory(n, old)
    BY DEF ScanProfile
  <2> QED BY <2>1, ScanIsFull
<1> QED BY <1>1, HistoryInvariance, PTL DEF Spec, ProfileIsFull
=============================================================================
