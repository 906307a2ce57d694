------------------------- MODULE CollectionProofs --------------------------
(* What is collected from RUCKUS ONE: the walks, for any rows, lists, page  *)
(* sizes, limits and windows, and the requests that collect.                *)
EXTENDS Walks, Report, FiniteSetTheorems, SequenceTheorems, TLAPS

---------------------------------------------------------------------------
(* Rows in order: the rank of a row among finitely many numbers them from 1. *)

UpTo(rows, x) == {y \in rows : y <= x}

LEMMA RankBounds ==
    ASSUME NEW rows, rows \subseteq Nat, IsFiniteSet(rows), NEW x \in rows
    PROVE  /\ IsFiniteSet(UpTo(rows, x)) /\ Rank(rows, x) = Cardinality(UpTo(rows, x))
           /\ Rank(rows, x) \in 1..Cardinality(rows)
<1>1. UpTo(rows, x) \in SUBSET rows /\ x \in UpTo(rows, x)
  BY DEF UpTo
<1>2. /\ IsFiniteSet(UpTo(rows, x)) /\ Cardinality(UpTo(rows, x)) <= Cardinality(rows)
      /\ Cardinality(UpTo(rows, x)) \in Nat /\ Cardinality(rows) \in Nat
  BY <1>1, FS_Subset, FS_CardinalityType
<1>3. Cardinality(UpTo(rows, x)) # 0
  BY <1>1, <1>2, FS_EmptySet
<1> QED BY <1>2, <1>3 DEF Rank, UpTo

LEMMA RankOrder ==
    ASSUME NEW rows, rows \subseteq Nat, IsFiniteSet(rows), NEW x \in rows, NEW y \in rows, x < y
    PROVE  Rank(rows, x) < Rank(rows, y)
<1> DEFINE u == UpTo(rows, x)
           v == UpTo(rows, y)
<1>1. /\ IsFiniteSet(u) /\ IsFiniteSet(v)
      /\ Rank(rows, x) = Cardinality(u) /\ Rank(rows, y) = Cardinality(v)
  BY RankBounds
<1>2. u \cup {y} \in SUBSET v /\ y \notin u
  <2>1. x \in Nat /\ y \in Nat /\ \A z \in rows : z \in Nat
    OBVIOUS
  <2>2. y \notin u /\ y \in v
    BY <2>1 DEF UpTo
  <2>3. \A z \in u : z \in v
    BY <2>1 DEF UpTo
  <2> QED BY <2>2, <2>3
<1> HIDE DEF u, v
<1>3. Cardinality(u \cup {y}) = Cardinality(u) + 1 /\ Cardinality(u) \in Nat
  <2>1. Cardinality(u \cup {y}) = IF y \in u THEN Cardinality(u) ELSE Cardinality(u) + 1
    BY <1>1, FS_AddElement
  <2>2. Cardinality(u) \in Nat
    BY <1>1, FS_CardinalityType
  <2> QED BY <1>2, <2>1, <2>2
<1>4. Cardinality(u \cup {y}) <= Cardinality(v) /\ Cardinality(v) \in Nat
  BY <1>1, <1>2, FS_Subset, FS_CardinalityType
<1> QED BY <1>1, <1>3, <1>4

LEMMA RankTells ==
    ASSUME NEW rows, rows \subseteq Nat, IsFiniteSet(rows), NEW x \in rows, NEW y \in rows,
           Rank(rows, x) = Rank(rows, y)
    PROVE  x = y
<1>1. x \in Nat /\ y \in Nat /\ Cardinality(rows) \in Nat
  BY FS_CardinalityType
<1>2. Rank(rows, x) \in 1..Cardinality(rows) /\ Rank(rows, y) \in 1..Cardinality(rows)
  BY RankBounds
<1>3. CASE x < y
  <2>1. Rank(rows, x) < Rank(rows, y)
    BY <1>3, RankOrder
  <2> QED BY <1>1, <1>2, <2>1
<1>4. CASE y < x
  <2>1. Rank(rows, y) < Rank(rows, x)
    BY <1>4, RankOrder
  <2> QED BY <1>1, <1>2, <2>1
<1> QED BY <1>1, <1>3, <1>4

\* Rows that appear only push the others on.
LEMMA RankGrows ==
    ASSUME NEW rows, NEW more, more \subseteq Nat, IsFiniteSet(more), rows \subseteq more, NEW x \in rows
    PROVE  Rank(rows, x) <= Rank(more, x)
<1>1. IsFiniteSet(UpTo(more, x)) /\ UpTo(rows, x) \in SUBSET UpTo(more, x)
  BY RankBounds DEF UpTo
<1> QED BY <1>1, FS_Subset DEF Rank, UpTo

\* A row that disappears brings the others one forward at the most.
LEMMA RankShrinks ==
    ASSUME NEW rows, rows \subseteq Nat, IsFiniteSet(rows), NEW y, NEW x \in rows \ {y}
    PROVE  Rank(rows, x) <= Rank(rows \ {y}, x) + 1
<1> DEFINE u == UpTo(rows, x)
           v == UpTo(rows \ {y}, x)
<1>1. IsFiniteSet(rows \ {y}) /\ rows \ {y} \subseteq Nat
  BY FS_RemoveElement
<1>2. /\ IsFiniteSet(u) /\ IsFiniteSet(v)
      /\ Rank(rows, x) = Cardinality(u) /\ Rank(rows \ {y}, x) = Cardinality(v)
  BY <1>1, RankBounds
<1>3. u \in SUBSET (v \cup {y})
  BY DEF UpTo
<1> HIDE DEF u, v
<1>4. /\ IsFiniteSet(v \cup {y}) /\ Cardinality(v) \in Nat
      /\ Cardinality(v \cup {y}) = IF y \in v THEN Cardinality(v) ELSE Cardinality(v) + 1
  BY <1>2, FS_AddElement, FS_CardinalityType
<1>5. Cardinality(u) <= Cardinality(v \cup {y}) /\ Cardinality(u) \in Nat
  BY <1>2, <1>3, <1>4, FS_Subset, FS_CardinalityType
<1> QED BY <1>2, <1>4, <1>5

LEMMA RankOnto ==
    ASSUME NEW rows, rows \subseteq Nat, IsFiniteSet(rows)
    PROVE  \A i \in 1..Cardinality(rows) : \E x \in rows : Rank(rows, x) = i
<1> DEFINE n == Cardinality(rows)
           f == [x \in rows |-> Rank(rows, x)]
<1>1. n \in Nat
  BY FS_CardinalityType
<1>2. f \in [rows -> 1..n]
  BY RankBounds
<1>3. \A x, y \in rows : f[x] = f[y] => x = y
  BY RankTells
<1>4. f \in Injection(rows, 1..n)
  BY <1>2, <1>3 DEF Injection, IsInjective
<1>5. IsFiniteSet(1..n) /\ Cardinality(1..n) = n
  BY <1>1, FS_Interval
<1>6. f \in Surjection(rows, 1..n)
  BY <1>4, <1>5, FS_Injection
<1> QED BY <1>6 DEF Surjection

LEMMA SortedRows ==
    ASSUME NEW rows, rows \subseteq Nat, IsFiniteSet(rows)
    PROVE  /\ Sorted(rows) \in Seq(rows) /\ Len(Sorted(rows)) = Cardinality(rows)
           /\ \A i \in 1..Cardinality(rows) : Sorted(rows)[i] \in rows /\ Rank(rows, Sorted(rows)[i]) = i
           /\ \A x \in rows : Sorted(rows)[Rank(rows, x)] = x
           /\ IsInjective(Sorted(rows))
<1> DEFINE n == Cardinality(rows)
<1>1. n \in Nat
  BY FS_CardinalityType
<1>2. \A i \in 1..n : Sorted(rows)[i] \in rows /\ Rank(rows, Sorted(rows)[i]) = i
  <2> SUFFICES ASSUME NEW i \in 1..n PROVE Sorted(rows)[i] \in rows /\ Rank(rows, Sorted(rows)[i]) = i
    OBVIOUS
  <2>1. Sorted(rows)[i] = CHOOSE x \in rows : Rank(rows, x) = i
    BY DEF Sorted
  <2> QED BY <2>1, RankOnto
<1>3. Sorted(rows) \in [1..n -> rows]
  BY <1>2 DEF Sorted
<1>4. Sorted(rows) \in Seq(rows) /\ Len(Sorted(rows)) = n /\ DOMAIN Sorted(rows) = 1..n
  BY <1>1, <1>3, SeqDef
<1>5. \A x \in rows : Sorted(rows)[Rank(rows, x)] = x
  <2> SUFFICES ASSUME NEW x \in rows PROVE Sorted(rows)[Rank(rows, x)] = x
    OBVIOUS
  <2>1. PICK y \in rows : y = Sorted(rows)[Rank(rows, x)] /\ Rank(rows, y) = Rank(rows, x)
    BY <1>2, RankBounds
  <2> QED BY <2>1, RankTells
<1>6. IsInjective(Sorted(rows))
  BY <1>2, <1>4 DEF IsInjective
<1> QED BY <1>2, <1>4, <1>5, <1>6

---------------------------------------------------------------------------
(* One page of the rows.                                                    *)

LEMMA Pages ==
    ASSUME NEW b \in Nat
    PROVE  b * Size \in Nat /\ (b + 1) * Size = b * Size + Size /\ Size \in Nat \ {0}
BY WalksAssumption

\* A block is a stretch of the rows: full, unless the rows end in it, and then
\* no row is past it.
LEMMA BlockRows ==
    ASSUME NEW rows, rows \subseteq Nat, IsFiniteSet(rows), NEW b \in Nat
    PROVE  LET a == InBlock(Sorted(rows), b) IN
           /\ a \in Seq(rows) /\ IsInjective(a)
           /\ Len(a) <= Size
           /\ Len(a) < Size => Cardinality(rows) < (b + 1) * Size
           /\ \A x \in rows : Rank(rows, x) > b * Size /\ Rank(rows, x) <= (b + 1) * Size => Contains(a, x)
<1> DEFINE k == b * Size
           n == Cardinality(rows)
           L == Sorted(rows)
           last == Least((b + 1) * Size, Len(L))
           a == SubSeq(L, k + 1, last)
<1>1. k \in Nat /\ (b + 1) * Size = k + Size /\ Size \in Nat \ {0} /\ n \in Nat
  BY Pages, FS_CardinalityType
<1>2. /\ L \in Seq(rows) /\ Len(L) = n /\ IsInjective(L) /\ DOMAIN L = 1..n
      /\ \A i \in 1..n : L[i] \in rows
      /\ \A x \in rows : L[Rank(rows, x)] = x
  BY SortedRows, LenProperties
<1> HIDE DEF k, n, L
<1>3. last = Least(k + Size, n) /\ last \in Nat /\ last <= n /\ last <= k + Size
      /\ (last = n \/ last = k + Size)
  BY <1>1, <1>2 DEF Least
<1> HIDE DEF last
<1>4. \A i \in (k + 1)..last : L[i] \in rows
  BY <1>1, <1>2, <1>3
<1>5. /\ a \in Seq(rows)
      /\ Len(a) = IF k + 1 <= last THEN last - k ELSE 0
      /\ \A i \in 1..(last - k) : a[i] = L[k + i]
  <2>1. /\ a \in Seq(rows)
        /\ Len(a) = IF k + 1 <= last THEN last - (k + 1) + 1 ELSE 0
        /\ \A i \in 1..(last - (k + 1) + 1) : a[i] = L[k + 1 + i - 1]
    BY <1>1, <1>3, <1>4, SubSeqProperties
  <2> QED BY <1>1, <1>3, <2>1
<1> HIDE DEF a
<1>6. DOMAIN a = 1..Len(a)
  BY <1>5, LenProperties
<1>7. IsInjective(a)
  <2> SUFFICES ASSUME NEW i \in 1..Len(a), NEW j \in 1..Len(a), a[i] = a[j] PROVE i = j
    BY <1>6 DEF IsInjective
  <2>1. i \in 1..(last - k) /\ j \in 1..(last - k) /\ k + i \in 1..n /\ k + j \in 1..n
    BY <1>1, <1>3, <1>5
  <2>2. L[k + i] = L[k + j]
    BY <1>5, <2>1
  <2>3. k + i = k + j
    BY <1>2, <2>1, <2>2 DEF IsInjective
  <2> QED BY <1>1, <2>1, <2>3
<1>8. Len(a) <= Size /\ (Len(a) < Size => n < k + Size)
  BY <1>1, <1>3, <1>5
<1>9. ASSUME NEW x \in rows, Rank(rows, x) > k, Rank(rows, x) <= k + Size PROVE Contains(a, x)
  <2>1. Rank(rows, x) \in 1..n
    BY RankBounds DEF n
  <2>2. Rank(rows, x) - k \in 1..(last - k) /\ Rank(rows, x) - k \in 1..Len(a)
        /\ k + (Rank(rows, x) - k) = Rank(rows, x)
    BY <1>1, <1>3, <1>5, <1>9, <2>1
  <2>3. a[Rank(rows, x) - k] = x
    BY <1>2, <1>5, <2>2
  <2> QED BY <2>2, <2>3 DEF Contains
<1> QED BY <1>1, <1>5, <1>7, <1>8, <1>9 DEF InBlock, a, last, k, L, n

---------------------------------------------------------------------------
(* The readers.                                                             *)

LEMMA Readers ==
    ASSUME NEW k \in Kinds
    PROVE  LET r == Reader[k] IN
           /\ r.first \in {0, 1} /\ (r.alias => r.first = 0)
           /\ r.total = "each" /\ ~r.dedupe => r.stop \in {"last", "enough"}
           /\ r.total \in {"first", "apart"} => r.dedupe
           /\ r.total = "each" => r.stop # "once"
           /\ r.total = "apart" => r.stop = "once"
<1>1. k \in DOMAIN Reader
  BY WalksAssumption
<1>2. CASE k \in {"units", "groups", "identities"}
  BY <1>2 DEF Reader
<1>3. CASE k \in {"usernames", "policies"}
  BY <1>3 DEF Reader
<1>4. CASE k \in {"networks", "clients"}
  BY <1>4 DEF Reader
<1>5. CASE k \in {"switches", "aps"}
  BY <1>5 DEF Reader
<1> QED BY <1>1, <1>2, <1>3, <1>4, <1>5 DEF Reader

\* The page of the i-th request, of a reader whose page 1 is page 0 again or of
\* one whose is not.
PageAt(r, i) == IF r.first = 1 \/ (r.alias /\ i > 1) THEN i ELSE i - 1

LEMMA PagesInTurn ==
    ASSUME NEW k \in Kinds, NEW i \in Nat \ {0}
    PROVE  /\ PageAt(Reader[k], 1) = Reader[k].first
           /\ NextPage(Reader[k], PageAt(Reader[k], i)) = PageAt(Reader[k], i + 1)
           /\ Block(Reader[k], PageAt(Reader[k], i)) = i - 1
           /\ PageAt(Reader[k], i) \in Nat
BY Readers DEF PageAt, NextPage, Block

---------------------------------------------------------------------------
\* The pages are asked in turn, and a reader that knows its rows has each once.
InTurn ==
    /\ asked \in Seq(Nat)
    /\ page = PageAt(R, Len(asked) + 1)
    /\ \A i \in 1..Len(asked) : asked[i] = PageAt(R, i)
Ever == list \cup gone
Typed ==
    /\ kind \in Kinds
    /\ list \subseteq Nat /\ IsFiniteSet(list) /\ always \subseteq list
    /\ gone \subseteq Nat /\ IsFiniteSet(gone) /\ list \cap gone = {}
    /\ got \in Seq(Ever) /\ (R.dedupe => IsInjective(got))
    /\ total \in Nat \cup {Unknown}

\* Of the first n rows there are now, those that were there throughout and were
\* not read.
Unread(n) == {x \in always : Rank(list, x) <= n /\ x \notin ToSet(got)}
MissedFew == Cardinality(Missing) <= Cardinality(gone)
\* A sorted reader that keeps what it gets has the rows of the blocks so far, full
\* ones; a row comes forward to before the next block only when one disappears.
BlocksRead ==
    R.total = "each" /\ R.sorted /\ ~R.dedupe /\ ~done =>
        /\ Len(got) = Len(asked) * Size
        /\ Cardinality(Unread(Len(got))) <= Cardinality(gone)
\* Told a total with a page, it has as many only when few are missing; told one
\* at some time, it was told of all that are there throughout.
Told ==
    /\ R.total = "each" /\ honest /\ (R.sorted \/ IsInjective(got)) /\ total # Unknown /\ Len(got) >= total =>
          MissedFew
    /\ R.total \in {"first", "apart"} /\ KnowsTotal => total >= Cardinality(always)
WalkInv == Typed /\ InTurn /\ (honest => BlocksRead) /\ Told

\* What is finite.
LEMMA Finite ==
    ASSUME Typed
    PROVE  /\ \A s \in SUBSET list : IsFiniteSet(s) /\ Cardinality(s) \in Nat /\ Cardinality(s) <= Cardinality(list)
           /\ \A s \in SUBSET always, t \in SUBSET always :
                 s \subseteq t => IsFiniteSet(t) /\ Cardinality(s) \in Nat /\ Cardinality(t) \in Nat /\ Cardinality(s) <= Cardinality(t)
           /\ Cardinality(gone) \in Nat /\ Cardinality(list) \in Nat /\ Cardinality(always) \in Nat
<1>1. IsFiniteSet(list) /\ IsFiniteSet(gone) /\ always \in SUBSET list
  BY DEF Typed
<1>2. \A s \in SUBSET list : IsFiniteSet(s) /\ Cardinality(s) <= Cardinality(list)
  BY <1>1, FS_Subset
<1>3. \A s \in SUBSET list : Cardinality(s) \in Nat
  BY <1>2, FS_CardinalityType
<1>4. \A s \in SUBSET always, t \in SUBSET always : s \subseteq t => Cardinality(s) <= Cardinality(t)
  <2> SUFFICES ASSUME NEW s \in SUBSET always, NEW t \in SUBSET always, s \subseteq t
               PROVE  Cardinality(s) <= Cardinality(t)
    OBVIOUS
  <2>1. IsFiniteSet(t) /\ s \in SUBSET t
    BY <1>1, <1>2
  <2> QED BY <2>1, FS_Subset
<1> QED BY <1>1, <1>2, <1>3, <1>4, FS_CardinalityType

LEMMA WalkInit == Init => WalkInv
<1> SUFFICES ASSUME Init PROVE WalkInv
  OBVIOUS
<1>1. list \subseteq Nat /\ IsFiniteSet(list) /\ kind \in Kinds /\ always = list /\ gone = {}
  BY WalksAssumption DEF Init
<1>2. got = <<>> /\ asked = <<>> /\ total = Unknown /\ done = FALSE /\ page = R.first
  BY DEF Init
<1>3. got \in Seq(Ever) /\ Len(got) = 0 /\ IsInjective(got) /\ asked \in Seq(Nat) /\ Len(asked) = 0
  BY <1>2, EmptySeq DEF IsInjective
<1>4. Typed
  BY <1>1, <1>2, <1>3, FS_EmptySet DEF Typed
<1>5. InTurn
  BY <1>1, <1>2, <1>3, PagesInTurn DEF InTurn, R
<1>6. Unread(0) = {}
  <2>1. Cardinality(list) \in Nat /\ \A row \in always : Rank(list, row) \in 1..Cardinality(list)
    BY <1>1, RankBounds, FS_CardinalityType
  <2> QED BY <2>1 DEF Unread
<1>7. BlocksRead
  <2>1. Cardinality(Unread(0)) = 0 /\ Cardinality(gone) = 0
    BY <1>1, <1>6, FS_EmptySet
  <2> QED BY <1>2, <1>3, <2>1, WalksAssumption DEF BlocksRead
<1>8. Told
  BY <1>2 DEF Told, KnowsTotal
<1> QED BY <1>4, <1>5, <1>7, <1>8 DEF WalkInv

---------------------------------------------------------------------------
(* One answer.                                                              *)

LEMMA Holds ==
    ASSUME NEW S, NEW s \in Seq(S), NEW x
    PROVE  Contains(s, x) <=> x \in ToSet(s)
BY LenProperties DEF Contains, ToSet

LEMMA Joined ==
    ASSUME NEW S, NEW s \in Seq(S), NEW t \in Seq(S)
    PROVE  /\ s \o t \in Seq(S) /\ Len(s \o t) = Len(s) + Len(t)
           /\ \A x : Contains(s, x) \/ Contains(t, x) => Contains(s \o t, x)
           /\ IsInjective(s) /\ IsInjective(t) /\ ToSet(s) \cap ToSet(t) = {} => IsInjective(s \o t)
<1> DEFINE u == s \o t
<1>1. /\ u \in Seq(S) /\ Len(u) = Len(s) + Len(t)
      /\ \A i \in 1..(Len(s) + Len(t)) : u[i] = IF i <= Len(s) THEN s[i] ELSE t[i - Len(s)]
  BY ConcatProperties
<1>2. /\ Len(s) \in Nat /\ Len(t) \in Nat
      /\ DOMAIN s = 1..Len(s) /\ DOMAIN t = 1..Len(t) /\ DOMAIN u = 1..(Len(s) + Len(t))
  BY <1>1, LenProperties
<1> HIDE DEF u
<1>3. \A i \in 1..Len(s) : i \in 1..(Len(s) + Len(t)) /\ u[i] = s[i]
  BY <1>1, <1>2
<1>4. \A i \in 1..Len(t) : Len(s) + i \in 1..(Len(s) + Len(t)) /\ u[Len(s) + i] = t[i]
  BY <1>1, <1>2
<1>5. ASSUME NEW x, Contains(s, x) \/ Contains(t, x) PROVE Contains(u, x)
  BY <1>1, <1>3, <1>4, <1>5 DEF Contains
<1>6. ASSUME IsInjective(s), IsInjective(t), ToSet(s) \cap ToSet(t) = {} PROVE IsInjective(u)
  <2> SUFFICES ASSUME NEW i \in 1..(Len(s) + Len(t)), NEW j \in 1..(Len(s) + Len(t)), u[i] = u[j]
               PROVE  i = j
    BY <1>2 DEF IsInjective
  <2>1. CASE i <= Len(s) /\ j <= Len(s)
    <3>1. i \in DOMAIN s /\ j \in DOMAIN s /\ s[i] = s[j]
      BY <1>1, <1>2, <2>1
    <3> QED BY <1>6, <3>1 DEF IsInjective
  <2>2. CASE ~(i <= Len(s)) /\ ~(j <= Len(s))
    <3>1. i - Len(s) \in DOMAIN t /\ j - Len(s) \in DOMAIN t /\ t[i - Len(s)] = t[j - Len(s)]
      BY <1>1, <1>2, <2>2
    <3>2. i - Len(s) = j - Len(s)
      BY <1>6, <3>1 DEF IsInjective
    <3> QED BY <1>2, <3>2
  <2>3. ASSUME NEW p \in 1..(Len(s) + Len(t)), NEW q \in 1..(Len(s) + Len(t)),
               p <= Len(s), ~(q <= Len(s)), u[p] = u[q]
        PROVE  FALSE
    <3>1. p \in DOMAIN s /\ q - Len(s) \in DOMAIN t /\ s[p] = t[q - Len(s)]
      BY <1>1, <1>2, <2>3
    <3> QED BY <1>6, <3>1 DEF ToSet
  <2> QED BY <2>1, <2>2, <2>3
<1> QED BY <1>1, <1>5, <1>6 DEF u

\* What a reader keeps of an answer: nothing is lost, and nothing kept twice by
\* one that knows its rows.
LEMMA FreshRows ==
    ASSUME Typed, NEW ans, ans.rows \in Seq(Ever), IsInjective(ans.rows)
    PROVE  LET fresh == Fresh(R, ans) IN
           /\ fresh \in Seq(Ever) /\ got \o fresh \in Seq(Ever)
           /\ Len(got \o fresh) = Len(got) + Len(fresh)
           /\ R.dedupe => IsInjective(got \o fresh)
           /\ ~R.dedupe => fresh = ans.rows
           /\ ans.rows = <<>> => fresh = <<>>
           /\ \A x : Contains(got, x) \/ Contains(ans.rows, x) => Contains(got \o fresh, x)
<1> DEFINE fresh == Fresh(R, ans)
           new == ToSet(ans.rows) \ ToSet(got)
<1>1. Ever \subseteq Nat /\ IsFiniteSet(Ever) /\ got \in Seq(Ever) /\ (R.dedupe => IsInjective(got))
  BY FS_Union DEF Typed, Ever
<1>2. CASE ~R.dedupe
  <2>1. fresh = ans.rows
    BY <1>2 DEF Fresh
  <2> HIDE DEF fresh
  <2> QED BY <1>1, <1>2, <2>1, Joined DEF fresh
<1>3. CASE R.dedupe
  <2>1. fresh = Sorted(new)
    BY <1>3 DEF Fresh
  <2>2. ToSet(ans.rows) \subseteq Ever
    BY LenProperties DEF ToSet
  <2>3. new \subseteq Ever /\ new \subseteq Nat /\ IsFiniteSet(new)
    BY <1>1, <2>2, FS_Subset
  <2> HIDE DEF new, fresh
  <2>4. /\ fresh \in Seq(new) /\ IsInjective(fresh) /\ Len(fresh) = Cardinality(new)
        /\ \A i \in 1..Len(fresh) : fresh[i] \in new
        /\ \A x \in new : fresh[Rank(new, x)] = x /\ Rank(new, x) \in 1..Len(fresh)
    BY <2>1, <2>3, SortedRows, RankBounds
  <2>5. fresh \in Seq(Ever) /\ ToSet(fresh) \subseteq new
    BY <2>3, <2>4, SeqMonotonic, LenProperties DEF ToSet
  <2>6. \A x \in new : Contains(fresh, x)
    BY <2>4 DEF Contains
  <2>7. \A x : Contains(ans.rows, x) => Contains(fresh, x) \/ Contains(got, x)
    BY <1>1, <2>6, Holds DEF new
  <2>8. ToSet(got) \cap ToSet(fresh) = {}
    BY <2>5 DEF new
  <2>9. /\ got \o fresh \in Seq(Ever) /\ Len(got \o fresh) = Len(got) + Len(fresh)
        /\ IsInjective(got \o fresh)
        /\ \A x : Contains(got, x) \/ Contains(fresh, x) => Contains(got \o fresh, x)
    BY <1>1, <1>3, <2>4, <2>5, <2>8, Joined
  <2>10. ans.rows = <<>> => fresh = <<>>
    <3> SUFFICES ASSUME ans.rows = <<>> PROVE fresh = <<>>
      OBVIOUS
    <3>1. new = {}
      BY LenProperties, EmptySeq DEF new, ToSet
    <3>2. Len(fresh) = 0
      BY <2>4, <3>1, FS_EmptySet
    <3> QED BY <2>4, <3>2, EmptySeq
  <2> QED BY <1>3, <2>5, <2>7, <2>9, <2>10 DEF fresh
<1> QED BY <1>2, <1>3

\* Any answer leaves the reader typed and its pages in turn.
LEMMA TakeTyped ==
    ASSUME Typed, InTurn, NEW ans, Take(ans),
           ans.rows \in Seq(Ever), IsInjective(ans.rows), ans.total \in Nat \cup {Unknown}
    PROVE  Typed' /\ InTurn'
<1> DEFINE fresh == Fresh(R, ans)
           n == Len(asked)
<1>1. /\ got' = got \o fresh /\ total' = TotalOf(R, ans)
      /\ asked' = Append(asked, page) /\ page' = NextPage(R, page)
      /\ kind' = kind /\ list' = list /\ always' = always /\ gone' = gone /\ Ever' = Ever
  BY DEF Take, Ever
<1>2. R' = R /\ R = Reader[kind] /\ kind \in Kinds
  BY <1>1 DEF R, Typed
<1>3. Typed'
  <2>1. got' \in Seq(Ever) /\ (R.dedupe => IsInjective(got'))
    BY <1>1, FreshRows
  <2>2. TotalOf(R, ans) \in Nat \cup {Unknown}
    BY DEF TotalOf, Typed
  <2> QED BY <1>1, <1>2, <2>1, <2>2 DEF Typed
<1>4. InTurn'
  <2>1. n \in Nat /\ asked \in Seq(Nat) /\ page = PageAt(R, n + 1) /\ n + 1 \in Nat \ {0}
    BY LenProperties DEF InTurn
  <2>2. page \in Nat /\ NextPage(R, page) = PageAt(R, n + 1 + 1)
    BY <1>2, <2>1, PagesInTurn
  <2>3. /\ asked' \in Seq(Nat) /\ Len(asked') = n + 1
        /\ \A i \in 1..n : asked'[i] = asked[i]
        /\ asked'[n + 1] = page
    BY <1>1, <2>1, <2>2, AppendProperties
  <2>4. \A i \in 1..n : asked[i] = PageAt(R, i)
    BY DEF InTurn
  <2> HIDE DEF n
  <2>5. \A i \in 1..(n + 1) : asked'[i] = PageAt(R, i)
    <3> SUFFICES ASSUME NEW i \in 1..(n + 1) PROVE asked'[i] = PageAt(R, i)
      OBVIOUS
    <3>1. CASE i = n + 1
      BY <2>1, <2>3, <3>1
    <3>2. CASE i \in 1..n
      BY <2>3, <2>4, <3>2
    <3> QED BY <2>1, <3>1, <3>2
  <2>6. page' = PageAt(R', Len(asked') + 1)
    BY <1>1, <1>2, <2>2, <2>3
  <2> QED BY <1>2, <2>3, <2>5, <2>6 DEF InTurn
<1> QED BY <1>3, <1>4

\* What an answer is: rows of the list, each once, and how many there are.
LEMMA AnswerRows ==
    ASSUME Typed, NEW b \in Nat, NEW ans \in Answers(b)
    PROVE  /\ ans.rows \in Seq(list) /\ ans.rows \in Seq(Ever) /\ IsInjective(ans.rows)
           /\ ans.total = Cardinality(list) /\ Cardinality(list) \in Nat
           /\ ans.last = ((b + 1) * Size >= Cardinality(list))
           /\ R.stop # "once" /\ R.sorted => ans.rows = InBlock(Sorted(list), b)
<1>1. list \subseteq Nat /\ IsFiniteSet(list) /\ Cardinality(list) \in Nat
  BY FS_CardinalityType DEF Typed
<1>2. PICK rows \in PageRows(b) :
         ans = [rows |-> rows, total |-> Cardinality(list), last |-> (b + 1) * Size >= Cardinality(list)]
  BY DEF Answers
<1>3. ASSUME NEW n, rows \in Some(n) PROVE rows \in Seq(list) /\ IsInjective(rows)
  <2>1. PICK s \in SUBSET list : rows = Sorted(s)
    BY <1>3 DEF Some, kSubset
  <2>2. s \subseteq Nat /\ IsFiniteSet(s)
    BY <1>1, FS_Subset
  <2>3. Sorted(s) \in Seq(s) /\ IsInjective(Sorted(s))
    BY <2>2, SortedRows
  <2> QED BY <2>1, <2>3, SeqMonotonic
<1>4. InBlock(Sorted(list), b) \in Seq(list) /\ IsInjective(InBlock(Sorted(list), b))
  BY <1>1, BlockRows
<1>5. \/ \E n : rows \in Some(n)
      \/ rows = InBlock(Sorted(list), b)
  BY <1>2 DEF PageRows
<1>6. R.stop # "once" /\ R.sorted => rows = InBlock(Sorted(list), b)
  BY <1>2 DEF PageRows
<1>7. rows \in Seq(list) /\ IsInjective(rows)
  BY <1>3, <1>4, <1>5
<1>8. rows \in Seq(Ever)
  BY <1>7, SeqMonotonic DEF Ever
<1> QED BY <1>1, <1>2, <1>6, <1>7, <1>8

\* What is unread of the first n rows once an answer is taken.
UnreadAfter(n) == {x \in always : Rank(list, x) <= n /\ x \notin ToSet(got')}

\* The next block put behind those a plain reader has: if it is as long as the
\* list few are missing, and if it goes on the block was full.
LEMMA NextBlock ==
    ASSUME Typed, InTurn, BlocksRead, R.total = "each", R.sorted, ~R.dedupe, ~done,
           NEW ans \in Answers(Len(asked)), Take(ans)
    PROVE  /\ Cardinality(list) <= Len(got') => MissedFew'
           /\ BlocksRead'
<1> DEFINE k == Len(asked)
           n == Cardinality(list)
           a == ans.rows
<1>1. k \in Nat /\ asked \in Seq(Nat) /\ n \in Nat /\ list \subseteq Nat /\ IsFiniteSet(list)
      /\ always \subseteq list /\ got \in Seq(Ever) /\ kind \in Kinds
  BY LenProperties, FS_CardinalityType DEF Typed, InTurn
<1>2. R.stop \in {"last", "enough"} /\ R = Reader[kind]
  BY <1>1, Readers DEF R
<1>3. /\ a = InBlock(Sorted(list), k) /\ a \in Seq(Ever) /\ IsInjective(a)
      /\ ans.last = ((k + 1) * Size >= n)
  BY <1>1, <1>2, AnswerRows
<1>4. /\ Len(a) <= Size /\ (Len(a) < Size => n < (k + 1) * Size)
      /\ \A x \in list : Rank(list, x) > k * Size /\ Rank(list, x) <= (k + 1) * Size => Contains(a, x)
  <2> DEFINE c == InBlock(Sorted(list), k)
  <2>1. /\ Len(c) <= Size /\ (Len(c) < Size => n < (k + 1) * Size)
        /\ \A x \in list : Rank(list, x) > k * Size /\ Rank(list, x) <= (k + 1) * Size => Contains(c, x)
    <3> HIDE DEF c
    <3> QED BY <1>1, BlockRows DEF c
  <2> QED BY <1>3, <2>1
<1>5. Fresh(R, ans) = a /\ got' = got \o a
  BY <1>1, <1>3, FreshRows DEF Take
<1>6. Len(got') = Len(got) + Len(a) /\ Len(got) \in Nat /\ Len(a) \in Nat
      /\ got' \in Seq(Ever)
      /\ \A x : Contains(got, x) \/ Contains(a, x) => Contains(got', x)
  BY <1>1, <1>3, <1>5, Joined, LenProperties
<1>7. /\ always' = always /\ list' = list /\ gone' = gone /\ R' = R
      /\ done' = Stops(R, ans, a) /\ asked' = Append(asked, page)
  BY <1>5 DEF Take, R
<1>8. Len(got) = k * Size /\ Cardinality(Unread(k * Size)) <= Cardinality(gone)
  BY DEF BlocksRead
<1>9. k * Size \in Nat /\ (k + 1) * Size = k * Size + Size /\ Size \in Nat \ {0}
  BY <1>1, Pages
<1>10. \A x \in always : Rank(list, x) \in 1..n
  BY <1>1, RankBounds
<1>11. Len(asked') = k + 1
  <2>1. page \in Nat
    BY <1>1, <1>2, PagesInTurn DEF InTurn, R
  <2> QED BY <1>1, <1>7, <2>1, AppendProperties
<1> HIDE DEF k, n, a
<1>12. ASSUME NEW x \in always, Rank(list, x) <= k * Size + Size, x \notin ToSet(got')
       PROVE  x \in Unread(k * Size)
  <2>1. x \in list /\ Rank(list, x) \in Nat
    BY <1>1, <1>10
  <2>2. ~Contains(got', x) /\ ~Contains(got, x) /\ ~Contains(a, x)
    BY <1>6, <1>12, Holds
  <2>3. x \notin ToSet(got)
    BY <1>1, <2>2, Holds
  <2>4. ~(Rank(list, x) > k * Size)
    BY <1>4, <1>9, <1>12, <2>1, <2>2
  <2> QED BY <1>9, <2>1, <2>3, <2>4 DEF Unread
<1>13. ASSUME NEW m \in Nat, m <= k * Size + Size
       PROVE  Cardinality(UnreadAfter(m)) <= Cardinality(gone)
  <2>2. \A x \in UnreadAfter(m) : x \in Unread(k * Size)
    <3> SUFFICES ASSUME NEW x \in always, Rank(list, x) <= m, x \notin ToSet(got') PROVE x \in Unread(k * Size)
      BY DEF UnreadAfter
    <3>1. Rank(list, x) \in Nat
      BY <1>1, <1>10
    <3>2. Rank(list, x) <= k * Size + Size
      BY <1>9, <1>13, <3>1
    <3> QED BY <1>12, <3>2
  <2>3. Unread(k * Size) \in SUBSET always /\ UnreadAfter(m) \subseteq Unread(k * Size)
    BY <2>2 DEF Unread
  <2> DEFINE u == UnreadAfter(m)
             v == Unread(k * Size)
  <2> HIDE DEF u, v
  <2>4. u \in SUBSET always /\ v \in SUBSET always /\ u \subseteq v
    BY <2>3 DEF u, v
  <2>5. Cardinality(u) <= Cardinality(v) /\ Cardinality(u) \in Nat /\ Cardinality(v) \in Nat /\ Cardinality(gone) \in Nat
    BY <2>4, Finite
  <2>6. Cardinality(v) <= Cardinality(gone)
    BY <1>8 DEF v
  <2>7. Cardinality(u) <= Cardinality(gone)
    BY <2>5, <2>6
  <2> QED BY <2>7 DEF u
<1>14. ASSUME n <= Len(got') PROVE MissedFew'
  <2>1. n <= k * Size + Size
    <3>1. Len(got') <= k * Size + Size /\ Len(got') \in Nat
      BY <1>4, <1>6, <1>8, <1>9
    <3> QED BY <1>1, <1>9, <1>14, <3>1 DEF n
  <2>2. n \in Nat
    BY <1>1 DEF n
  <2>3. Cardinality(UnreadAfter(n)) <= Cardinality(gone)
    BY <1>13, <2>1, <2>2
  <2>4. UnreadAfter(n) = Missing'
    BY <1>7, <1>10 DEF UnreadAfter, Missing, n
  <2> QED BY <1>7, <2>3, <2>4 DEF MissedFew
<1>15. ASSUME ~done' PROVE Len(got') = k * Size + Size
  <2>1. ~(Len(a) < Size)
    <3>1. CASE R.stop = "last"
      <4>1. ~ans.last
        BY <1>7, <1>15, <3>1 DEF Stops
      <4>2. ~(k * Size + Size >= n)
        BY <1>3, <1>9, <4>1
      <4> QED BY <1>1, <1>4, <1>9, <4>2 DEF n
    <3>2. CASE R.stop = "enough"
      BY <1>7, <1>15, <3>2 DEF Stops, a
    <3> QED BY <1>2, <3>1, <3>2
  <2> QED BY <1>4, <1>6, <1>8, <1>9, <2>1
<1>16. BlocksRead'
  <2> SUFFICES ASSUME ~done'
               PROVE  Len(got') = Len(asked') * Size /\ Cardinality(UnreadAfter(Len(got'))) <= Cardinality(gone)
    BY <1>7 DEF BlocksRead, Unread, UnreadAfter
  <2>1. Len(got') = k * Size + Size
    BY <1>15
  <2>2. Len(asked') * Size = k * Size + Size
    BY <1>9, <1>11
  <2>3. k * Size + Size \in Nat /\ k * Size + Size <= k * Size + Size
    BY <1>9
  <2> QED BY <1>13, <2>1, <2>2, <2>3
<1> QED BY <1>14, <1>16 DEF n

\* Of a finite set a sequence of distinct values as long as the set misses no
\* more than it has others.
LEMMA AsMany ==
    ASSUME NEW A, IsFiniteSet(A), NEW S, NEW s \in Seq(S), IsInjective(s), Cardinality(A) <= Len(s)
    PROVE  /\ IsFiniteSet(ToSet(s))
           /\ Cardinality(A \ ToSet(s)) <= Cardinality(ToSet(s) \ A)
<1> DEFINE n == Len(s)
           B == ToSet(s)
<1>1. n \in Nat /\ DOMAIN s = 1..n /\ B = {s[i] : i \in 1..n} /\ s \in [1..n -> B]
  BY LenProperties DEF ToSet
<1>2. s \in Surjection(1..n, B) /\ s \in Injection(1..n, B)
  BY <1>1 DEF Injection, Surjection, IsInjective
<1>3. Cardinality(A) <= n
  OBVIOUS
<1> HIDE DEF n, B
<1>4. IsFiniteSet(1..n) /\ Cardinality(1..n) = n
  <2>1. n \in Nat
    BY <1>1
  <2> QED BY <2>1, FS_Interval
<1>5. IsFiniteSet(B) /\ Cardinality(B) = n
  BY <1>2, <1>4, FS_Surjection
<1>6. /\ IsFiniteSet(A \ B) /\ IsFiniteSet(B \ A)
      /\ A \cup (B \ A) = B \cup (A \ B)
      /\ A \cap (B \ A) = {} /\ B \cap (A \ B) = {}
  BY <1>5, FS_Subset
<1>7. /\ Cardinality(A \cup (B \ A)) = Cardinality(A) + Cardinality(B \ A) - Cardinality({})
      /\ Cardinality(B \cup (A \ B)) = Cardinality(B) + Cardinality(A \ B) - Cardinality({})
  BY <1>5, <1>6, FS_Union
<1>8. /\ Cardinality(A) \in Nat /\ Cardinality(B) \in Nat /\ Cardinality(A \ B) \in Nat
      /\ Cardinality(B \ A) \in Nat /\ Cardinality({}) = 0
  BY <1>5, <1>6, FS_CardinalityType, FS_EmptySet
<1>9. Cardinality(A) <= Cardinality(B)
  BY <1>5, <1>3
<1>10. Cardinality(A) + Cardinality(B \ A) = Cardinality(B) + Cardinality(A \ B)
  <2>1. Cardinality(A \cup (B \ A)) = Cardinality(B \cup (A \ B))
    BY <1>6
  <2> QED BY <1>7, <1>8, <2>1
<1>11. Cardinality(A \ B) <= Cardinality(B \ A)
  BY <1>8, <1>9, <1>10
<1> QED BY <1>5, <1>11 DEF B

\* Distinct rows, as many as the list has: one is missing only for one that is gone.
LEMMA DistinctMiss ==
    ASSUME Typed, NEW s \in Seq(Ever), IsInjective(s), Cardinality(list) <= Len(s)
    PROVE  Cardinality(always \ ToSet(s)) <= Cardinality(gone)
<1> DEFINE B == ToSet(s)
<1>1. IsFiniteSet(list) /\ IsFiniteSet(gone) /\ always \subseteq list
  BY DEF Typed
<1>2. Cardinality(list \ B) <= Cardinality(B \ list)
  BY <1>1, AsMany
<1>3. B \ list \in SUBSET gone
  BY LenProperties DEF ToSet, Ever
<1>4. (list \ B) \in SUBSET list /\ always \ B \in SUBSET (list \ B)
  BY <1>1
<1> HIDE DEF B
<1>5. Cardinality(B \ list) <= Cardinality(gone) /\ IsFiniteSet(B \ list)
  BY <1>1, <1>3, FS_Subset
<1>6. IsFiniteSet(list \ B)
  BY <1>1, <1>4, FS_Subset
<1>7. Cardinality(always \ B) <= Cardinality(list \ B) /\ IsFiniteSet(always \ B)
  BY <1>4, <1>6, FS_Subset
<1>8. /\ Cardinality(always \ B) \in Nat /\ Cardinality(list \ B) \in Nat
      /\ Cardinality(B \ list) \in Nat /\ Cardinality(gone) \in Nat
  BY <1>1, <1>5, <1>6, <1>7, FS_CardinalityType
<1> QED BY <1>2, <1>5, <1>7, <1>8 DEF B

---------------------------------------------------------------------------
(* The steps.                                                               *)

LEMMA AskStep == WalkInv /\ Ask => WalkInv'
<1> SUFFICES ASSUME WalkInv, Ask PROVE WalkInv'
  OBVIOUS
<1> DEFINE b == IF honest THEN Block(R, page) ELSE 0
           n == Cardinality(list)
<1>1. Typed /\ InTurn /\ ~done /\ (honest => BlocksRead) /\ Told
  BY DEF WalkInv, Ask
<1>2. R = Reader[kind] /\ kind \in Kinds /\ list \subseteq Nat /\ IsFiniteSet(list)
      /\ always \subseteq list /\ got \in Seq(Ever) /\ asked \in Seq(Nat) /\ Len(asked) \in Nat
  BY <1>1, LenProperties DEF R, Typed, InTurn
<1>3. Block(R, page) = Len(asked)
  <2>1. Len(asked) + 1 \in Nat \ {0} /\ Len(asked) + 1 - 1 = Len(asked)
    BY <1>2
  <2>2. Block(R, PageAt(R, Len(asked) + 1)) = Len(asked) + 1 - 1
    BY <1>2, <2>1, PagesInTurn
  <2>3. page = PageAt(R, Len(asked) + 1)
    BY <1>1 DEF InTurn
  <2> QED BY <2>1, <2>2, <2>3
<1>4. b \in Nat /\ (honest => b = Len(asked))
  BY <1>2, <1>3
<1>5. PICK ans \in Answers(b) : Take(ans)
  BY DEF Ask
<1> HIDE DEF b
<1>6. ans.rows \in Seq(Ever) /\ IsInjective(ans.rows) /\ ans.total = n /\ n \in Nat
  BY <1>1, <1>4, AnswerRows
<1>7. Typed' /\ InTurn'
  BY <1>1, <1>5, <1>6, TakeTyped
<1>8. /\ got' = got \o Fresh(R, ans) /\ total' = TotalOf(R, ans)
      /\ honest' = honest /\ R' = R /\ always' = always /\ list' = list /\ gone' = gone /\ Ever' = Ever
  BY <1>5 DEF Take, R, Ever
<1>9. n # Unknown
  BY <1>6 DEF Unknown
<1>10. honest => BlocksRead'
  <2> SUFFICES ASSUME honest PROVE BlocksRead'
    OBVIOUS
  <2>1. CASE R.total = "each" /\ R.sorted /\ ~R.dedupe
    BY <1>1, <1>4, <1>5, <2>1, NextBlock
  <2>2. CASE ~(R.total = "each" /\ R.sorted /\ ~R.dedupe)
    BY <1>8, <2>2 DEF BlocksRead
  <2> QED BY <2>1, <2>2
<1>11. R.total = "each" /\ honest /\ (R.sorted \/ IsInjective(got')) /\ Len(got') >= total' => MissedFew'
  <2> SUFFICES ASSUME R.total = "each", honest, R.sorted \/ IsInjective(got'), Len(got') >= total'
               PROVE  MissedFew'
    OBVIOUS
  <2>1. total' = n
    BY <1>6, <1>8, <1>9 DEF TotalOf
  <2>2. got' \in Seq(Ever) /\ Len(got') \in Nat /\ n <= Len(got')
    BY <1>6, <1>7, <1>8, <2>1, LenProperties DEF Typed
  <2>3. CASE R.sorted /\ ~R.dedupe
    BY <1>1, <1>4, <1>5, <2>2, <2>3, NextBlock
  <2>4. CASE R.dedupe \/ IsInjective(got')
    <3>1. IsInjective(got')
      BY <1>7, <1>8, <2>4 DEF Typed
    <3>2. Cardinality(always \ ToSet(got')) <= Cardinality(gone)
      BY <1>1, <2>2, <3>1, DistinctMiss
    <3> QED BY <1>8, <3>2 DEF MissedFew, Missing
  <2> QED BY <2>3, <2>4
<1>12. R.total \in {"first", "apart"} /\ KnowsTotal' => total' >= Cardinality(always)
  <2> SUFFICES ASSUME R.total \in {"first", "apart"}, KnowsTotal' PROVE total' >= Cardinality(always)
    OBVIOUS
  <2>1. Cardinality(always) \in Nat /\ Cardinality(always) <= n
    BY <1>1, <1>2, Finite
  <2>2. CASE total' = total
    <3>1. KnowsTotal
      BY <1>8, <2>2 DEF KnowsTotal
    <3> QED BY <1>1, <2>2, <3>1 DEF Told
  <2>3. CASE total' = n
    BY <1>6, <2>1, <2>3
  <2>4. total' = total \/ total' = n
    BY <1>6, <1>8, <1>9 DEF TotalOf
  <2> QED BY <2>2, <2>3, <2>4
<1>13. Told'
  BY <1>8, <1>11, <1>12 DEF Told
<1> QED BY <1>7, <1>8, <1>10, <1>13 DEF WalkInv

\* A page that fails adds nothing, tells nothing, and ends a walk that would
\* otherwise go on without it.
LEMMA FailsStep == WalkInv /\ Fails => WalkInv'
<1> SUFFICES ASSUME WalkInv, Fails PROVE WalkInv'
  OBVIOUS
<1>1. Typed /\ InTurn /\ ~done /\ Take(NoAnswer) /\ (honest => BlocksRead) /\ Told
  BY DEF WalkInv, Fails
<1>2. NoAnswer.rows = <<>> /\ NoAnswer.total = Unknown
  BY DEF NoAnswer
<1>3. NoAnswer.rows \in Seq(Ever) /\ IsInjective(NoAnswer.rows) /\ NoAnswer.total \in Nat \cup {Unknown}
  BY <1>2, EmptySeq DEF IsInjective
<1>4. Typed' /\ InTurn'
  BY <1>1, <1>3, TakeTyped
<1>5. Fresh(R, NoAnswer) = <<>>
  BY <1>1, <1>2, <1>3, FreshRows
<1>6. /\ got' = got /\ total' = TotalOf(R, NoAnswer) /\ done' = Stops(R, NoAnswer, <<>>)
      /\ honest' = honest /\ R' = R /\ always' = always /\ list' = list /\ gone' = gone
  <2>1. got \o <<>> = got
    BY <1>1, ConcatEmptySeq DEF Typed
  <2> QED BY <1>1, <1>5, <2>1 DEF Take, R
<1>7. total' = total \/ (R.total = "first" /\ total' = 0)
  BY <1>2, <1>6 DEF TotalOf
<1>8. R.total = "each" => done'
  <2> SUFFICES ASSUME R.total = "each" PROVE done'
    OBVIOUS
  <2>1. R.stop # "once"
    BY <1>1, Readers DEF R, Typed
  <2> QED BY <1>2, <1>6, <2>1 DEF Stops
<1>9. BlocksRead'
  BY <1>6, <1>8 DEF BlocksRead
<1>10. Told'
  <2>1. CASE total' = total
    BY <1>1, <1>6, <2>1 DEF Told, MissedFew, Missing, KnowsTotal
  <2>2. CASE R.total = "first" /\ total' = 0
    <3>1. ~(total' \in 1..(Window - 1))
      BY <2>2, WalksAssumption
    <3> QED BY <1>6, <2>2, <3>1 DEF Told, KnowsTotal
  <2> QED BY <1>7, <2>1, <2>2
<1> QED BY <1>4, <1>6, <1>9, <1>10 DEF WalkInv

LEMMA CountApartStep == WalkInv /\ CountApart => WalkInv'
<1> SUFFICES ASSUME WalkInv, CountApart PROVE WalkInv'
  OBVIOUS
<1>1. /\ R' = R /\ R.total = "apart" /\ total' = Cardinality(list)
      /\ UNCHANGED <<kind, list, always, gone, honest, page, got, asked, done>>
  BY DEF CountApart, R
<1>2. /\ Cardinality(list) \in Nat /\ Cardinality(list) >= Cardinality(always)
      /\ Typed /\ InTurn
  <2>1. Typed /\ InTurn
    BY DEF WalkInv
  <2>2. always \subseteq list
    BY <2>1 DEF Typed
  <2>3. Cardinality(list) \in Nat /\ Cardinality(always) \in Nat /\ Cardinality(always) <= Cardinality(list)
    BY <2>1, <2>2, Finite
  <2> QED BY <2>1, <2>3
<1>3. Typed'
  BY <1>1, <1>2 DEF Typed, Ever
<1>4. InTurn'
  BY <1>1, <1>2 DEF InTurn
<1>5. BlocksRead'
  BY <1>1 DEF BlocksRead
<1>6. Told'
  BY <1>1, <1>2 DEF Told
<1> QED BY <1>3, <1>4, <1>5, <1>6 DEF WalkInv

\* A row that appears pushes others on: it never brings one forward into what
\* was read.
LEMMA AppearsStep == ASSUME NEW row \in Rows PROVE WalkInv /\ Appears(row) => WalkInv'
<1> SUFFICES ASSUME WalkInv, Appears(row) PROVE WalkInv'
  OBVIOUS
<1>1. /\ R' = R /\ list' = list \cup {row} /\ row \notin list /\ row \notin gone
      /\ UNCHANGED <<kind, always, gone, honest, page, got, total, asked, done>>
  BY DEF Appears, R
<1>2. Typed /\ InTurn /\ (honest => BlocksRead) /\ Told
  BY DEF WalkInv
<1>3. row \in Nat /\ list' \subseteq Nat /\ IsFiniteSet(list') /\ list \subseteq list' /\ always \subseteq list
      /\ list \subseteq Nat /\ IsFiniteSet(list) /\ Ever \subseteq Ever' /\ got \in Seq(Ever)
  BY <1>1, <1>2, WalksAssumption, FS_AddElement DEF Typed, Ever
<1>4. Typed'
  <2>1. got \in Seq(Ever')
    BY <1>3, SeqMonotonic
  <2> QED BY <1>1, <1>2, <1>3, <2>1 DEF Typed
<1>5. InTurn'
  BY <1>1, <1>2 DEF InTurn
<1>6. Told'
  BY <1>1, <1>2 DEF Told, MissedFew, Missing, KnowsTotal
<1>7. BlocksRead => BlocksRead'
  <2> SUFFICES ASSUME BlocksRead, R.total = "each", R.sorted, ~R.dedupe, ~done
               PROVE  Len(got) = Len(asked) * Size /\ Cardinality(Unread(Len(got))') <= Cardinality(gone)
    BY <1>1 DEF BlocksRead, Unread
  <2> DEFINE m == Len(got)
             u == Unread(m)
             v == Unread(m)'
  <2>1. m = Len(asked) * Size /\ Cardinality(u) <= Cardinality(gone) /\ m \in Nat
    BY <1>3, LenProperties DEF BlocksRead
  <2> HIDE DEF m
  <2>2. v = {x \in always : Rank(list', x) <= m /\ x \notin ToSet(got)}
    BY <1>1 DEF Unread, m
  <2>3. \A x \in always : Rank(list', x) <= m => Rank(list, x) <= m
    <3> SUFFICES ASSUME NEW x \in always, Rank(list', x) <= m PROVE Rank(list, x) <= m
      OBVIOUS
    <3>1. Rank(list, x) <= Rank(list', x)
      BY <1>3, RankGrows
    <3>2. Cardinality(list) \in Nat /\ Cardinality(list') \in Nat
      BY <1>3, FS_CardinalityType
    <3>3. Rank(list, x) \in 1..Cardinality(list) /\ Rank(list', x) \in 1..Cardinality(list')
      BY <1>3, RankBounds
    <3>4. Rank(list, x) \in Nat /\ Rank(list', x) \in Nat
      BY <3>2, <3>3
    <3> QED BY <2>1, <3>1, <3>4
  <2>4. v \subseteq u /\ u \in SUBSET always /\ v \in SUBSET always
    BY <2>2, <2>3 DEF Unread
  <2> HIDE DEF u, v
  <2>5. Cardinality(v) <= Cardinality(u) /\ Cardinality(v) \in Nat /\ Cardinality(u) \in Nat /\ Cardinality(gone) \in Nat
    BY <1>2, <2>4, Finite
  <2>6. Cardinality(v) <= Cardinality(gone)
    BY <2>1, <2>5
  <2> QED BY <2>1, <2>6 DEF m, v
<1> QED BY <1>1, <1>2, <1>4, <1>5, <1>6, <1>7 DEF WalkInv

\* A row that disappears may bring one forward into what was read, and is one
\* more that is gone.
LEMMA DisappearsStep == ASSUME NEW row \in Rows PROVE WalkInv /\ Disappears(row) => WalkInv'
<1> SUFFICES ASSUME WalkInv, Disappears(row) PROVE WalkInv'
  OBVIOUS
<1>1. /\ R' = R /\ list' = list \ {row} /\ always' = always \ {row} /\ gone' = gone \cup {row} /\ row \in list
      /\ UNCHANGED <<kind, honest, page, got, total, asked, done>>
  BY DEF Disappears, R
<1>2. Typed /\ InTurn /\ (honest => BlocksRead) /\ Told
  BY DEF WalkInv
<1>3. /\ list \subseteq Nat /\ IsFiniteSet(list) /\ always \subseteq list /\ got \in Seq(Ever)
      /\ gone \subseteq Nat /\ IsFiniteSet(gone) /\ list \cap gone = {}
  BY <1>2 DEF Typed
<1>4. Ever' = Ever
  BY <1>1 DEF Ever
<1>5. /\ IsFiniteSet(gone') /\ Cardinality(gone') = Cardinality(gone) + 1 /\ Cardinality(gone) \in Nat
      /\ IsFiniteSet(list')
  <2>1. row \notin gone
    BY <1>1, <1>3
  <2>2. IsFiniteSet(gone \cup {row}) /\ Cardinality(gone \cup {row}) = Cardinality(gone) + 1
    BY <1>3, <2>1, FS_AddElement
  <2>3. IsFiniteSet(list \ {row}) /\ Cardinality(gone) \in Nat
    BY <1>3, FS_RemoveElement, FS_CardinalityType
  <2> QED BY <1>1, <2>2, <2>3
<1>6. Typed'
  <2>1. list' \subseteq Nat /\ gone' \subseteq Nat /\ list' \cap gone' = {} /\ always' \subseteq list'
    BY <1>1, <1>3
  <2> QED BY <1>1, <1>2, <1>4, <1>5, <2>1 DEF Typed
<1>7. InTurn'
  BY <1>1, <1>2 DEF InTurn
<1>8. Told'
  <2>1. MissedFew => MissedFew'
    <3>1. Missing' = Missing \ {row} /\ Missing' \in SUBSET always /\ Missing \in SUBSET always
          /\ Missing' \subseteq Missing
      BY <1>1 DEF Missing
    <3>2. /\ Cardinality(Missing') <= Cardinality(Missing)
          /\ Cardinality(Missing') \in Nat /\ Cardinality(Missing) \in Nat
      BY <1>2, <3>1, Finite
    <3> QED BY <1>5, <3>2 DEF MissedFew
  <2>2. Cardinality(always') <= Cardinality(always) /\ Cardinality(always') \in Nat /\ Cardinality(always) \in Nat
    <3>1. always' \in SUBSET always /\ always \in SUBSET always /\ always' \subseteq always
      BY <1>1
    <3> QED BY <1>2, <3>1, Finite
  <2>3. KnowsTotal' = KnowsTotal
    BY <1>1 DEF KnowsTotal
  <2>4. R.total \in {"first", "apart"} /\ KnowsTotal => total >= Cardinality(always')
    <3> SUFFICES ASSUME R.total \in {"first", "apart"}, KnowsTotal PROVE total >= Cardinality(always')
      OBVIOUS
    <3>1. total >= Cardinality(always) /\ total \in Nat
      BY <1>2 DEF Told, Typed, KnowsTotal
    <3> QED BY <2>2, <3>1
  <2> QED BY <1>1, <1>2, <2>1, <2>3, <2>4 DEF Told
<1>9. BlocksRead => BlocksRead'
  <2> SUFFICES ASSUME BlocksRead, R.total = "each", R.sorted, ~R.dedupe, ~done
               PROVE  Len(got) = Len(asked) * Size /\ Cardinality(Unread(Len(got))') <= Cardinality(gone')
    BY <1>1 DEF BlocksRead, Unread
  <2> DEFINE m == Len(got)
             u == Unread(m)
             v == Unread(m)'
             t == {x \in list : Rank(list, x) = m + 1}
  <2>1. m = Len(asked) * Size /\ Cardinality(u) <= Cardinality(gone) /\ m \in Nat
    BY <1>3, LenProperties DEF BlocksRead
  <2> HIDE DEF m
  <2>2. v = {x \in always' : Rank(list', x) <= m /\ x \notin ToSet(got)}
    BY <1>1 DEF Unread, m
  <2>3. \A x \in v : x \in u \/ x \in t
    <3> SUFFICES ASSUME NEW x \in v PROVE x \in u \/ x \in t
      OBVIOUS
    <3>1. x \in always /\ x \in list \ {row} /\ Rank(list', x) <= m /\ x \notin ToSet(got)
      BY <1>1, <1>3, <2>2
    <3>2. Rank(list, x) <= Rank(list', x) + 1
      BY <1>1, <1>3, <3>1, RankShrinks
    <3>3. Cardinality(list) \in Nat /\ Cardinality(list') \in Nat /\ list' \subseteq Nat /\ x \in list'
      BY <1>1, <1>3, <1>5, <3>1, FS_CardinalityType
    <3>4. Rank(list, x) \in 1..Cardinality(list) /\ Rank(list', x) \in 1..Cardinality(list')
      BY <1>3, <1>5, <3>1, <3>3, RankBounds
    <3>5. Rank(list, x) <= m \/ Rank(list, x) = m + 1
      BY <2>1, <3>1, <3>2, <3>3, <3>4
    <3> QED BY <3>1, <3>5 DEF Unread
  <2>4. u \in SUBSET always /\ IsFiniteSet(u)
    <3>1. u \in SUBSET always /\ u \subseteq u
      BY DEF Unread
    <3> QED BY <1>2, <3>1, Finite
  <2>5. \E y : v \subseteq u \cup {y}
    <3>1. CASE t = {}
      BY <2>3, <3>1
    <3>2. CASE t # {}
      <4>1. PICK y \in list : Rank(list, y) = m + 1
        BY <3>2
      <4>2. \A x \in t : x = y
        BY <1>3, <4>1, RankTells
      <4>3. v \subseteq u \cup {y}
        <5> HIDE DEF t, u, v
        <5> QED BY <2>3, <4>2
      <4> QED BY <4>3
    <3> QED BY <3>1, <3>2
  <2> HIDE DEF u, v, t
  <2>6. PICK y : v \subseteq u \cup {y}
    BY <2>5
  <2>7. /\ IsFiniteSet(u \cup {y}) /\ Cardinality(u) \in Nat
        /\ Cardinality(u \cup {y}) = IF y \in u THEN Cardinality(u) ELSE Cardinality(u) + 1
    BY <2>4, FS_AddElement, FS_CardinalityType
  <2>8. IsFiniteSet(v) /\ Cardinality(v) <= Cardinality(u \cup {y})
    <3>1. v \in SUBSET (u \cup {y})
      BY <2>6
    <3> QED BY <2>7, <3>1, FS_Subset
  <2>9. Cardinality(v) \in Nat
    BY <2>8, FS_CardinalityType
  <2>10. Cardinality(v) <= Cardinality(gone')
    BY <1>5, <2>1, <2>7, <2>8, <2>9
  <2> QED BY <2>1, <2>10 DEF m, v
<1> QED BY <1>1, <1>2, <1>6, <1>7, <1>8, <1>9 DEF WalkInv

LEMMA WalkStep == WalkInv /\ [Next]_vars => WalkInv'
<1>1. ASSUME WalkInv, UNCHANGED vars PROVE WalkInv'
  <2>1. R' = R /\ UNCHANGED <<kind, list, always, gone, honest, page, got, total, asked, done>>
    BY <1>1 DEF vars, R
  <2>2. Typed' /\ InTurn'
    BY <1>1, <2>1 DEF WalkInv, Typed, Ever, InTurn
  <2>3. BlocksRead => BlocksRead'
    BY <2>1 DEF BlocksRead, Unread
  <2>4. Told => Told'
    BY <2>1 DEF Told, MissedFew, Missing, KnowsTotal
  <2> QED BY <1>1, <2>1, <2>2, <2>3, <2>4 DEF WalkInv
<1> QED BY <1>1, AskStep, FailsStep, CountApartStep, AppearsStep, DisappearsStep DEF Next

LEMMA Walking == Spec => []WalkInv
BY WalkInit, WalkStep, PTL DEF Spec

---------------------------------------------------------------------------
\* A walk that calls itself complete misses at most one row for each that was
\* removed meanwhile, or, told its total once or apart, as many as it has rows
\* that came or went; for any list however it changes, any pages that fail and
\* any order of an unsorted query (fetch.identity_groups_all, property_units,
\* dpsk_usernames, identity_details, adaptive_policies, access_points;
\* switches._query_all).
THEOREM CompleteHasAll == Spec => []CompleteMeansAll
<1>1. WalkInv => CompleteMeansAll
  <2> SUFFICES ASSUME WalkInv, KnowsTotal, Complete
               PROVE  /\ R.total = "each" /\ honest /\ (R.sorted \/ IsInjective(got)) => MissedFew
                      /\ R.total \in {"first", "apart"} =>
                            Cardinality(Missing) <= Cardinality(ToSet(got) \ always)
    BY DEF CompleteMeansAll, MissedFew
  <2>1. Told /\ Typed
    BY DEF WalkInv
  <2>2. ASSUME R.total = "each", honest, R.sorted \/ IsInjective(got) PROVE MissedFew
    BY <2>1, <2>2 DEF Told, KnowsTotal, Complete
  <2>3. ASSUME R.total \in {"first", "apart"}
        PROVE  Cardinality(Missing) <= Cardinality(ToSet(got) \ always)
    <3>1. total >= Cardinality(always) /\ total \in Nat /\ Cardinality(always) \in Nat
      BY <2>1, <2>3, Finite DEF Told, Typed, KnowsTotal
    <3>2. got \in Seq(Ever) /\ IsInjective(got) /\ Len(got) \in Nat
      BY <2>1, <2>3, Readers, LenProperties DEF Typed, R
    <3>3. Len(got) >= total
      <4>1. R.total = "first" => Least(total, Window) = total
        BY <3>1, WalksAssumption DEF KnowsTotal, Least
      <4> QED BY <4>1 DEF Complete
    <3>4. Cardinality(always) <= Len(got)
      BY <3>1, <3>2, <3>3
    <3>5. IsFiniteSet(always)
      BY <2>1, FS_Subset DEF Typed
    <3> QED BY <3>2, <3>4, <3>5, AsMany DEF Missing
  <2> QED BY <2>2, <2>3
<1> QED BY <1>1, Walking, PTL

\* No reader asks for a block of rows twice, under whatever number its pages
\* have, and one that knows its rows keeps none twice (switches._pages,
\* clients.query_all_clients_for_venue).
THEOREM EachBlockOnce == Spec => []ReadOnce
<1>1. WalkInv => ReadOnce
  <2> SUFFICES ASSUME WalkInv PROVE ReadOnce
    OBVIOUS
  <2>1. Typed /\ InTurn /\ R = Reader[kind] /\ kind \in Kinds /\ Len(asked) \in Nat
    BY LenProperties DEF WalkInv, Typed, InTurn, R
  <2>2. \A i \in 1..Len(asked) : Block(R, asked[i]) = i - 1
    <3> SUFFICES ASSUME NEW i \in 1..Len(asked) PROVE Block(R, asked[i]) = i - 1
      OBVIOUS
    <3>1. i \in Nat \ {0}
      BY <2>1
    <3>2. Block(R, PageAt(R, i)) = i - 1
      BY <2>1, <3>1, PagesInTurn
    <3> QED BY <2>1, <3>2 DEF InTurn
  <2>3. \A i, j \in 1..Len(asked) : Block(R, asked[i]) = Block(R, asked[j]) => i = j
    BY <2>1, <2>2
  <2> QED BY <2>1, <2>3 DEF ReadOnce, Typed
<1> QED BY <1>1, Walking, PTL

----------------------------------------------------------------------------
(* What a request may show, and the token it is served with, for any        *)
(* requests, routes, waves, threads and lives of a token.                   *)

\* A request is a record of these fields; what is true of each of them since
\* it began.
IsRequest(q) ==
    q \in [route: {q.route}, wave: {q.wave}, left: Nat, age: 0..MaxAge, lost: {q.lost},
          hidden: {q.hidden}, throughout: {q.throughout}]

\* The token it took had more than the margin, and loses no more than it ages.
TokenLasts(q) == q.left + q.age > Margin
\* What has been hidden ever since it began is hidden now, was when the PDF's
\* policy was read, and is nothing a route serves unredacted.
HiddenSince(q, now) ==
    /\ q.throughout \subseteq now
    /\ q.route = "report.pdf" => q.throughout \subseteq q.hidden
    /\ ~Reports(q) => q.throughout \cap Showable(q.route) = {}

Serves(q, now) == IsRequest(q) /\ TokenLasts(q) /\ HiddenSince(q, now)
RequestInv ==
    /\ cached \in Nat
    /\ DOMAIN req = Requests
    /\ \A r \in Active : Serves(req[r], hidden)

LEMMA RequestInit == ReportInit => RequestInv
BY DEF ReportInit, RequestInv, Active

\* A request begins with what the policy hides now and with a token of more
\* than the margin.
LEMMA StartedServes ==
    ASSUME NEW route, route = "config/detail" => Detail \notin hidden, cached \in Nat
    PROVE  TokenLeft \in Nat /\ Serves(Started(route, TokenLeft), hidden)
<1>1. TokenLeft \in Nat /\ TokenLeft > Margin /\ Margin \in Nat /\ MaxAge \in Nat
  BY ReportAssumption DEF TokenLeft, TokenFresh
<1>2. IsRequest(Started(route, TokenLeft)) /\ TokenLasts(Started(route, TokenLeft))
  BY <1>1 DEF IsRequest, TokenLasts, Started
<1>3. HiddenSince(Started(route, TokenLeft), hidden)
  BY DEF HiddenSince, Started, Reports, Showable
<1> QED BY <1>1, <1>2, <1>3 DEF Serves

\* What an answer, an error or a wave change in a request leaves it sound.
LEMMA StaysServes ==
    ASSUME NEW q, NEW now, Serves(q, now), NEW wave, NEW lost
    PROVE  /\ Serves([q EXCEPT !.lost = lost], now)
           /\ Serves([q EXCEPT !.wave = wave, !.lost = lost], now)
BY DEF Serves, IsRequest, TokenLasts, HiddenSince, Reports

\* A change of the policy takes from "throughout" what it shows again.
LEMMA HideServes ==
    ASSUME NEW q, NEW now, Serves(q, now), NEW h
    PROVE  Serves([q EXCEPT !.throughout = @ \cap h], h)
BY DEF Serves, IsRequest, TokenLasts, HiddenSince, Reports

\* Time takes from the token what it adds to the age, until the age is not told
\* apart any more, and is more than the margin then.
LEMMA TickServes ==
    ASSUME NEW q, NEW now, Serves(q, now)
    PROVE  Serves([q EXCEPT !.left = Down(@), !.age = Smaller(@ + 1, MaxAge)], now)
<1>1. Margin \in Nat /\ MaxAge \in Nat /\ MaxAge > Margin
  BY ReportAssumption
<1>2. q.left \in Nat /\ q.age \in 0..MaxAge /\ q.left + q.age > Margin
  BY DEF Serves, IsRequest, TokenLasts
<1>3. /\ Down(q.left) \in Nat /\ Smaller(q.age + 1, MaxAge) \in 0..MaxAge
      /\ Down(q.left) + Smaller(q.age + 1, MaxAge) > Margin
  BY <1>1, <1>2 DEF Down, Smaller
<1> QED BY <1>3 DEF Serves, IsRequest, TokenLasts, HiddenSince, Reports

\* A step that changes one request keeps the others as they are.
LEMMA OneChanges ==
    ASSUME RequestInv, NEW r \in Requests, NEW q, q = Idle \/ Serves(q, hidden),
           req' = [req EXCEPT ![r] = q], hidden' = hidden, cached' \in Nat
    PROVE  RequestInv'
<1>1. DOMAIN req' = Requests /\ req'[r] = q /\ \A s \in Requests \ {r} : req'[s] = req[s]
  BY DEF RequestInv
<1> QED BY <1>1 DEF RequestInv, Active

LEMMA RequestStep == RequestInv /\ [ReportNext]_reportVars => RequestInv'
<1> SUFFICES ASSUME RequestInv, [ReportNext]_reportVars PROVE RequestInv'
  OBVIOUS
<1>1. ASSUME NEW r \in Requests, NEW route \in Routes, Begin(r, route) PROVE RequestInv'
  <2>1. TokenLeft \in Nat /\ Serves(Started(route, TokenLeft), hidden)
    BY <1>1, StartedServes DEF Begin, RequestInv
  <2> QED BY <1>1, <2>1, OneChanges DEF Begin
<1>2. ASSUME NEW r \in Requests, NextWave(r) PROVE RequestInv'
  <2>1. /\ r \in Active /\ cached' = cached /\ hidden' = hidden
        /\ req' = [req EXCEPT ![r] = [@ EXCEPT !.wave = req[r].wave + 1,
                                               !.lost = IF Reports(req[r]) THEN req[r].lost ELSE {}]]
    BY <1>2 DEF NextWave
  <2>2. Serves([req[r] EXCEPT !.wave = req[r].wave + 1,
                             !.lost = IF Reports(req[r]) THEN req[r].lost ELSE {}], hidden)
    BY <2>1, StaysServes DEF RequestInv
  <2> QED BY <2>1, <2>2, OneChanges DEF RequestInv
<1>3. ASSUME NEW r \in Requests, Respond(r) PROVE RequestInv'
  BY <1>3, OneChanges DEF Respond, RequestInv
<1>4. CASE Thread
  BY <1>4 DEF Thread, RequestInv, Active
<1>5. ASSUME NEW x \in running, Outcome(x) PROVE RequestInv'
  <2>1. cached' = cached /\ hidden' = hidden
    BY <1>5 DEF Outcome, Answered, Defaulted, Raised, Finish
  <2>2. CASE req' = req
    BY <2>1, <2>2 DEF RequestInv, Active
  <2>3. CASE Current(x) /\ req' = [req EXCEPT ![x[1]] = Idle]
    BY <2>1, <2>3, OneChanges DEF Current, Active, RequestInv
  <2>4. CASE Current(x) /\ req' = [req EXCEPT ![x[1]].lost = @ \cup {x[2]}]
    <3>1. req' = [req EXCEPT ![x[1]] = [req[x[1]] EXCEPT !.lost = req[x[1]].lost \cup {x[2]}]]
      BY <2>4
    <3>2. Serves([req[x[1]] EXCEPT !.lost = req[x[1]].lost \cup {x[2]}], hidden)
      BY <2>4, StaysServes DEF Current, RequestInv
    <3> QED BY <2>1, <2>4, <3>1, <3>2, OneChanges DEF Current, Active, RequestInv
  <2>5. \/ req' = req
        \/ Current(x) /\ req' = [req EXCEPT ![x[1]] = Idle]
        \/ Current(x) /\ req' = [req EXCEPT ![x[1]].lost = @ \cup {x[2]}]
    BY <1>5 DEF Outcome, Answered, Defaulted, Raised
  <2> QED BY <2>2, <2>3, <2>4, <2>5
<1>6. ASSUME NEW h \in SUBSET (Sections \cup {Detail}), Hide(h) PROVE RequestInv'
  <2>1. /\ DOMAIN req' = Requests /\ cached' = cached /\ hidden' = h
        /\ \A r \in Requests : req'[r] = IF r \in Active
                                         THEN [req[r] EXCEPT !.throughout = req[r].throughout \cap h]
                                         ELSE Idle
    BY <1>6 DEF Hide
  <2>2. \A r \in Active : Serves([req[r] EXCEPT !.throughout = req[r].throughout \cap h], h)
    BY HideServes DEF RequestInv
  <2> QED BY <2>1, <2>2 DEF RequestInv, Active
<1>7. CASE Tick
  <2>1. /\ DOMAIN req' = Requests /\ cached' = Down(cached) /\ hidden' = hidden
        /\ \A r \in Requests : req'[r] = IF r \in Active
                THEN [req[r] EXCEPT !.left = Down(req[r].left), !.age = Smaller(req[r].age + 1, MaxAge)]
                ELSE Idle
    BY <1>7 DEF Tick
  <2>2. \A r \in Active :
           Serves([req[r] EXCEPT !.left = Down(req[r].left), !.age = Smaller(req[r].age + 1, MaxAge)], hidden)
    BY TickServes DEF RequestInv
  <2>3. cached' \in Nat
    <3>1. cached \in Nat /\ cached' = Down(cached)
      BY <2>1 DEF RequestInv
    <3> QED BY <3>1 DEF Down
  <2> QED BY <2>1, <2>2, <2>3 DEF RequestInv, Active
<1>8. CASE UNCHANGED reportVars
  BY <1>8 DEF reportVars, RequestInv, Active
<1> QED BY <1>1, <1>2, <1>3, <1>4, <1>5, <1>6, <1>7, <1>8 DEF ReportNext

---------------------------------------------------------------------------
\* A request meets a token past its time only when it has run for longer than
\* the margin the cache keeps (token_cache.get_cached_token,
\* r1_client.build_r1_client), however many requests share the token.
THEOREM MarginIsEnough == ReportSpec => []MarginHolds
<1>1. RequestInv => MarginHolds
  BY ReportAssumption DEF RequestInv, Serves, IsRequest, TokenLasts, MarginHolds
<1> QED BY <1>1, RequestInit, RequestStep, PTL DEF ReportSpec

\* What the policy hides from the beginning of a request to its end is in no
\* answer, and the page shows nothing that is hidden when it is sent, whatever
\* an administrator changes meanwhile (prism_router.get_report, get_report_pdf).
THEOREM HiddenIsHonoured == ReportSpec => HiddenHonoured
<1> DEFINE Honoured == \A r \in Requests : Respond(r) =>
                          /\ Shown(req[r]) \cap req[r].throughout = {}
                          /\ req[r].route = "report" => Shown(req[r]) \cap hidden = {}
<1>1. RequestInv => Honoured
  <2> SUFFICES ASSUME RequestInv, NEW r \in Active
               PROVE  /\ Shown(req[r]) \cap req[r].throughout = {}
                      /\ req[r].route = "report" => Shown(req[r]) \cap hidden = {}
    BY DEF Respond
  <2>1. HiddenSince(req[r], hidden)
    BY DEF RequestInv, Serves
  <2>2. CASE req[r].route = "report"
    BY <2>1, <2>2 DEF HiddenSince, Shown, Reports, HiddenUsed
  <2>3. CASE req[r].route = "report.pdf"
    BY <2>1, <2>3 DEF HiddenSince, Shown, Reports, HiddenUsed
  <2>4. CASE ~Reports(req[r])
    BY <2>1, <2>4 DEF HiddenSince, Shown, Reports
  <2> QED BY <2>2, <2>3, <2>4 DEF Reports
<1>2. RequestInv /\ [ReportNext]_reportVars => [Honoured]_reportVars
  BY <1>1
<1> QED BY <1>2, RequestInit, RequestStep, PTL DEF ReportSpec, HiddenHonoured
============================================================================
