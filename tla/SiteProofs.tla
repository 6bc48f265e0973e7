----------------------------- MODULE SiteProofs -----------------------------
(***************************************************************************)
(* The small parts of the documentation sites, for every value of their    *)
(* constants: the stored searches (SearchHistory), the search in the menu  *)
(* (MenuSearch) and the settings of a page (SiteSettings).  At the end, the *)
(* types of all small parts in one specification (MCParts).                *)
(***************************************************************************)
EXTENDS MCParts, ServerPartsProofs, SequenceTheorems

(***************************************************************************)
(* Lists.                                                                  *)
(***************************************************************************)

\* One turn of the loop that leaves out an item, and the loop up to n.
Turn(s, i, r, n) == IF s[n] # i THEN Append(r, s[n]) ELSE r

Loop(s, i, n, f) == f[0] = <<>> /\ \A k \in 1 .. n : f[k] = Turn(s, i, f[k - 1], k)

\* What is left of the first n elements.
LeftOf(s, i, n, r) ==
    /\ Len(r) <= n
    /\ Only(r) = {s[k] : k \in 1 .. n} \ {i}
    /\ (\A k, m \in 1 .. n : s[k] = s[m] => k = m) => Distinct(r)

LEMMA OnlyOfAppend ==
  ASSUME NEW S, NEW r \in Seq(S), NEW x \in S
  PROVE  /\ Append(r, x) \in Seq(S) /\ Len(Append(r, x)) = Len(r) + 1
         /\ Only(Append(r, x)) = Only(r) \cup {x}
         /\ Distinct(r) /\ x \notin Only(r) => Distinct(Append(r, x))
BY DEF Only, Distinct

LEMMA TurnKeeps ==
  ASSUME NEW S, NEW s \in Seq(S), NEW i, NEW n \in 0 .. Len(s) - 1, NEW r \in Seq(S),
         LeftOf(s, i, n, r)
  PROVE  LeftOf(s, i, n + 1, Turn(s, i, r, n + 1))
<1> DEFINE x == s[n + 1]
<1>1. /\ x \in S /\ n \in Nat /\ Len(s) \in Nat /\ n + 1 \in 1 .. Len(s) /\ Len(r) \in Nat
      /\ n \in 0 .. n + 1
  OBVIOUS
<1>2. {s[k] : k \in 1 .. n + 1} = {s[k] : k \in 1 .. n} \cup {x}
  BY <1>1
<1>3. CASE x # i
  <2>1. /\ Append(r, x) \in Seq(S) /\ Len(Append(r, x)) = Len(r) + 1
        /\ Only(Append(r, x)) = Only(r) \cup {x}
        /\ Distinct(r) /\ x \notin Only(r) => Distinct(Append(r, x))
    BY <1>1, OnlyOfAppend
  <2>2. ASSUME \A k, m \in 1 .. n + 1 : s[k] = s[m] => k = m
        PROVE  Distinct(Append(r, x))
    <3>1. \A k, m \in 1 .. n : s[k] = s[m] => k = m
      BY <1>1, <2>2
    <3>2. x \notin {s[k] : k \in 1 .. n}
      BY <1>1, <2>2
    <3> QED
      BY <2>1, <3>1, <3>2 DEF LeftOf
  <2>3. Len(Append(r, x)) <= n + 1
    BY <1>1, <2>1 DEF LeftOf
  <2>4. Only(Append(r, x)) = {s[k] : k \in 1 .. n + 1} \ {i}
    BY <1>2, <1>3, <2>1 DEF LeftOf
  <2> QED
    BY <1>3, <2>1, <2>2, <2>3, <2>4 DEF LeftOf, Turn
<1>4. CASE x = i
  <2>1. (\A k, m \in 1 .. n + 1 : s[k] = s[m] => k = m) => Distinct(r)
    BY <1>1 DEF LeftOf
  <2>2. Only(r) = {s[k] : k \in 1 .. n + 1} \ {i}
    BY <1>2, <1>4 DEF LeftOf
  <2>3. Len(r) <= n + 1
    BY <1>1 DEF LeftOf
  <2> QED
    BY <1>4, <2>1, <2>2, <2>3 DEF LeftOf, Turn
<1> QED
  BY <1>3, <1>4

(* What the loop has left, up to the first place where it would not.       *)
LEMMA LoopLeaves ==
  ASSUME NEW S, NEW s \in Seq(S), NEW i, NEW f, Loop(s, i, Len(s), f)
  PROVE  \A n \in 0 .. Len(s) : f[n] \in Seq(S) /\ LeftOf(s, i, n, f[n])
<1> DEFINE Bad == {n \in 0 .. Len(s) : ~(f[n] \in Seq(S) /\ LeftOf(s, i, n, f[n]))}
<1>1. Len(s) \in Nat
  OBVIOUS
<1> SUFFICES ASSUME Bad # {} PROVE FALSE
  OBVIOUS
<1>2. Bad \in SUBSET Nat
  BY <1>1
<1>3. PICK n \in Bad : \A m \in Bad : n <= m
  BY <1>2, LeastNumber
<1>4. n \in Nat /\ n \in 0 .. Len(s)
  BY <1>1, <1>3
<1>5. CASE n = 0
  <2>1. f[0] = <<>> /\ <<>> \in Seq(S) /\ Len(<<>>) = 0
    BY DEF Loop
  <2>2. LeftOf(s, i, 0, <<>>)
    BY DEF LeftOf, Only, Distinct
  <2> QED
    BY <1>3, <1>5, <2>1, <2>2
<1>6. CASE n # 0
  <2> DEFINE m == n - 1
  <2>1. m \in 0 .. Len(s) - 1 /\ m \in Nat /\ m + 1 = n /\ n \in 1 .. Len(s) /\ ~(n <= m)
    BY <1>1, <1>4, <1>6
  <2>2. m \in 0 .. Len(s) /\ m \notin Bad
    BY <1>1, <1>3, <2>1
  <2>3. f[m] \in Seq(S) /\ LeftOf(s, i, m, f[m])
    BY <2>2
  <2>4. f[n] = Turn(s, i, f[m], n)
    BY <2>1 DEF Loop
  <2> HIDE DEF m
  <2>5. LeftOf(s, i, n, f[n])
    BY <2>1, <2>3, <2>4, TurnKeeps
  <2>6. f[n] \in Seq(S)
    BY <2>1, <2>3, <2>4 DEF Turn
  <2> QED
    BY <1>3, <2>5, <2>6
<1> QED
  BY <1>5, <1>6

(* The loop computes something, up to any place.                           *)
LEMMA LoopExists ==
  ASSUME NEW S, NEW s \in Seq(S), NEW i
  PROVE  \E f : DOMAIN f = 0 .. Len(s) /\ Loop(s, i, Len(s), f) /\ f = [n \in 0 .. Len(s) |-> f[n]]
<1> DEFINE Bad == {n \in 0 .. Len(s) : ~\E f : Loop(s, i, n, f)}
<1>1. Len(s) \in Nat
  OBVIOUS
<1>2. Bad \in SUBSET Nat
  BY <1>1
<1>3. Bad = {}
  <2> SUFFICES ASSUME Bad # {} PROVE FALSE
    OBVIOUS
  <2>1. PICK n \in Bad : \A m \in Bad : n <= m
    BY <1>2, LeastNumber
  <2>2. n \in Nat /\ n \in 0 .. Len(s)
    BY <1>1, <2>1
  <2>3. CASE n = 0
    <3> DEFINE g == [k \in {0} |-> <<>>]
    <3>1. Loop(s, i, 0, g)
      BY DEF Loop
    <3> QED
      BY <2>1, <2>3, <3>1
  <2>4. CASE n # 0
    <3>1. n - 1 \in 0 .. Len(s) /\ n - 1 \notin Bad /\ n - 1 \in Nat
      BY <1>1, <2>1, <2>2, <2>4
    <3>2. PICK f : Loop(s, i, n - 1, f)
      BY <3>1
    <3> DEFINE g == [k \in 0 .. n |-> IF k = n THEN Turn(s, i, f[n - 1], n) ELSE f[k]]
    <3>3. g[0] = <<>> /\ g[n] = Turn(s, i, f[n - 1], n) /\ \A k \in 0 .. n - 1 : g[k] = f[k]
      BY <2>2, <2>4, <3>1, <3>2 DEF Loop
    <3> HIDE DEF g
    <3>4. ASSUME NEW k \in 1 .. n
          PROVE  g[k] = Turn(s, i, g[k - 1], k)
      <4>1. k \in Nat /\ k - 1 \in 0 .. n - 1
        BY <2>2
      <4>2. CASE k = n
        BY <3>3, <4>1, <4>2
      <4>3. CASE k # n
        <5>1. k \in 1 .. n - 1 /\ k \in 0 .. n - 1
          BY <2>2, <4>3
        <5> QED
          BY <3>2, <3>3, <4>1, <5>1 DEF Loop
      <4> QED
        BY <4>2, <4>3
    <3>5. Loop(s, i, n, g)
      BY <3>3, <3>4 DEF Loop
    <3> QED
      BY <2>1, <3>5
  <2> QED
    BY <2>3, <2>4
<1>4. PICK f : Loop(s, i, Len(s), f)
  BY <1>1, <1>3
<1> DEFINE g == [n \in 0 .. Len(s) |-> f[n]]
<1>5. \A n \in 0 .. Len(s) : g[n] = f[n]
  OBVIOUS
<1>6. DOMAIN g = 0 .. Len(s) /\ g = [n \in 0 .. Len(s) |-> g[n]]
  OBVIOUS
<1> HIDE DEF g
<1>7. Loop(s, i, Len(s), g)
  <2>1. 0 \in 0 .. Len(s)
    BY <1>1
  <2>2. \A k \in 1 .. Len(s) : k \in 0 .. Len(s) /\ k - 1 \in 0 .. Len(s)
    BY <1>1
  <2> QED
    BY <1>4, <1>5, <2>1, <2>2 DEF Loop
<1> QED
  BY <1>6, <1>7

(* A list without an item holds the others, each as often as before.       *)
LEMMA WithoutIs ==
  ASSUME NEW S, NEW s \in Seq(S), NEW i
  PROVE  /\ Without(s, i) \in Seq(S) /\ Len(Without(s, i)) <= Len(s)
         /\ Only(Without(s, i)) = Only(s) \ {i}
         /\ Distinct(s) => Distinct(Without(s, i))
<1> DEFINE Is(f) ==
      f = [n \in 0 .. Len(s) |->
             IF n = 0 THEN <<>> ELSE IF s[n] # i THEN Append(f[n - 1], s[n]) ELSE f[n - 1]]
           left == CHOOSE f : Is(f)
<1>1. Without(s, i) = left[Len(s)] /\ Len(s) \in Nat
  BY DEF Without
<1>2. \E f : Is(f)
  <2>1. PICK f : DOMAIN f = 0 .. Len(s) /\ Loop(s, i, Len(s), f) /\ f = [n \in 0 .. Len(s) |-> f[n]]
    BY LoopExists
  <2>2. \A n \in 0 .. Len(s) : f[n] =
            IF n = 0 THEN <<>> ELSE IF s[n] # i THEN Append(f[n - 1], s[n]) ELSE f[n - 1]
    <3> SUFFICES ASSUME NEW n \in 0 .. Len(s)
                 PROVE  f[n] = IF n = 0 THEN <<>>
                               ELSE IF s[n] # i THEN Append(f[n - 1], s[n]) ELSE f[n - 1]
      OBVIOUS
    <3>1. n # 0 => n \in 1 .. Len(s)
      BY <1>1
    <3> QED
      BY <2>1, <3>1 DEF Loop, Turn
  <2>3. Is(f)
    BY <2>1, <2>2
  <2> QED
    BY <2>3
<1>3. Is(left)
  BY <1>2
<1> HIDE DEF left
<1>4. Loop(s, i, Len(s), left)
  <2>1. \A n \in 0 .. Len(s) : left[n] =
            IF n = 0 THEN <<>> ELSE IF s[n] # i THEN Append(left[n - 1], s[n]) ELSE left[n - 1]
    BY <1>3, Zenon
  <2>2. 0 \in 0 .. Len(s) /\ \A k \in 1 .. Len(s) : k \in 0 .. Len(s) /\ k # 0
    BY <1>1
  <2> QED
    BY <2>1, <2>2 DEF Loop, Turn
<1>5. left[Len(s)] \in Seq(S) /\ LeftOf(s, i, Len(s), left[Len(s)])
  BY <1>1, <1>4, LoopLeaves
<1> QED
  BY <1>1, <1>5 DEF LeftOf, Only, Distinct

LEMMA SliceIs ==
  ASSUME NEW S, NEW s \in Seq(S), NEW n \in Nat
  PROVE  /\ Slice(s, n) \in Seq(S) /\ Len(Slice(s, n)) <= n /\ Len(Slice(s, n)) <= Len(s)
         /\ Len(s) <= n => Slice(s, n) = s
         /\ Len(s) > n => Len(Slice(s, n)) = n
         /\ Only(Slice(s, n)) \subseteq Only(s)
         /\ Distinct(s) => Distinct(Slice(s, n))
<1> DEFINE m == IF Len(s) < n THEN Len(s) ELSE n
           q == SubSeq(s, 1, m)
<1>1. m \in Nat /\ m <= n /\ m <= Len(s) /\ Len(s) \in Nat /\ (Len(s) <= n => m = Len(s))
      /\ (Len(s) > n => m = n)
  OBVIOUS
<1>2. Slice(s, n) = q
  BY DEF Slice
<1> HIDE DEF m
<1>3. q \in Seq(S) /\ Len(q) = m /\ \A k \in 1 .. m : q[k] = s[k]
  BY <1>1
<1>4. Len(s) <= n => q = s
  BY <1>1, <1>3, SeqEqual
<1> HIDE DEF q
<1>5. Only(q) \subseteq Only(s)
  BY <1>1, <1>3 DEF Only
<1>6. Distinct(s) => Distinct(q)
  BY <1>1, <1>3 DEF Distinct
<1> QED
  BY <1>1, <1>2, <1>3, <1>4, <1>5, <1>6

(* Items fall off a full list only.                                        *)
LEMMA AddIs ==
  ASSUME NEW S, NEW s \in Seq(S), NEW i \in S, NEW n \in Nat \ {0}
  PROVE  /\ Add(s, i, n) \in Seq(S) /\ Len(Add(s, i, n)) <= n
         /\ Only(Add(s, i, n)) \subseteq Only(s) \cup {i}
         /\ Len(Add(s, i, n)) # n => Only(s) \subseteq Only(Add(s, i, n))
         /\ Distinct(s) => Distinct(Add(s, i, n))
<1> DEFINE w == Without(s, i)
           q == <<i>> \o w
<1>1. /\ w \in Seq(S) /\ Only(w) = Only(s) \ {i} /\ (Distinct(s) => Distinct(w))
  BY WithoutIs
<1> HIDE DEF w
<1>2. /\ q \in Seq(S) /\ Len(q) = Len(w) + 1 /\ Len(w) \in Nat /\ q[1] = i
      /\ \A k \in 2 .. Len(q) : q[k] = w[k - 1]
  BY <1>1
<1>3. Add(s, i, n) = Slice(q, n)
  BY DEF Add, w
<1> HIDE DEF q
<1>4. \A k \in 1 .. Len(w) : q[k + 1] = w[k]
  BY <1>2
<1>5. Only(q) = Only(s) \cup {i}
  <2>1. ASSUME NEW x \in Only(q)
        PROVE  x \in Only(w) \cup {i}
    <3>1. PICK k \in 1 .. Len(q) : x = q[k]
      BY <2>1 DEF Only
    <3>2. k = 1 \/ k \in 2 .. Len(q)
      BY <1>2
    <3>3. k # 1 => k - 1 \in 1 .. Len(w) /\ x = w[k - 1]
      BY <1>2, <3>1, <3>2
    <3> QED
      BY <1>2, <3>1, <3>3 DEF Only
  <2>2. ASSUME NEW x \in Only(w)
        PROVE  x \in Only(q)
    <3>1. PICK k \in 1 .. Len(w) : x = w[k]
      BY <2>2 DEF Only
    <3>2. k + 1 \in 1 .. Len(q) /\ x = q[k + 1]
      BY <1>2, <1>4, <3>1
    <3> QED
      BY <3>2 DEF Only
  <2>3. i \in Only(q)
    BY <1>2 DEF Only
  <2> QED
    BY <1>1, <2>1, <2>2, <2>3
<1>6. ASSUME Distinct(s)
      PROVE  Distinct(q)
  <2> SUFFICES ASSUME NEW j \in 1 .. Len(q), NEW k \in 1 .. Len(q), q[j] = q[k], j # 1
               PROVE  j = k
    BY DEF Distinct
  <2>1. j - 1 \in 1 .. Len(w) /\ q[j] = w[j - 1]
    BY <1>2
  <2>2. w[j - 1] # i
    BY <1>1, <2>1 DEF Only
  <2>3. k # 1
    BY <1>2, <2>1, <2>2
  <2>4. k - 1 \in 1 .. Len(w) /\ q[k] = w[k - 1]
    BY <1>2, <2>3
  <2>5. j - 1 = k - 1
    BY <1>1, <1>6, <2>1, <2>4 DEF Distinct
  <2> QED
    BY <2>5
<1>7. Len(q) <= n \/ Len(q) > n
  BY <1>2
<1>8. /\ Slice(q, n) \in Seq(S) /\ Len(Slice(q, n)) <= n
      /\ Len(q) <= n => Slice(q, n) = q
      /\ Len(q) > n => Len(Slice(q, n)) = n
      /\ Only(Slice(q, n)) \subseteq Only(q)
      /\ Distinct(q) => Distinct(Slice(q, n))
  BY <1>2, SliceIs
<1> QED
  BY <1>3, <1>5, <1>6, <1>7, <1>8

-----------------------------------------------------------------------------
(***************************************************************************)
(* The stored searches.  Each step changes what one dialog shows, and what *)
(* is stored.                                                              *)
(***************************************************************************)

\* A dialog that is not open shows nothing.
ClosedIsEmpty ==
    \A t \in HistoryTabs \ open : fav[t] = <<>> /\ recent[t] = <<>> /\ armed[t] = {}

HistInv == HistoryTypeOK /\ ClosedIsEmpty

StoredOK ==
    /\ \A l \in Lists : Distinct(storage[l])
    /\ Len(storage["favorite"]) <= FavoriteLimit /\ Len(storage["recent"]) <= LongLimit
    /\ Only(storage["favorite"]) \cap Only(storage["recent"]) = {}

\* With turns there is one dialog, and it shows what is stored.
TurnsInv ==
    /\ HistInv /\ ListsOK /\ ShownIsStored /\ StoredOK
    /\ \A t, u \in open : t = u
    /\ \A t \in HistoryTabs : \A b \in armed[t] : b.act = "save" => b.list = "recent"

\* The buttons `a` belong to hits of the lists.
ButtonsFit(a, f, r) == \A b \in a : b.item \in Only(IF b.list = "favorite" THEN f ELSE r)

Changed(t, f, r, n, a) ==
    /\ fav' = [fav EXCEPT ![t] = f] /\ recent' = [recent EXCEPT ![t] = r]
    /\ limit' = [limit EXCEPT ![t] = n] /\ armed' = [armed EXCEPT ![t] = a]

\* A dialog that is not open any more shows nothing.
Opens(t, f, r, a) ==
    /\ \/ open' = open \cup {t}
       \/ open' = open \ {t} /\ f = <<>> /\ r = <<>> /\ a = {}
    /\ works' = works

LEMMA DialogTypes ==
  ASSUME HistInv, NEW t \in HistoryTabs, NEW f \in Seq(Items), NEW r \in Seq(Items),
         NEW n \in {ShortLimit, LongLimit}, NEW a \in SUBSET Buttons,
         Changed(t, f, r, n, a), ButtonsFit(a, f, r), Opens(t, f, r, a),
         storage' \in [Lists -> Seq(Items)]
  PROVE  HistInv'
<1>1. \A u \in HistoryTabs :
          /\ fav'[u] = IF u = t THEN f ELSE fav[u]
          /\ recent'[u] = IF u = t THEN r ELSE recent[u]
          /\ armed'[u] = IF u = t THEN a ELSE armed[u]
  BY DEF Changed, HistInv, HistoryTypeOK
<1>2. /\ fav' \in [HistoryTabs -> Seq(Items)] /\ recent' \in [HistoryTabs -> Seq(Items)]
      /\ limit' \in [HistoryTabs -> {ShortLimit, LongLimit}]
      /\ armed' \in [HistoryTabs -> SUBSET Buttons]
  BY DEF Changed, HistInv, HistoryTypeOK
<1>3. open' \subseteq HistoryTabs /\ works' \in BOOLEAN
  BY DEF Opens, HistInv, HistoryTypeOK
<1>4. ASSUME NEW u \in HistoryTabs, NEW b \in armed'[u]
      PROVE  b.item \in Only(IF b.list = "favorite" THEN fav'[u] ELSE recent'[u])
  BY <1>1, <1>4 DEF ButtonsFit, HistInv, HistoryTypeOK
<1>5. ClosedIsEmpty'
  BY <1>1 DEF Opens, HistInv, ClosedIsEmpty
<1> QED
  BY <1>2, <1>3, <1>4, <1>5 DEF HistInv, HistoryTypeOK

LEMMA DialogTurns ==
  ASSUME TurnsInv, HistInv', NEW t \in HistoryTabs, NEW f, NEW r, NEW n, NEW a,
         Changed(t, f, r, n, a), Opens(t, f, r, a), open \subseteq {t},
         StoredOK',
         Distinct(f), Len(f) <= FavoriteLimit, Distinct(r), Len(r) <= n,
         Only(f) \cap Only(r) = {},
         \A b \in a : b.act = "save" => b.list = "recent",
         works /\ t \in open' => f = storage'["favorite"] /\ r = Slice(storage'["recent"], n)
  PROVE  TurnsInv'
<1>1. \A u \in HistoryTabs :
          /\ fav'[u] = IF u = t THEN f ELSE fav[u]
          /\ recent'[u] = IF u = t THEN r ELSE recent[u]
          /\ limit'[u] = IF u = t THEN n ELSE limit[u]
          /\ armed'[u] = IF u = t THEN a ELSE armed[u]
  BY DEF Changed, TurnsInv, HistInv, HistoryTypeOK
<1>2. open' \subseteq {t}
  BY DEF Opens
<1>3. ListsOK'
  BY <1>1 DEF TurnsInv, ListsOK, StoredOK
<1>4. ShownIsStored'
  BY <1>1, <1>2 DEF Opens, ShownIsStored
<1>5. \A u \in HistoryTabs : \A b \in armed'[u] : b.act = "save" => b.list = "recent"
  BY <1>1 DEF TurnsInv
<1> QED
  BY <1>2, <1>3, <1>4, <1>5 DEF TurnsInv

LEMMA SaveIs ==
  ASSUME HistInv, NEW f \in Seq(Items), NEW r \in Seq(Items), Save(f, r)
  PROVE  /\ storage' \in [Lists -> Seq(Items)]
         /\ works => storage'["favorite"] = f /\ storage'["recent"] = r
         /\ ~works => storage' = storage
BY DEF HistInv, HistoryTypeOK, Save, Lists

\* What is written in turn is right if the dialog's lists are.
LEMMA SaveKeeps ==
  ASSUME TurnsInv, NEW f \in Seq(Items), NEW r \in Seq(Items), Save(f, r),
         works => /\ Distinct(f) /\ Len(f) <= FavoriteLimit
                  /\ Distinct(r) /\ Len(r) <= LongLimit /\ Only(f) \cap Only(r) = {}
  PROVE  StoredOK'
<1>1. CASE works
  BY <1>1, SaveIs DEF TurnsInv, StoredOK, Lists
<1>2. CASE ~works
  BY <1>2, SaveIs DEF TurnsInv, StoredOK
<1> QED
  BY <1>1, <1>2

LEMMA LimitFacts ==
  /\ FavoriteLimit \in Nat \ {0} /\ ShortLimit \in Nat \ {0} /\ LongLimit \in Nat \ {0}
  /\ ShortLimit <= LongLimit
BY LimitsOK

LEMMA EmptyList ==
  /\ <<>> \in Seq(Items) /\ Len(<<>>) = 0 /\ Only(<<>>) = {} /\ Distinct(<<>>)
BY DEF Only, Distinct

LEMMA OpenKeeps ==
  ASSUME HistInv, NEW t \in HistoryTabs, Open(t)
  PROVE  HistInv' /\ (TakeTurns /\ TurnsInv => TurnsInv')
<1> DEFINE f == Slice(storage["favorite"], FavoriteLimit)
           n == IF f = <<>> THEN LongLimit ELSE ShortLimit
           r == Slice(storage["recent"], n)
<1>1. storage["favorite"] \in Seq(Items) /\ storage["recent"] \in Seq(Items)
  BY DEF HistInv, HistoryTypeOK, Lists
<1>2. n \in {ShortLimit, LongLimit} /\ n \in Nat
  BY LimitFacts
<1>3. armed[t] = {}
  BY DEF Open, HistInv, ClosedIsEmpty
<1>4. Changed(t, f, r, n, {}) /\ Opens(t, f, r, {}) /\ UNCHANGED storage
  <2>1. armed' = armed /\ armed = [armed EXCEPT ![t] = {}]
    BY <1>3 DEF Open, HistInv, HistoryTypeOK
  <2> QED
    BY <2>1 DEF Open, Changed, Opens
<1>5. f \in Seq(Items) /\ r \in Seq(Items)
  BY <1>1, <1>2, LimitFacts, SliceIs
<1>6. ButtonsFit({}, f, r) /\ storage' \in [Lists -> Seq(Items)]
  BY <1>4 DEF ButtonsFit, HistInv, HistoryTypeOK
<1> HIDE DEF f, n, r
<1>7. HistInv'
  BY <1>2, <1>4, <1>5, <1>6, DialogTypes
<1>8. ASSUME TakeTurns, TurnsInv
      PROVE  TurnsInv'
  <2>1. open = {}
    BY <1>8 DEF Open
  <2>2. /\ Distinct(storage["favorite"]) /\ Len(storage["favorite"]) <= FavoriteLimit
        /\ Distinct(storage["recent"])
        /\ Only(storage["favorite"]) \cap Only(storage["recent"]) = {}
    BY <1>8 DEF TurnsInv, StoredOK, Lists
  <2>3. f = storage["favorite"]
    BY <1>1, <2>2, LimitFacts, SliceIs DEF f
  <2>4. Distinct(r) /\ Len(r) <= n /\ Only(r) \subseteq Only(storage["recent"])
    BY <1>1, <1>2, <2>2, SliceIs DEF r
  <2>5. StoredOK'
    BY <1>4, <1>8 DEF TurnsInv, StoredOK
  <2>6. r = Slice(storage'["recent"], n) /\ f = storage'["favorite"]
    BY <1>4, <2>3 DEF r
  <2> QED
    BY <1>4, <1>7, <1>8, <2>1, <2>2, <2>3, <2>4, <2>5, <2>6, DialogTurns
<1> QED
  BY <1>7, <1>8

\* The dialog that is open is the only one.
LEMMA OneIsOpen ==
  ASSUME TurnsInv, NEW t \in open
  PROVE  /\ open \subseteq {t}
         /\ Distinct(fav[t]) /\ Len(fav[t]) <= FavoriteLimit
         /\ Distinct(recent[t]) /\ Len(recent[t]) <= limit[t]
         /\ Only(fav[t]) \cap Only(recent[t]) = {}
         /\ works => fav[t] = storage["favorite"] /\ recent[t] = Slice(storage["recent"], limit[t])
BY DEF TurnsInv, HistInv, HistoryTypeOK, ListsOK, ShownIsStored

LEMMA GoneKeeps ==
  ASSUME HistInv, NEW t \in open, Gone(t), works' = works, storage' \in [Lists -> Seq(Items)]
  PROVE  HistInv' /\ (TurnsInv /\ StoredOK' => TurnsInv')
<1>1. t \in HistoryTabs
  BY DEF HistInv, HistoryTypeOK
<1>2. Changed(t, <<>>, <<>>, LongLimit, {}) /\ Opens(t, <<>>, <<>>, {})
  BY DEF Gone, Changed, Opens
<1>3. HistInv'
  BY <1>1, <1>2, EmptyList, DialogTypes DEF ButtonsFit
<1>4. ASSUME TurnsInv, StoredOK'
      PROVE  TurnsInv'
  <2>1. open \subseteq {t} /\ t \notin open'
    BY <1>4, OneIsOpen DEF Gone
  <2>2. Len(<<>>) <= FavoriteLimit /\ Len(<<>>) <= LongLimit
    BY LimitFacts, EmptyList
  <2> QED
    BY <1>1, <1>2, <1>3, <1>4, <2>1, <2>2, EmptyList, DialogTurns
<1> QED
  BY <1>3, <1>4

\* Nothing is stored, and fewer or other buttons are armed.
LEMMA ButtonsKeep ==
  ASSUME HistInv, NEW t \in open, NEW a \in SUBSET Buttons,
         armed' = [armed EXCEPT ![t] = a], ButtonsFit(a, fav[t], recent[t]),
         UNCHANGED <<works, storage, open, fav, recent, limit>>
  PROVE  HistInv' /\ (TurnsInv /\ (\A b \in a : b.act = "save" => b.list = "recent") => TurnsInv')
<1>1. t \in HistoryTabs
  BY DEF HistInv, HistoryTypeOK
<1>2. Changed(t, fav[t], recent[t], limit[t], a) /\ Opens(t, fav[t], recent[t], a)
  <2>1. /\ fav = [fav EXCEPT ![t] = fav[t]] /\ recent = [recent EXCEPT ![t] = recent[t]]
        /\ limit = [limit EXCEPT ![t] = limit[t]]
    BY <1>1 DEF HistInv, HistoryTypeOK
  <2>2. open = open \cup {t}
    OBVIOUS
  <2> QED
    BY <2>1, <2>2 DEF Changed, Opens
<1>3. /\ fav[t] \in Seq(Items) /\ recent[t] \in Seq(Items) /\ limit[t] \in {ShortLimit, LongLimit}
      /\ storage' \in [Lists -> Seq(Items)]
  BY <1>1 DEF HistInv, HistoryTypeOK
<1>4. HistInv'
  BY <1>1, <1>2, <1>3, DialogTypes
<1>5. ASSUME TurnsInv, \A b \in a : b.act = "save" => b.list = "recent"
      PROVE  TurnsInv'
  <2>1. StoredOK'
    BY <1>5 DEF TurnsInv, StoredOK
  <2>2. works => fav[t] = storage'["favorite"] /\ recent[t] = Slice(storage'["recent"], limit[t])
    BY <1>5, OneIsOpen
  <2>3. /\ open \subseteq {t}
        /\ Distinct(fav[t]) /\ Len(fav[t]) <= FavoriteLimit
        /\ Distinct(recent[t]) /\ Len(recent[t]) <= limit[t]
        /\ Only(fav[t]) \cap Only(recent[t]) = {}
    BY <1>5, OneIsOpen
  <2> QED
    BY <1>1, <1>2, <1>4, <1>5, <2>1, <2>2, <2>3, DialogTurns
<1> QED
  BY <1>4, <1>5

LEMMA StillShownFits ==
  ASSUME HistInv, NEW t \in HistoryTabs, NEW f, NEW r
  PROVE  /\ StillShown(t, f, r) \in SUBSET Buttons /\ StillShown(t, f, r) \subseteq armed[t]
         /\ ButtonsFit(StillShown(t, f, r), f, r)
BY DEF StillShown, ButtonsFit, HistInv, HistoryTypeOK

(* A step that changes what an open dialog shows, and what is stored.      *)
LEMMA ShownKeeps ==
  ASSUME HistInv, NEW t \in open, NEW f \in Seq(Items), NEW r \in Seq(Items),
         fav' = [fav EXCEPT ![t] = f], recent' = [recent EXCEPT ![t] = r],
         armed' = [armed EXCEPT ![t] = StillShown(t, f, r)],
         UNCHANGED <<works, open, limit>>, storage' \in [Lists -> Seq(Items)]
  PROVE  /\ HistInv'
         /\ TurnsInv /\ StoredOK' /\ Distinct(f) /\ Len(f) <= FavoriteLimit /\ Distinct(r)
            /\ Len(r) <= limit[t] /\ Only(f) \cap Only(r) = {}
            /\ (works => f = storage'["favorite"] /\ r = Slice(storage'["recent"], limit[t]))
            => TurnsInv'
<1> DEFINE a == StillShown(t, f, r)
<1>1. t \in HistoryTabs
  BY DEF HistInv, HistoryTypeOK
<1>2. a \in SUBSET Buttons /\ a \subseteq armed[t] /\ ButtonsFit(a, f, r)
  BY <1>1, StillShownFits
<1>3. Changed(t, f, r, limit[t], a) /\ Opens(t, f, r, a)
  <2>1. limit = [limit EXCEPT ![t] = limit[t]] /\ open = open \cup {t}
    BY <1>1 DEF HistInv, HistoryTypeOK
  <2> QED
    BY <2>1 DEF Changed, Opens
<1> HIDE DEF a
<1>4. limit[t] \in {ShortLimit, LongLimit}
  BY <1>1 DEF HistInv, HistoryTypeOK
<1>5. HistInv'
  BY <1>1, <1>2, <1>3, <1>4, DialogTypes
<1>6. ASSUME TurnsInv, StoredOK', Distinct(f), Len(f) <= FavoriteLimit, Distinct(r),
             Len(r) <= limit[t], Only(f) \cap Only(r) = {},
             works => f = storage'["favorite"] /\ r = Slice(storage'["recent"], limit[t])
      PROVE  TurnsInv'
  <2>1. open \subseteq {t}
    BY <1>6, OneIsOpen
  <2>2. \A b \in a : b.act = "save" => b.list = "recent"
    BY <1>1, <1>2, <1>6 DEF TurnsInv
  <2> QED
    BY <1>1, <1>3, <1>5, <1>6, <2>1, <2>2, DialogTurns
<1> QED
  BY <1>5, <1>6

LEMMA SelectKeeps ==
  ASSUME HistInv, NEW t \in HistoryTabs, NEW i \in Items, Select(t, i)
  PROVE  HistInv' /\ (TurnsInv => TurnsInv')
<1> DEFINE n == limit[t]
           add == Add(recent[t], i, n)
           r == IF Remembers(t, i) THEN add ELSE recent[t]
<1>1. /\ t \in open /\ works' = works
      /\ \/ Remembers(t, i) /\ Save(storage["favorite"], add)
         \/ ~Remembers(t, i) /\ UNCHANGED storage
      /\ \/ Gone(t)
         \/ /\ recent' = IF Remembers(t, i) THEN [recent EXCEPT ![t] = add] ELSE recent
            /\ armed' = [armed EXCEPT ![t] = StillShown(t, fav[t], recent'[t])]
            /\ UNCHANGED <<open, fav, limit>>
  BY DEF Select
<1>2. /\ fav[t] \in Seq(Items) /\ recent[t] \in Seq(Items) /\ storage["favorite"] \in Seq(Items)
      /\ n \in Nat \ {0} /\ n <= LongLimit
  <2>1. n \in {ShortLimit, LongLimit}
    BY DEF HistInv, HistoryTypeOK
  <2>2. n \in Nat \ {0} /\ n <= LongLimit
    BY <2>1, LimitFacts
  <2> QED
    BY <2>2 DEF HistInv, HistoryTypeOK, Lists
<1>3. /\ add \in Seq(Items) /\ Len(add) <= n /\ Only(add) \subseteq Only(recent[t]) \cup {i}
      /\ Distinct(recent[t]) => Distinct(add)
  BY <1>2, AddIs
<1> HIDE DEF add, n
<1>4. storage' \in [Lists -> Seq(Items)]
  BY <1>1, <1>2, <1>3, SaveIs DEF HistInv, HistoryTypeOK
<1>5. Remembers(t, i) => i \notin Only(fav[t])
  BY DEF Remembers
<1>6. ASSUME TurnsInv
      PROVE  /\ StoredOK'
             /\ Distinct(r) /\ Len(r) <= n /\ Only(fav[t]) \cap Only(r) = {}
             /\ works => fav[t] = storage'["favorite"] /\ r = Slice(storage'["recent"], n)
  <2>1. /\ Distinct(fav[t]) /\ Len(fav[t]) <= FavoriteLimit
        /\ Distinct(recent[t]) /\ Len(recent[t]) <= n
        /\ Only(fav[t]) \cap Only(recent[t]) = {}
        /\ works => fav[t] = storage["favorite"] /\ recent[t] = Slice(storage["recent"], n)
    BY <1>1, <1>6, OneIsOpen DEF n
  <2>2. CASE Remembers(t, i)
    <3>1. Distinct(add) /\ Only(fav[t]) \cap Only(add) = {} /\ r = add
      BY <1>3, <1>5, <2>1, <2>2
    <3>2. Len(add) <= LongLimit
      <4>1. Len(add) \in Nat /\ LongLimit \in Nat
        BY <1>3, LimitFacts
      <4> QED
        BY <1>2, <1>3, <4>1
    <3>3. StoredOK'
      BY <1>1, <1>2, <1>3, <1>6, <2>1, <2>2, <3>1, <3>2, SaveKeeps
    <3>4. works => storage'["favorite"] = fav[t] /\ storage'["recent"] = add
      BY <1>1, <1>2, <1>3, <2>1, <2>2, SaveIs
    <3>5. Slice(add, n) = add
      BY <1>2, <1>3, SliceIs
    <3> QED
      BY <1>3, <2>1, <3>1, <3>3, <3>4, <3>5
  <2>3. CASE ~Remembers(t, i)
    <3>1. StoredOK'
      BY <1>1, <1>6, <2>3 DEF TurnsInv, StoredOK
    <3> QED
      BY <1>1, <2>1, <2>3, <3>1
  <2> QED
    BY <2>2, <2>3
<1>7. CASE Gone(t)
  BY <1>1, <1>4, <1>6, <1>7, GoneKeeps
<1>8. CASE /\ recent' = IF Remembers(t, i) THEN [recent EXCEPT ![t] = add] ELSE recent
           /\ armed' = [armed EXCEPT ![t] = StillShown(t, fav[t], recent'[t])]
           /\ UNCHANGED <<open, fav, limit>>
  <2>1. /\ recent' = [recent EXCEPT ![t] = r] /\ recent'[t] = r
        /\ fav' = [fav EXCEPT ![t] = fav[t]]
    BY <1>8 DEF HistInv, HistoryTypeOK
  <2>2. r \in Seq(Items)
    BY <1>2, <1>3
  <2>3. /\ armed' = [armed EXCEPT ![t] = StillShown(t, fav[t], r)]
        /\ UNCHANGED <<works, open, limit>>
    BY <1>1, <1>8, <2>1
  <2> HIDE DEF r
  <2>4. HistInv'
    BY <1>1, <1>2, <1>4, <2>1, <2>2, <2>3, ShownKeeps
  <2>5. ASSUME TurnsInv
        PROVE  TurnsInv'
    <3>1. Distinct(fav[t]) /\ Len(fav[t]) <= FavoriteLimit
      BY <1>1, <2>5, OneIsOpen
    <3> QED
      BY <1>1, <1>2, <1>4, <1>6, <2>1, <2>2, <2>3, <2>5, <3>1, ShownKeeps DEF n
  <2> QED
    BY <2>4, <2>5
<1> QED
  BY <1>1, <1>7, <1>8

LEMMA PressKeeps ==
  ASSUME HistInv, NEW t \in HistoryTabs, NEW b \in Buttons, Press(t, b)
  PROVE  HistInv' /\ (TurnsInv => TurnsInv')
<1> DEFINE a == {c \in armed[t] : ~(c.list = b.list /\ c.item = b.item)} \cup {b}
<1>1. /\ t \in open /\ armed' = [armed EXCEPT ![t] = a]
      /\ UNCHANGED <<works, storage, open, fav, recent, limit>>
  BY DEF Press
<1>2. a \in SUBSET Buttons
  BY DEF HistInv, HistoryTypeOK
<1>3. ButtonsFit(a, fav[t], recent[t])
  BY DEF Press, ButtonsFit, HistInv, HistoryTypeOK
<1>4. TurnsInv => \A c \in a : c.act = "save" => c.list = "recent"
  BY DEF TurnsInv, Press
<1> HIDE DEF a
<1> QED
  BY <1>1, <1>2, <1>3, <1>4, ButtonsKeep

LEMMA TypeKeeps ==
  ASSUME HistInv, NEW t \in HistoryTabs, Type(t)
  PROVE  HistInv' /\ (TurnsInv => TurnsInv')
<1>1. {} \in SUBSET Buttons /\ ButtonsFit({}, fav[t], recent[t])
      /\ \A b \in {} : b.act = "save" => b.list = "recent"
  BY DEF ButtonsFit
<1> QED
  BY <1>1, ButtonsKeep DEF Type

LEMMA CloseKeeps ==
  ASSUME HistInv, NEW t \in HistoryTabs, Close(t)
  PROVE  HistInv' /\ (TurnsInv => TurnsInv')
<1>1. t \in open /\ Gone(t) /\ UNCHANGED <<works, storage>>
  BY DEF Close
<1>2. storage' \in [Lists -> Seq(Items)] /\ (TurnsInv => StoredOK')
  BY <1>1 DEF HistInv, HistoryTypeOK, TurnsInv, StoredOK
<1> QED
  BY <1>1, <1>2, GoneKeeps

(* A search that is saved leaves the recent ones, one that is removed its   *)
(* list.                                                                   *)
LEMMA TransitionKeeps ==
  ASSUME HistInv, NEW t \in HistoryTabs, NEW b \in Buttons, TransitionEnd(t, b)
  PROVE  HistInv' /\ (TurnsInv => TurnsInv')
<1> DEFINE n == limit[t]
           f == IF b.act = "save" THEN Add(fav[t], b.item, FavoriteLimit)
                ELSE IF b.list = "favorite" THEN Without(fav[t], b.item) ELSE fav[t]
           r == IF b.list = "recent" THEN Without(recent[t], b.item) ELSE recent[t]
           F == IF b.act = "save" \/ b.list = "favorite" THEN f ELSE storage["favorite"]
           R == IF b.list = "recent" THEN r ELSE storage["recent"]
<1>1. /\ b \in armed[t] /\ Save(F, R) /\ UNCHANGED <<works, open, limit>>
      /\ fav' = [fav EXCEPT ![t] = f] /\ recent' = [recent EXCEPT ![t] = r]
      /\ armed' = [armed EXCEPT ![t] = StillShown(t, f, r)]
  BY DEF TransitionEnd
<1>2. t \in open
  BY <1>1 DEF HistInv, ClosedIsEmpty
<1>3. /\ fav[t] \in Seq(Items) /\ recent[t] \in Seq(Items) /\ b.item \in Items
      /\ storage["favorite"] \in Seq(Items) /\ storage["recent"] \in Seq(Items)
      /\ b.list \in Lists
  BY DEF HistInv, HistoryTypeOK, Lists, Buttons
<1>4. n \in Nat \ {0} /\ n <= LongLimit
  <2>1. n \in {ShortLimit, LongLimit}
    BY DEF HistInv, HistoryTypeOK
  <2> QED
    BY <2>1, LimitFacts
<1> HIDE DEF n
<1>5. LET s == Add(fav[t], b.item, FavoriteLimit)
      IN  /\ s \in Seq(Items) /\ Len(s) <= FavoriteLimit /\ Only(s) \subseteq Only(fav[t]) \cup {b.item}
          /\ Distinct(fav[t]) => Distinct(s)
  BY <1>3, LimitFacts, AddIs
<1>6. \A s \in {fav[t], recent[t]} :
          /\ Without(s, b.item) \in Seq(Items) /\ Len(Without(s, b.item)) <= Len(s)
          /\ Only(Without(s, b.item)) = Only(s) \ {b.item}
          /\ Distinct(s) => Distinct(Without(s, b.item))
  BY <1>3, WithoutIs
<1>7. f \in Seq(Items) /\ r \in Seq(Items)
  BY <1>3, <1>5, <1>6
<1>8. F \in Seq(Items) /\ R \in Seq(Items)
  BY <1>3, <1>7
<1>9. storage' \in [Lists -> Seq(Items)]
  BY <1>1, <1>8, SaveIs
<1>10. HistInv'
  <2> HIDE DEF f, r, F, R
  <2> QED
    BY <1>1, <1>2, <1>7, <1>9, ShownKeeps
<1>11. ASSUME TurnsInv
       PROVE  TurnsInv'
  <2>1. /\ Distinct(fav[t]) /\ Len(fav[t]) <= FavoriteLimit
        /\ Distinct(recent[t]) /\ Len(recent[t]) <= n
        /\ Only(fav[t]) \cap Only(recent[t]) = {}
        /\ works => fav[t] = storage["favorite"] /\ recent[t] = Slice(storage["recent"], n)
    BY <1>2, <1>11, OneIsOpen DEF n
  <2>2. /\ b.act = "save" => b.list = "recent"
        /\ b.list = "recent" \/ b.list = "favorite"
    BY <1>1, <1>3, <1>11 DEF TurnsInv, Lists
  <2>3. Len(fav[t]) \in Nat /\ Len(recent[t]) \in Nat /\ FavoriteLimit \in Nat /\ LongLimit \in Nat
    BY <1>3, LimitFacts
  <2>4. Len(Without(fav[t], b.item)) \in Nat /\ Len(Without(recent[t], b.item)) \in Nat
    BY <1>6
  <2>5. Distinct(f) /\ Len(f) <= FavoriteLimit /\ Distinct(r)
    BY <1>5, <1>6, <2>1, <2>3, <2>4
  <2>6. Len(r) <= n /\ Len(r) <= LongLimit
    BY <1>4, <1>6, <2>1, <2>3, <2>4
  <2>7. Only(f) \cap Only(r) = {}
    BY <1>5, <1>6, <2>1, <2>2
  <2>8. /\ Distinct(storage["favorite"]) /\ Len(storage["favorite"]) <= FavoriteLimit
        /\ Distinct(storage["recent"]) /\ Len(storage["recent"]) <= LongLimit
        /\ Only(storage["favorite"]) \cap Only(storage["recent"]) = {}
    BY <1>11 DEF TurnsInv, StoredOK, Lists
  <2>9. works => F = f
    BY <2>1, <2>2
  <2>10. works => Only(f) \cap Only(R) = {}
    <3>1. CASE b.list = "recent"
      BY <2>7, <3>1
    <3>2. CASE b.list # "recent"
      <4>1. f = Without(fav[t], b.item) /\ R = storage["recent"]
        BY <2>2, <3>2
      <4> QED
        BY <1>6, <2>1, <2>8, <4>1
    <3> QED
      BY <3>1, <3>2
  <2>11. Distinct(R) /\ Len(R) <= LongLimit
    BY <2>5, <2>6, <2>8
  <2>12. R = r \/ (R = storage["recent"] /\ r = recent[t])
    OBVIOUS
  <2> HIDE DEF f, r, F, R
  <2>13. StoredOK'
    BY <1>1, <1>8, <1>11, <2>5, <2>9, <2>10, <2>11, SaveKeeps
  <2>14. works => storage'["favorite"] = f /\ storage'["recent"] = R
    BY <1>1, <1>8, <2>9, SaveIs
  <2>15. works => r = Slice(R, n)
    BY <1>4, <1>7, <2>1, <2>6, <2>12, SliceIs
  <2> QED
    BY <1>1, <1>2, <1>7, <1>9, <1>11, <2>5, <2>6, <2>7, <2>13, <2>14, <2>15, ShownKeeps DEF n
<1> QED
  BY <1>10, <1>11

LEMMA HistoryStart ==
  ASSUME HistoryInit
  PROVE  HistInv /\ TurnsInv
<1>1. HistInv
  BY EmptyList DEF HistoryInit, HistInv, HistoryTypeOK, ClosedIsEmpty
<1>2. Len(<<>>) <= FavoriteLimit /\ Len(<<>>) <= LongLimit
  BY LimitFacts, EmptyList
<1>3. ListsOK /\ StoredOK
  BY <1>2, EmptyList DEF HistoryInit, ListsOK, StoredOK, Lists
<1> QED
  BY <1>1, <1>3 DEF HistoryInit, TurnsInv, ShownIsStored

LEMMA HistoryStep ==
  ASSUME HistInv, [HistoryNext]_historyVars
  PROVE  HistInv' /\ (TakeTurns /\ TurnsInv => TurnsInv')
<1>1. CASE UNCHANGED historyVars
  <2>1. HistInv'
    BY <1>1 DEF historyVars, HistInv, HistoryTypeOK, ClosedIsEmpty
  <2> QED
    BY <1>1, <2>1 DEF historyVars, TurnsInv, ListsOK, ShownIsStored, StoredOK
<1> QED
  BY <1>1, OpenKeeps, CloseKeeps, TypeKeeps, SelectKeeps, PressKeeps, TransitionKeeps
     DEF HistoryNext

(* The lists of all tabs and of the storage are lists of searches, and a   *)
(* button that was pressed belongs to a hit its dialog shows, however the  *)
(* tabs are mixed.                                                         *)
THEOREM HistoryTypeHolds == HistorySpec => []HistoryTypeOK
<1>1. HistInv /\ [HistoryNext]_historyVars => HistInv'
  BY HistoryStep
<1>2. HistoryInit => HistInv
  BY HistoryStart
<1>3. HistInv => HistoryTypeOK
  BY DEF HistInv
<1> QED
  BY <1>1, <1>2, <1>3, PTL DEF HistorySpec

LEMMA TurnsInvariance == TakeTurns => (HistorySpec => []TurnsInv)
<1> SUFFICES ASSUME TakeTurns PROVE HistorySpec => []TurnsInv
  OBVIOUS
<1>1. TurnsInv /\ [HistoryNext]_historyVars => TurnsInv'
  BY HistoryStep DEF TurnsInv
<1>2. HistoryInit => TurnsInv
  BY HistoryStart
<1> QED
  BY <1>1, <1>2, PTL DEF HistorySpec

(* docs.js:4564-4603, tabs that take turns: no list holds a search twice or *)
(* more searches than it may, and no dialog shows a search as recent and   *)
(* as favourite.                                                           *)
THEOREM ListsHold == TakeTurns => (HistorySpec => []ListsOK)
<1>1. TurnsInv => ListsOK
  BY DEF TurnsInv
<1>2. []TurnsInv => []ListsOK
  BY <1>1, PTL
<1> QED
  BY <1>2, TurnsInvariance

(* What a dialog shows is what the next one will show, whatever was         *)
(* selected, saved and removed before it, with any limits of the lists.    *)
THEOREM HistoryShownIsStored == TakeTurns => (HistorySpec => []ShownIsStored)
<1>1. TurnsInv => ShownIsStored
  BY DEF TurnsInv
<1>2. []TurnsInv => []ShownIsStored
  BY <1>1, PTL
<1> QED
  BY <1>2, TurnsInvariance

\* What SavedIsKept says of a step.
SavedKept ==
    \A i \in Only(storage["favorite"]) :
        \/ i \in Only(storage'["favorite"])
        \/ Len(storage'["favorite"]) = FavoriteLimit
        \/ \E t \in HistoryTabs : [list |-> "favorite", item |-> i, act |-> "remove"] \in armed[t]

(* Only the end of a transition changes the stored favourites, of the      *)
(* dialog that shows them.                                                 *)
LEMMA TransitionSaves ==
  ASSUME TurnsInv, NEW t \in HistoryTabs, NEW b \in Buttons, TransitionEnd(t, b)
  PROVE  SavedKept
<1> DEFINE f == IF b.act = "save" THEN Add(fav[t], b.item, FavoriteLimit)
                ELSE IF b.list = "favorite" THEN Without(fav[t], b.item) ELSE fav[t]
           r == IF b.list = "recent" THEN Without(recent[t], b.item) ELSE recent[t]
           F == IF b.act = "save" \/ b.list = "favorite" THEN f ELSE storage["favorite"]
           R == IF b.list = "recent" THEN r ELSE storage["recent"]
<1>1. b \in armed[t] /\ Save(F, R) /\ HistInv
  BY DEF TransitionEnd, TurnsInv
<1>2. t \in open
  BY <1>1 DEF HistInv, ClosedIsEmpty
<1>3. /\ fav[t] \in Seq(Items) /\ recent[t] \in Seq(Items) /\ b.item \in Items
      /\ storage["favorite"] \in Seq(Items) /\ storage["recent"] \in Seq(Items)
  BY <1>1 DEF HistInv, HistoryTypeOK, Lists, Buttons
<1>4. LET s == Add(fav[t], b.item, FavoriteLimit)
      IN  s \in Seq(Items) /\ (Only(fav[t]) \subseteq Only(s) \/ Len(s) = FavoriteLimit)
  BY <1>3, LimitFacts, AddIs
<1>5. \A s \in {fav[t], recent[t]} :
          Without(s, b.item) \in Seq(Items) /\ Only(Without(s, b.item)) = Only(s) \ {b.item}
  BY <1>3, WithoutIs
<1>6. F \in Seq(Items) /\ R \in Seq(Items)
  BY <1>3, <1>4, <1>5
<1>7. (works => storage'["favorite"] = F) /\ (~works => storage' = storage)
  <2> HIDE DEF F, R
  <2> QED
    BY <1>1, <1>6, SaveIs
<1>8. works => fav[t] = storage["favorite"]
  BY <1>2, OneIsOpen
<1>9. CASE ~works \/ (b.act # "save" /\ b.list # "favorite")
  BY <1>7, <1>9 DEF SavedKept
<1>10. CASE works /\ b.act = "save"
  <2>1. storage'["favorite"] = Add(storage["favorite"], b.item, FavoriteLimit)
    BY <1>7, <1>8, <1>10
  <2> QED
    BY <1>4, <1>8, <1>10, <2>1 DEF SavedKept
<1>11. CASE works /\ b.act # "save" /\ b.list = "favorite"
  <2>1. Only(storage'["favorite"]) = Only(storage["favorite"]) \ {b.item}
    BY <1>5, <1>7, <1>8, <1>11
  <2>2. b = [list |-> "favorite", item |-> b.item, act |-> "remove"]
    BY <1>11 DEF Buttons
  <2>3. \E u \in HistoryTabs : [list |-> "favorite", item |-> b.item, act |-> "remove"] \in armed[u]
    BY <1>1, <2>2
  <2> QED
    BY <2>1, <2>3 DEF SavedKept
<1> QED
  BY <1>9, <1>10, <1>11

LEMMA SelectSaves ==
  ASSUME TurnsInv, NEW t \in HistoryTabs, NEW i \in Items, Select(t, i)
  PROVE  storage'["favorite"] = storage["favorite"]
<1>1. /\ storage["favorite"] \in Seq(Items) /\ recent[t] \in Seq(Items)
      /\ limit[t] \in {ShortLimit, LongLimit} /\ HistInv
  BY DEF TurnsInv, HistInv, HistoryTypeOK, Lists
<1>2. limit[t] \in Nat \ {0}
  BY <1>1, LimitFacts
<1>3. Add(recent[t], i, limit[t]) \in Seq(Items)
  BY <1>1, <1>2, AddIs
<1>4. Save(storage["favorite"], Add(recent[t], i, limit[t])) \/ UNCHANGED storage
  BY DEF Select
<1> QED
  BY <1>1, <1>3, <1>4, SaveIs

LEMMA StepSaves ==
  ASSUME TurnsInv, [HistoryNext]_historyVars
  PROVE  SavedKept
<1>1. storage'["favorite"] = storage["favorite"] => SavedKept
  BY DEF SavedKept
<1>2. CASE UNCHANGED historyVars
  BY <1>1, <1>2 DEF historyVars
<1>3. ASSUME NEW t \in HistoryTabs, Open(t) \/ Close(t) \/ Type(t) \/ \E b \in Buttons : Press(t, b)
      PROVE  SavedKept
  BY <1>1, <1>3 DEF Open, Close, Type, Press
<1> QED
  BY <1>1, <1>2, <1>3, SelectSaves, TransitionSaves DEF HistoryNext

(* docs.js:4411, tabs that take turns: no step takes a search out of the    *)
(* stored favourites but its own button and a list that is full.           *)
THEOREM HistorySavedIsKept == TakeTurns => (HistorySpec => SavedIsKept)
<1>1. TurnsInv /\ [HistoryNext]_historyVars => [SavedKept]_historyVars
  BY StepSaves
<1>2. []TurnsInv /\ [][HistoryNext]_historyVars => [][SavedKept]_historyVars
  BY <1>1, PTL
<1>3. [][SavedKept]_historyVars => SavedIsKept
  BY DEF SavedIsKept, SavedKept
<1> SUFFICES ASSUME TakeTurns PROVE HistorySpec => SavedIsKept
  OBVIOUS
<1>4. HistorySpec => []TurnsInv
  BY TurnsInvariance
<1> QED
  BY <1>2, <1>3, <1>4, PTL DEF HistorySpec

-----------------------------------------------------------------------------
(***************************************************************************)
(* The search in the menu, for any pages, submenus, texts and index.       *)
(***************************************************************************)
MenuInv ==
    /\ links \subseteq Pages /\ term \in Terms \cup {Empty}
    /\ named \in [Terms -> SUBSET Pages] /\ content \in [Terms -> SUBSET Pages]
    /\ MenusFit

LEMMA InputFits ==
  ASSUME MenuInv, NEW t \in Terms \cup {Empty}, Input(t)
  PROVE  MenuInv'
<1>1. UNCHANGED <<named, content>> /\ term' = t
  BY DEF Input
<1>2. CASE t = Empty /\ links' = Pages /\ menus' = Menus
  <2>1. \A p \in Pages : MenuOf[p] \in Menus
    BY MenuSearchOK
  <2> QED
    BY <1>1, <1>2, <2>1 DEF MenuInv, MenusFit
<1>3. CASE t # Empty /\ links' = Matches(t) /\ menus' = MenusFor(Matches(t))
  <2>1. Matches(t) \subseteq Pages
    BY <1>3 DEF Matches, ByContent, MenuInv
  <2> QED
    BY <1>1, <1>3, <2>1 DEF MenuInv, MenusFit, MenusFor
<1> QED
  BY <1>2, <1>3 DEF Input

(* search.js:25-88: whatever was typed and whenever the index arrived, a  *)
(* match can be reached in the menu, and no empty submenu is displayed but *)
(* that of the home page.                                                  *)
THEOREM MenuFits == MenuSpec => []MenusFit
<1>1. MenuInit => MenuInv
  BY MenuSearchOK DEF MenuInit, MenuInv, MenusFit
<1>2. MenuInv /\ [MenuNext]_menuVars => MenuInv'
  <2> SUFFICES ASSUME MenuInv, [MenuNext]_menuVars PROVE MenuInv'
    OBVIOUS
  <2>1. CASE IndexArrives
    BY <2>1 DEF IndexArrives, MenuInv, MenusFit
  <2>2. CASE UNCHANGED menuVars
    BY <2>2 DEF menuVars, MenuInv, MenusFit
  <2> QED
    BY <2>1, <2>2, InputFits DEF MenuNext
<1>3. MenuInv => MenusFit
  BY DEF MenuInv
<1> QED
  BY <1>1, <1>2, <1>3, PTL DEF MenuSpec

-----------------------------------------------------------------------------
(***************************************************************************)
(* The settings of a page, for any number of tabs.                         *)
(***************************************************************************)

\* The sizes that the steps reach: from one end of the range to the other.
Sizes == {12, 14, 16, 18, 20, 22, 24}

SizesInv ==
    /\ shown \in [SiteTabs -> [loaded : BOOLEAN, theme : Themes, size : Sizes]]
    /\ stored \in [theme : Themes \cup {NoTheme}, size : {0} \cup Sizes]

LEMMA ResizeKeeps ==
  ASSUME SizesInv, NEW t \in SiteTabs, NEW n \in Sizes, Resize(t, n)
  PROVE  SizesInv'
BY DEF SizesInv, Resize

LEMMA SettingsStep ==
  ASSUME SizesInv, [SettingsNext]_settingsVars
  PROVE  SizesInv'
<1>1. ASSUME NEW t \in SiteTabs, LoadPage(t)
      PROVE  SizesInv'
  <2> DEFINE theme == IF stored.theme = NoTheme THEN "light" ELSE stored.theme
             size_ == IF stored.size = 0 THEN defaultFontSize ELSE stored.size
  <2>1. theme \in Themes /\ size_ \in Sizes
    BY DEF SizesInv, Themes, NoTheme, Sizes, defaultFontSize
  <2>2. shown' = [shown EXCEPT ![t] = [loaded |-> TRUE, theme |-> theme, size |-> size_]]
        /\ UNCHANGED stored
    BY <1>1 DEF LoadPage
  <2> HIDE DEF theme, size_
  <2> QED
    BY <2>1, <2>2 DEF SizesInv
<1>2. ASSUME NEW t \in SiteTabs, ToggleTheme(t)
      PROVE  SizesInv'
  BY <1>2 DEF ToggleTheme, SizesInv, Themes
<1>3. ASSUME NEW t \in SiteTabs, Increase(t)
      PROVE  SizesInv'
  <2>1. shown[t].size \in Sizes /\ shown[t].size < 24
    BY <1>3 DEF Increase, CanGrow, SizesInv, maxFontSize
  <2>2. shown[t].size + 2 \in Sizes
    BY <2>1 DEF Sizes
  <2> QED
    BY <1>3, <2>2, ResizeKeeps DEF Increase, step
<1>4. ASSUME NEW t \in SiteTabs, Decrease(t)
      PROVE  SizesInv'
  <2>1. shown[t].size \in Sizes /\ shown[t].size > 12
    BY <1>4 DEF Decrease, SizesInv, minFontSize
  <2>2. shown[t].size - 2 \in Sizes
    BY <2>1 DEF Sizes
  <2> QED
    BY <1>4, <2>2, ResizeKeeps DEF Decrease, step
<1>5. CASE UNCHANGED settingsVars
  BY <1>5 DEF settingsVars, SizesInv
<1> QED
  BY <1>1, <1>2, <1>3, <1>4, <1>5 DEF SettingsNext

LEMMA SettingsStart ==
  ASSUME SettingsInit
  PROVE  SizesInv
BY DEF SettingsInit, SizesInv, Sizes, Themes, NoTheme, defaultFontSize

LEMMA SizesInRange ==
  ASSUME SizesInv
  PROVE  SettingsTypeOK
<1>1. Sizes \subseteq minFontSize .. maxFontSize
  BY DEF Sizes, minFontSize, maxFontSize
<1> QED
  BY <1>1 DEF SizesInv, SettingsTypeOK

(* fontsize.js:37-59: the size of the font never leaves its range, in any   *)
(* tab and in the storage, although it is compared before it is changed:   *)
(* the steps of 2 from 16 meet both ends.                                  *)
THEOREM SettingsTypeHolds == SettingsSpec => []SettingsTypeOK
<1>1. SizesInv /\ [SettingsNext]_settingsVars => SizesInv'
  BY SettingsStep
<1>2. SettingsInit => SizesInv
  BY SettingsStart
<1>3. SizesInv => SettingsTypeOK
  BY SizesInRange
<1> QED
  BY <1>1, <1>2, <1>3, PTL DEF SettingsSpec

-----------------------------------------------------------------------------
(***************************************************************************)
(* The small parts together: a step of one leaves the others alone.        *)
(***************************************************************************)
(* Each part behaves in their mixture as it does alone: what is shown of    *)
(* the one holds for the other, and the run of the mixture is one of each. *)
THEOREM PartsAreParts ==
  PartsSpec => /\ HeadSpec /\ PortSpec /\ CpuSpec /\ BrowserSpec
               /\ HistorySpec /\ MenuSpec /\ SettingsSpec
<1>1. PartsInit => /\ HeadInit /\ PortInit /\ CpuInit /\ BrowserInit
                   /\ HistoryInit /\ MenuInit /\ SettingsInit
  BY DEF PartsInit
<1>2. [PartsNext]_partsVars =>
          /\ [HeadNext]_headVars /\ [PortNext]_portVars /\ [CpuNext]_cpuVars
          /\ [BrowserNext]_browserVars /\ [HistoryNext]_historyVars
          /\ [MenuNext]_menuVars /\ [SettingsNext]_settingsVars
  BY DEF PartsNext, Alone, partsVars
<1> QED
  BY <1>1, <1>2, PTL
     DEF PartsSpec, HeadSpec, PortSpec, CpuSpec, BrowserSpec, HistorySpec, MenuSpec, SettingsSpec

(* The types of all small parts, with what they say beyond the shape, in   *)
(* any mixture of their steps.                                             *)
THEOREM PartsTypes == TakeTurns => (PartsSpec => []PartsTypeOK)
<1> SUFFICES ASSUME TakeTurns PROVE PartsSpec => []PartsTypeOK
  OBVIOUS
<1>1. HistorySpec => []ListsOK
  BY ListsHold
<1>2. /\ HeadTypeOK /\ PortTypeOK /\ CpuTypeOK /\ BrowserTypeOK
      /\ HistoryTypeOK /\ ListsOK /\ SettingsTypeOK
      => PartsTypeOK
  BY DEF PartsTypeOK
<1> QED
  BY <1>1, <1>2, PartsAreParts, HeadTypeHolds, PortTypeHolds, CpuTypeHolds, BrowserTypeHolds,
     HistoryTypeHolds, SettingsTypeHolds, PTL
=============================================================================
