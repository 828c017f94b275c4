---------------------------- MODULE TablesProofs ----------------------------
EXTENDS Tables, FiniteSetTheorems, FunctionTheorems, SequenceTheorems, TLAPS

-----------------------------------------------------------------------------
(* Rows in order                                                           *)

\* How many of S come no later than x.
Place(S, x) == Cardinality({y \in S : y >= x})

LEMMA PlaceGrows ==
    ASSUME NEW S \in SUBSET Nat, IsFiniteSet(S)
    PROVE  /\ Cardinality(S) \in Nat
           /\ \A x \in S : Place(S, x) \in 1..Cardinality(S)
           /\ \A x, y \in S : x > y => Place(S, x) < Place(S, y)
  <1>. DEFINE Up(x) == {y \in S : y >= x}
  <1>1. \A x \in S : /\ IsFiniteSet(Up(x)) /\ Cardinality(Up(x)) \in Nat /\ Cardinality(Up(x)) <= Cardinality(S)
                     /\ Cardinality(Up(x)) # 0
    <2>. SUFFICES ASSUME NEW x \in S
                  PROVE  /\ IsFiniteSet(Up(x)) /\ Cardinality(Up(x)) \in Nat /\ Cardinality(Up(x)) <= Cardinality(S)
                         /\ Cardinality(Up(x)) # 0
      OBVIOUS
    <2>1. Up(x) \in SUBSET S /\ x \in Up(x)
      OBVIOUS
    <2>2. IsFiniteSet(Up(x)) /\ Cardinality(Up(x)) <= Cardinality(S)
      BY <2>1, FS_Subset
    <2>3. Cardinality(Up(x)) \in Nat
      BY <2>2, FS_CardinalityType
    <2>4. Cardinality(Up(x)) # 0
      BY <2>1, <2>2, FS_EmptySet
    <2>. QED BY <2>2, <2>3, <2>4
  <1>2. Cardinality(S) \in Nat
    BY FS_CardinalityType
  <1>3. ASSUME NEW x \in S, NEW y \in S, x > y
        PROVE  Cardinality(Up(x)) < Cardinality(Up(y))
    <2>0. \A z \in S : z \in Nat
      OBVIOUS
    <2>1. Up(x) \in SUBSET Up(y) /\ y \in Up(y) /\ y \notin Up(x)
      <3>1. x \in Nat /\ y \in Nat
        BY <2>0
      <3>2. \A z \in Up(x) : z \in S /\ z >= y
        BY <1>3, <2>0, <3>1
      <3>3. y \in Up(y) /\ y \notin Up(x)
        BY <1>3, <3>1
      <3>4. Up(x) \in SUBSET Up(y)
        BY <3>2
      <3>. QED BY <3>3, <3>4
    <2>2. IsFiniteSet(Up(y)) /\ Cardinality(Up(x)) \in Nat /\ Cardinality(Up(y)) \in Nat
      BY <1>1
    <2>. HIDE DEF Up
    <2>3. Cardinality(Up(x)) <= Cardinality(Up(y)) /\ (Cardinality(Up(y)) = Cardinality(Up(x)) => Up(y) = Up(x))
      BY <2>1, <2>2, FS_Subset
    <2>. QED BY <2>1, <2>2, <2>3
  <1>. HIDE DEF Up
  <1>4. \A x : Place(S, x) = Cardinality(Up(x))
    BY DEF Place, Up
  <1>. QED BY <1>1, <1>2, <1>3, <1>4

\* A sequence of members of S that falls and leaves out none that is greater:
\* every place is the rank of what is there.
Leads(f, m, S) ==
    /\ f \in [1..m -> S]
    /\ \A j, k \in 1..m : j < k => f[j] > f[k]
    /\ \A x \in S, k \in 1..m : x > f[k] => \E j \in 1..m : f[j] = x

LEMMA LeadsPlace ==
    ASSUME NEW S \in SUBSET Nat, IsFiniteSet(S), NEW m \in Nat, NEW f, Leads(f, m, S), NEW k \in 1..m
    PROVE  Place(S, f[k]) = k
  <1>. DEFINE Up == {y \in S : y >= f[k]}
              g == [j \in 1..k |-> f[j]]
  <1>1. f \in [1..m -> S] /\ 1..k \subseteq 1..m /\ k \in Nat
    BY DEF Leads
  <1>2. \A j \in 1..k : f[j] \in Up
    <2>1. \A j \in 1..k : f[j] \in S /\ f[k] \in Nat /\ f[j] \in Nat
      BY <1>1
    <2>2. \A j \in 1..k : j < k => f[j] > f[k]
      BY <1>1 DEF Leads
    <2>. QED BY <2>1, <2>2
  <1>3. \A y \in Up : \E j \in 1..k : f[j] = y
    <2>. SUFFICES ASSUME NEW y \in Up PROVE \E j \in 1..k : f[j] = y
      OBVIOUS
    <2>1. y \in S /\ y \in Nat /\ f[k] \in Nat /\ y >= f[k]
      BY <1>1
    <2>2. CASE y = f[k]
      BY <2>2
    <2>3. CASE y # f[k]
      <3>1. PICK j \in 1..m : f[j] = y
        BY <2>1, <2>3 DEF Leads
      <3>2. ~(k < j)
        <4>1. k < j => f[k] > f[j]
          BY DEF Leads
        <4>. QED BY <2>1, <3>1, <4>1
      <3>. QED BY <3>1, <3>2
    <2>. QED BY <2>2, <2>3
  <1>4. \A i, j \in 1..k : i # j => f[i] # f[j]
    <2>1. \A i, j \in 1..k : i < j => f[i] > f[j]
      BY <1>1 DEF Leads
    <2>2. \A i \in 1..k : f[i] \in Nat
      BY <1>1
    <2>. QED BY <2>1, <2>2
  <1>. HIDE DEF Up
  <1>5. g \in Bijection(1..k, Up)
    BY <1>2, <1>3, <1>4 DEF Bijection, Injection, Surjection, IsInjective
  <1>6. Cardinality(Up) = k
    BY <1>1, <1>5, FS_CountingElements DEF ExistsBijection
  <1>. QED BY <1>6 DEF Place, Up

\* The sequence of all of S.
LEMMA InOrderLeads ==
    ASSUME NEW S \in SUBSET Nat, IsFiniteSet(S)
    PROVE  Leads(InOrder(S), Cardinality(S), S)
  <1>. DEFINE n == Cardinality(S)
              r == [x \in S |-> Place(S, x)]
              s == [k \in 1..n |-> CHOOSE x \in S : r[x] = k]
  <1>1. n \in Nat /\ r \in [S -> 1..n] /\ \A x, y \in S : x > y => r[x] < r[y]
    BY PlaceGrows
  <1>. HIDE DEF r
  <1>2. r \in Injection(S, 1..n)
    BY <1>1 DEF Injection, IsInjective
  <1>3. IsFiniteSet(1..n) /\ Cardinality(1..n) = n
    BY <1>1, FS_Interval
  <1>4. r \in Surjection(S, 1..n)
    BY <1>2, <1>3, FS_Injection
  <1>5. \A k \in 1..n : \E x \in S : r[x] = k
    BY <1>4 DEF Surjection
  <1>6. \A k \in 1..n : s[k] \in S /\ r[s[k]] = k
    BY <1>5
  <1>7. s \in [1..n -> S] /\ \A j, k \in DOMAIN s : j < k => s[j] > s[k]
    <2>1. ASSUME NEW j \in 1..n, NEW k \in 1..n, j < k PROVE s[j] > s[k]
      <3>1. s[j] \in Nat /\ s[k] \in Nat
        BY <1>6
      <3>2. ~(s[k] > s[j]) /\ s[j] # s[k]
        <4>. HIDE DEF s
        <4>1. s[j] \in S /\ r[s[j]] = j /\ s[k] \in S /\ r[s[k]] = k
          BY <1>6
        <4>2. s[k] > s[j] => k < j
          BY <1>1, <4>1
        <4>. QED BY <2>1, <4>1, <4>2
      <3>. QED BY <3>1, <3>2
    <2>. QED BY <1>6, <2>1
  <1>. HIDE DEF s
  <1>8. /\ InOrder(S) \in [1..n -> S]
        /\ \A j, k \in DOMAIN InOrder(S) : j < k => InOrder(S)[j] > InOrder(S)[k]
    <2>. DEFINE P(t) == \A j, k \in DOMAIN t : j < k => t[j] > t[k]
    <2>1. s \in [1..n -> S] /\ P(s)
      BY <1>7
    <2>2. InOrder(S) = CHOOSE t \in [1..n -> S] : P(t)
      BY DEF InOrder
    <2>. HIDE DEF P
    <2>3. InOrder(S) \in [1..n -> S] /\ P(InOrder(S))
      BY <2>1, <2>2
    <2>. QED BY <2>3 DEF P
  <1>. DEFINE f == InOrder(S)
  <1>. HIDE DEF f
  <1>9. f \in [1..n -> S] /\ \A j, k \in 1..n : j < k => f[j] > f[k]
    BY <1>8 DEF f
  <1>10. f \in Injection(1..n, S)
    <2>1. \A j, k \in 1..n : j # k => f[j] # f[k]
      <3>1. \A j \in 1..n : f[j] \in Nat
        BY <1>9
      <3>2. \A j, k \in 1..n : j < k \/ k < j \/ j = k
        BY <1>1
      <3>. QED BY <1>9, <3>1, <3>2
    <2>. QED BY <1>9, <2>1 DEF Injection, IsInjective
  <1>11. f \in Surjection(1..n, S)
    BY <1>3, <1>10, FS_Injection
  <1>. QED BY <1>9, <1>11 DEF Leads, Surjection, f

\* Of the sequences that lead there is one of each length.
LEMMA LeadsInOrder ==
    ASSUME NEW S \in SUBSET Nat, IsFiniteSet(S), NEW m \in Nat, NEW f, Leads(f, m, S)
    PROVE  /\ m <= Cardinality(S) /\ Cardinality(S) \in Nat
           /\ \A k \in 1..m : f[k] = InOrder(S)[k]
  <1>1. Cardinality(S) \in Nat /\ Leads(InOrder(S), Cardinality(S), S)
    BY InOrderLeads, FS_CardinalityType
  <1>2. \A k \in 1..m : f[k] \in S /\ Place(S, f[k]) = k
    BY LeadsPlace DEF Leads
  <1>. DEFINE n == Cardinality(S)
              g == InOrder(S)
  <1>. HIDE DEF n, g
  <1>3. \A k \in 1..n : g[k] \in S /\ Place(S, g[k]) = k
    <2>1. n \in Nat /\ Leads(g, n, S)
      BY <1>1 DEF n, g
    <2>. QED BY <2>1, LeadsPlace DEF Leads
  <1>4. m <= n
    <2>1. \A k \in 1..m : k \in 1..n
      BY <1>2, PlaceGrows DEF n
    <2>. QED BY <1>1, <2>1 DEF n
  <1>5. \A x, y \in S : Place(S, x) = Place(S, y) => x = y
    <2>1. \A x, y \in S : x > y => Place(S, x) < Place(S, y)
      BY PlaceGrows
    <2>2. \A x \in S : Place(S, x) \in Nat
      BY PlaceGrows
    <2>3. \A x, y \in S : x > y \/ y > x \/ x = y
      <3>1. \A x, y \in Nat : x > y \/ y > x \/ x = y
        OBVIOUS
      <3>. QED BY <3>1
    <2>. QED BY <2>1, <2>2, <2>3
  <1>6. \A k \in 1..m : f[k] = g[k]
    <2>. SUFFICES ASSUME NEW k \in 1..m PROVE f[k] = g[k]
      OBVIOUS
    <2>1. k \in 1..n
      BY <1>1, <1>4 DEF n
    <2>2. f[k] \in S /\ Place(S, f[k]) = k
      BY <1>2
    <2>3. g[k] \in S /\ Place(S, g[k]) = k
      BY <1>3, <2>1
    <2>. QED BY <1>5, <2>2, <2>3
  <1>. QED BY <1>1, <1>4, <1>6 DEF n, g

LEMMA FoundFinite ==
    ASSUME NEW S \in SUBSET Ids
    PROVE  S \in SUBSET Nat /\ IsFiniteSet(S) /\ Cardinality(S) \in Nat
  <1>1. IsFiniteSet(S)
    BY IdsAssumption, FS_Subset
  <1>. QED BY <1>1, IdsAssumption, FS_CardinalityType

LEMMA InOrderSeq ==
    ASSUME NEW S \in SUBSET Nat, IsFiniteSet(S)
    PROVE  /\ InOrder(S) \in Seq(S) /\ Len(InOrder(S)) = Cardinality(S)
           /\ \A x \in S : \E k \in 1..Cardinality(S) : InOrder(S)[k] = x
           /\ S # {} => InOrder(S) # <<>> /\ \E x \in S : \A y \in S : x <= y
  <1>. DEFINE n == Cardinality(S)
              f == InOrder(S)
  <1>1. n \in Nat /\ Leads(f, n, S)
    BY InOrderLeads, FS_CardinalityType
  <1>2. f \in [1..n -> S]
    BY <1>1 DEF Leads
  <1>3. S # {} => n # 0
    BY FS_EmptySet
  <1>4. ASSUME S # {}
        PROVE  n \in 1..n /\ f[n] \in S /\ \A x \in S : f[n] <= x
    <2>1. f[n] \in S /\ Place(S, f[n]) = n /\ n \in 1..n
      BY <1>1, <1>2, <1>3, <1>4, LeadsPlace
    <2>2. ASSUME NEW x \in S PROVE f[n] <= x
      <3>1. f[n] > x => Place(S, f[n]) < Place(S, x)
        BY <2>1, PlaceGrows
      <3>2. Place(S, x) \in 1..n
        BY PlaceGrows
      <3>3. ~(f[n] > x)
        BY <1>1, <2>1, <3>1, <3>2
      <3>4. f[n] \in Nat /\ x \in Nat
        BY <2>1
      <3>. QED BY <3>3, <3>4
    <2>. QED BY <2>1, <2>2
  <1>5. ASSUME NEW x \in S PROVE \E k \in 1..n : f[k] = x
    <2>1. n \in 1..n /\ f[n] \in S /\ f[n] <= x
      BY <1>4
    <2>2. x = f[n] \/ x > f[n]
      <3>1. \A a, b \in Nat : b <= a => a = b \/ a > b
        OBVIOUS
      <3>. QED BY <2>1, <3>1
    <2>. QED BY <1>1, <2>1, <2>2 DEF Leads
  <1>6. f \in Seq(S) /\ Len(f) = n
    BY <1>1, <1>2, SeqDef
  <1>7. S # {} => f # <<>>
    BY <1>3, <1>6
  <1>. QED BY <1>4, <1>5, <1>6, <1>7

-----------------------------------------------------------------------------
(* Types                                                                   *)

Words == {"", "key", "undefined"}
Flags == {"loading", "searching"}
Item == [id : Ids, status : 1..3]
Lists == [arr : Nat, rows : Seq(Row), of : Words]
Pagers == [page : Nat \ {0}, size : Sizes, count : Nat]
Forms == [word : {"", "key"}, filtering : BOOLEAN, stat : Words]
Reads == {"load", "totals", "search"}
Requests == [op : Reads \cup {"switch", "delete", "drop", "copy", "purge"}, page : Nat, size : Nat,
             query : Words, rows : SUBSET Row, to : Nat]
Actives == [pc : {"sent", "answered"}, req : Requests, no : Nat, seen : Lists, pager : Pagers, search : Forms,
            data : Seq(Item), total : Nat, mounted : BOOLEAN, answer : {"ok", "refused", "broken"},
            second : BOOLEAN]

\* Views that load by the default page size alone.
Even == {"users", "redemptions", "withdrawals", "topups", "mjlogs", "minemj"}
\* What view v may ask for.
Ops(v) ==
    CASE v = "channels" -> {"load", "search", "switch", "delete", "drop", "copy", "purge"}
      [] v \in {"tokens", "redemptions", "mine"} -> {"load", "search", "switch", "delete", "drop"}
      [] v = "users" -> {"load", "search", "switch", "delete"}
      [] v = "withdrawals" -> {"load", "switch"}
      [] v = "topups" -> {"load", "purge"}
      [] v = "logs" -> {"load", "totals"}
      [] v = "minewd" -> {"search"}
      [] OTHER -> {"load"}
Fits(v, q) ==
    /\ q \in Requests /\ q.op \in Ops(v)
    /\ q.op = "load" => q.size \in Sizes /\ (v \in Even => q.size = ItemsPerPage)
    /\ q.op \in {"switch", "delete", "copy"} => \E o \in Row : q.rows = {o}
    /\ q.op = "switch" => /\ q.to \in 0..3 /\ (v # "withdrawals" => q.to \in 0..2)
                          /\ q.to = 0 => v \in {"tokens", "users"}
    /\ q.op \in {"delete", "drop"} => q.to = 0
    /\ q.op = "search" /\ v = "minewd" => q.query = ""

\* Requests under way in view v.
Goods(v) ==
    {k \in Actives :
        /\ Fits(v, k.req)
        /\ k.pc = "answered" /\ k.req.op = "switch" /\ k.answer = "ok" => k.data # <<>>}

TableTypes ==
    /\ view \in Views /\ db \in [Ids -> 0..3]
    /\ list \in Lists /\ pager \in Pagers /\ search \in Forms
    /\ spin \subseteq Flags
    /\ picked \subseteq Row /\ IsFiniteSet(picked) /\ knob \in [Ids -> 0..3]
    /\ call \in [Calls -> Goods(view) \cup {NoCall}]
    /\ bounds \in [asked : Nat, upsets : Nat]

LEMMA Smallest ==
    ItemsPerPage \in Sizes
  <1>1. PICK n \in Sizes : TRUE
    BY SizesAssumption
  <1>. DEFINE S == {m \in Sizes : m <= n}
  <1>2. n \in Nat /\ S \in SUBSET Nat /\ S # {} /\ \A m \in S : m <= n
    <2>1. n \in Nat /\ \A m \in Sizes : m \in Nat
      BY SizesAssumption
    <2>2. n \in S
      BY <2>1
    <2>. QED BY <2>1, <2>2
  <1>3. IsFiniteSet(S)
    BY <1>2, FS_BoundedSetOfNaturals
  <1>4. PICK x \in S : \A y \in S : x <= y
    BY <1>2, <1>3, InOrderSeq
  <1>5. \A m \in Sizes : x <= m
    <2>. SUFFICES ASSUME NEW m \in Sizes PROVE x <= m
      OBVIOUS
    <2>1. m \in Nat /\ x \in Nat /\ x <= n
      BY <1>2, SizesAssumption
    <2>. QED BY <1>2, <1>4, <2>1
  <1>6. x \in Sizes
    OBVIOUS
  <1>. HIDE DEF S
  <1>. QED BY <1>5, <1>6 DEF ItemsPerPage

LEMMA NoCallIsNone ==
    /\ NoCall \notin Actives
    /\ NoCall.pc = "idle"
    /\ \A k \in Actives : k.pc \in {"sent", "answered"} /\ k # NoCall
  BY DEF NoCall, Actives

\* A call under way, and one that is not.
LEMMA Under ==
    ASSUME TableTypes, NEW c \in Calls
    PROVE  /\ Idle(c) <=> call[c] = NoCall
           /\ ~Idle(c) => /\ call[c] \in Goods(view) /\ call[c] \in Actives /\ Fits(view, call[c].req)
                          /\ call[c].pc \in {"sent", "answered"} /\ call[c].req \in Requests /\ call[c].seen \in Lists
  <1>1. call[c] \in Goods(view) \cup {NoCall}
    BY DEF TableTypes
  <1>2. \A k \in Goods(view) : k \in Actives /\ Fits(view, k.req)
    BY DEF Goods
  <1>3. \A k \in Actives : k.req \in Requests /\ k.seen \in Lists
    BY DEF Actives
  <1>. QED BY <1>1, <1>2, <1>3, NoCallIsNone DEF Idle

\* Rows that differ in nothing a page shows.
Alike(r, o) == r.id = o.id /\ r.status = o.status

LEMMA SeqIs ==
    ASSUME NEW S, NEW n \in Nat, NEW s, s \in [1..n -> S]
    PROVE  s \in Seq(S) /\ Len(s) = n /\ DOMAIN s = 1..n
  BY SeqDef

LEMMA ObjectsAre ==
    ASSUME NEW data \in Seq(Item), Fresh \in Nat
    PROVE  /\ Objects(data) \in Seq(Row) /\ Len(Objects(data)) = Len(data)
           /\ \A k \in 1..Len(data) : Alike(Objects(data)[k], data[k])
  <1>1. Len(data) \in Nat /\ data \in [1..Len(data) -> Item] /\ DOMAIN data = 1..Len(data)
    BY LenProperties
  <1>2. \A k \in 1..Len(data) : LET r == [id |-> data[k].id, arr |-> Fresh, status |-> data[k].status]
                               IN r \in Row /\ r.id = data[k].id /\ r.status = data[k].status
    BY <1>1 DEF Row, Item
  <1>3. Objects(data) \in [1..Len(data) -> Row]
    BY <1>1, <1>2 DEF Objects
  <1>4. \A k \in 1..Len(data) : Objects(data)[k] = [id |-> data[k].id, arr |-> Fresh, status |-> data[k].status]
    BY <1>1 DEF Objects
  <1>. QED BY <1>1, <1>2, <1>3, <1>4, SeqIs DEF Alike

LEMMA RenewedAre ==
    ASSUME NEW rows \in Seq(Row), Fresh \in Nat
    PROVE  /\ Renewed(rows) \in Seq(Row) /\ Len(Renewed(rows)) = Len(rows)
           /\ \A k \in 1..Len(rows) : Alike(Renewed(rows)[k], rows[k])
  <1>1. Len(rows) \in Nat /\ rows \in [1..Len(rows) -> Row] /\ DOMAIN rows = 1..Len(rows)
    BY LenProperties
  <1>2. \A r \in Row : LET o == [r EXCEPT !.arr = Fresh] IN o \in Row /\ Alike(o, r)
    BY DEF Row, Alike
  <1>3. Renewed(rows) \in [1..Len(rows) -> Row]
    BY <1>1, <1>2 DEF Renewed
  <1>4. \A k \in 1..Len(rows) : Renewed(rows)[k] = [rows[k] EXCEPT !.arr = Fresh]
    BY <1>1 DEF Renewed
  <1>. QED BY <1>1, <1>2, <1>3, <1>4, SeqIs

LEMMA SetTypes ==
    ASSUME NEW rows \in Seq(Row), NEW o, NEW s \in 1..3
    PROVE  Set(o, s, rows) \in Seq(Row)
  <1>1. Len(rows) \in Nat /\ rows \in [1..Len(rows) -> Row] /\ DOMAIN rows = 1..Len(rows)
    BY LenProperties
  <1>. DEFINE Put(r) == IF r.id = o.id /\ r.arr = o.arr THEN [r EXCEPT !.status = s] ELSE r
  <1>2. \A r \in Row : Put(r) \in Row
    BY DEF Row
  <1>3. Set(o, s, rows) = [k \in 1..Len(rows) |-> Put(rows[k])]
    BY <1>1 DEF Set
  <1>. HIDE DEF Put
  <1>4. Set(o, s, rows) \in [1..Len(rows) -> Row]
    BY <1>1, <1>2, <1>3
  <1>. QED BY <1>1, <1>4, SeqIs

\* The row o of these gets the status s.
LEMMA SetIs ==
    ASSUME NEW rows \in Seq(Row), NEW o \in Row, NEW s \in 1..3
    PROVE  /\ Set(o, s, rows) \in Seq(Row) /\ Len(Set(o, s, rows)) = Len(rows)
           /\ \A k \in 1..Len(rows) :
                /\ Set(o, s, rows)[k].id = rows[k].id /\ Set(o, s, rows)[k].arr = rows[k].arr
                /\ rows[k].id = o.id /\ rows[k].arr = o.arr => Set(o, s, rows)[k].status = s
                /\ ~(rows[k].id = o.id /\ rows[k].arr = o.arr) => Set(o, s, rows)[k].status = rows[k].status
  <1>1. Len(rows) \in Nat /\ rows \in [1..Len(rows) -> Row] /\ DOMAIN rows = 1..Len(rows)
    BY LenProperties
  <1>. DEFINE Put(r) == IF r.id = o.id /\ r.arr = o.arr THEN [r EXCEPT !.status = s] ELSE r
  <1>2. \A r \in Row : /\ Put(r) \in Row /\ Put(r).id = r.id /\ Put(r).arr = r.arr
                       /\ r.id = o.id /\ r.arr = o.arr => Put(r).status = s
                       /\ ~(r.id = o.id /\ r.arr = o.arr) => Put(r).status = r.status
    BY DEF Row
  <1>3. Set(o, s, rows) = [k \in 1..Len(rows) |-> Put(rows[k])]
    BY <1>1 DEF Set
  <1>. HIDE DEF Put
  <1>4. Set(o, s, rows) \in [1..Len(rows) -> Row] /\ \A k \in 1..Len(rows) : Set(o, s, rows)[k] = Put(rows[k])
    BY <1>1, <1>2, <1>3
  <1>. QED BY <1>1, <1>2, <1>4, SeqIs

LEMMA UpTo ==
    ASSUME NEW n \in Nat
    PROVE  IsFiniteSet(1..n) /\ Cardinality(1..n) = n
  BY FS_Interval

\* The places kept, in their order.
LEMMA AtIs ==
    ASSUME NEW rows \in Seq(Row), NEW P \in SUBSET DOMAIN rows
    PROVE  \E n \in 0..Len(rows) : \E h \in [1..n -> P] :
              /\ \A j, k \in 1..n : j < k => h[j] < h[k]
              /\ \A p \in P : \E k \in 1..n : h[k] = p
              /\ At(rows, P) \in Seq(Row) /\ Len(At(rows, P)) = n
              /\ \A k \in 1..n : At(rows, P)[k] = rows[h[k]]
  <1>1. Len(rows) \in Nat /\ rows \in [1..Len(rows) -> Row] /\ DOMAIN rows = 1..Len(rows)
    BY LenProperties
  <1>2. P \in SUBSET Nat /\ IsFiniteSet(P) /\ Cardinality(P) <= Len(rows)
    <2>. DEFINE D == 1..Len(rows)
    <2>1. D \in SUBSET Nat /\ IsFiniteSet(D) /\ Cardinality(D) = Len(rows)
      <3>1. IsFiniteSet(1..Len(rows)) /\ Cardinality(1..Len(rows)) = Len(rows)
        BY <1>1, UpTo
      <3>. QED BY <1>1, <3>1
    <2>2. P \in SUBSET D
      BY <1>1
    <2>. HIDE DEF D
    <2>3. IsFiniteSet(P) /\ Cardinality(P) <= Cardinality(D)
      BY <2>1, <2>2, FS_Subset
    <2>. QED BY <2>1, <2>2, <2>3
  <1>. DEFINE n == Cardinality(P)
              f == InOrder(P)
              h == [k \in 1..n |-> f[n + 1 - k]]
  <1>3. n \in Nat /\ n \in 0..Len(rows)
    BY <1>1, <1>2, FS_CardinalityType
  <1>4. Leads(f, n, P) /\ f \in Seq(P) /\ Len(f) = n /\ \A x \in P : \E k \in 1..n : f[k] = x
    BY <1>2, InOrderLeads, InOrderSeq
  <1>5. At(rows, P) = [k \in 1..n |-> rows[f[n + 1 - k]]]
    BY DEF At
  <1>. HIDE DEF f, n
  <1>6. \A k \in 1..n : n + 1 - k \in 1..n /\ n + 1 - (n + 1 - k) = k
    BY <1>3
  <1>7. f \in [1..n -> P] /\ \A j, k \in 1..n : j < k => f[j] > f[k]
    BY <1>4 DEF Leads
  <1>8. h \in [1..n -> P] /\ \A k \in 1..n : h[k] = f[n + 1 - k]
    BY <1>6, <1>7
  <1>9. ASSUME NEW j \in 1..n, NEW k \in 1..n, j < k PROVE h[j] < h[k]
    <2>1. n + 1 - k \in 1..n /\ n + 1 - j \in 1..n /\ n + 1 - k < n + 1 - j
      BY <1>3, <1>9
    <2>2. f[n + 1 - k] > f[n + 1 - j]
      BY <1>7, <2>1
    <2>3. h[j] \in Nat /\ h[k] \in Nat
      BY <1>2, <1>8
    <2>. QED BY <1>8, <2>2, <2>3
  <1>10. ASSUME NEW p \in P PROVE \E k \in 1..n : h[k] = p
    <2>1. PICK j \in 1..n : f[j] = p
      BY <1>4
    <2>2. n + 1 - j \in 1..n /\ h[n + 1 - j] = f[j]
      BY <1>3, <1>6, <1>8
    <2>. QED BY <2>1, <2>2
  <1>. HIDE DEF h
  <1>11. At(rows, P) \in [1..n -> Row] /\ \A k \in 1..n : At(rows, P)[k] = rows[h[k]]
    <2>1. \A k \in 1..n : h[k] \in 1..Len(rows) /\ rows[h[k]] \in Row
      BY <1>1, <1>8
    <2>2. At(rows, P) = [k \in 1..n |-> rows[h[k]]]
      BY <1>5, <1>8
    <2>. QED BY <2>1, <2>2
  <1>12. At(rows, P) \in Seq(Row) /\ Len(At(rows, P)) = n
    BY <1>3, <1>11, SeqIs
  <1>13. \E g \in [1..n -> P] :
              /\ \A j, k \in 1..n : j < k => g[j] < g[k]
              /\ \A p \in P : \E k \in 1..n : g[k] = p
              /\ At(rows, P) \in Seq(Row) /\ Len(At(rows, P)) = n
              /\ \A k \in 1..n : At(rows, P)[k] = rows[g[k]]
    <2>. h \in [1..n -> P]
      BY <1>8
    <2>. WITNESS h \in [1..n -> P]
    <2>. QED BY <1>9, <1>10, <1>11, <1>12
  <1>. QED BY <1>3, <1>13

\* What is at place j once rows are put behind the first of those held.
Behind(old, at, rows, j) == IF j > at /\ j <= at + Len(rows) THEN rows[j - at] ELSE old[j]

\* A page that the rows before reach: what is sent is put at its place.
LEMMA SpliceIs ==
    ASSUME NEW old \in Seq(Row), NEW rows \in Seq(Row), NEW at \in Nat
    PROVE  LET new == Splice(old, at, rows) IN
           /\ new \in Seq(Row)
           /\ at <= Len(old) =>
                /\ Len(new) = IF at + Len(rows) < Len(old) THEN Len(old) ELSE at + Len(rows)
                /\ \A k \in 1..Len(new) : new[k] = Behind(old, at, rows, k)
  <1>1. Len(old) \in Nat /\ Len(rows) \in Nat /\ old \in [1..Len(old) -> Row] /\ rows \in [1..Len(rows) -> Row]
    BY LenProperties
  <1>. DEFINE m == IF at < Len(old) THEN at ELSE Len(old)
              a == SubSeq(old, 1, m)
              b == at + Len(rows) + 1
              z == SubSeq(old, b, Len(old))
  <1>0. Len(old) \in Nat /\ Len(rows) \in Nat
    BY <1>1
  <1>2. m \in Nat /\ m <= Len(old) /\ (at <= Len(old) => m = at)
    BY <1>0
  <1>3. a \in Seq(Row) /\ Len(a) = m /\ \A i \in 1..m : a[i] = old[i]
    <2>. HIDE DEF m
    <2>1. \A i \in 1..m : old[i] \in Row
      <3>1. \A i \in 1..m : i \in 1..Len(old)
        BY <1>0, <1>2
      <3>. QED BY <1>1, <3>1
    <2>2. /\ a \in Seq(Row) /\ Len(a) = IF 1 <= m THEN m - 1 + 1 ELSE 0
          /\ \A i \in 1..(m - 1 + 1) : a[i] = old[1 + i - 1]
      BY <1>2, <2>1, SubSeqProperties
    <2>. QED BY <1>2, <2>2
  <1>4. /\ z \in Seq(Row) /\ Len(z) = IF b <= Len(old) THEN Len(old) - b + 1 ELSE 0
        /\ \A i \in 1..(Len(old) - b + 1) : z[i] = old[b + i - 1]
    <2>1. b \in Int /\ Len(old) \in Int /\ \A i \in b..Len(old) : old[i] \in Row
      BY <1>1
    <2>. HIDE DEF b
    <2>. QED BY <2>1, SubSeqProperties
  <1>5. Splice(old, at, rows) = (a \o rows) \o z
    BY DEF Splice
  <1>10. b \in Nat /\ (at <= Len(old) => b = m + Len(rows) + 1)
    BY <1>0
  <1>. HIDE DEF a, z, m, b
  <1>. DEFINE ar == a \o rows
              l == m + Len(rows)
  <1>6. ar \in Seq(Row) /\ Len(ar) = l /\ \A i \in 1..l : ar[i] = IF i <= m THEN a[i] ELSE rows[i - m]
    <2>1. /\ a \o rows \in Seq(Row) /\ Len(a \o rows) = Len(a) + Len(rows)
          /\ \A i \in 1..(Len(a) + Len(rows)) : (a \o rows)[i] = IF i <= Len(a) THEN a[i] ELSE rows[i - Len(a)]
      BY <1>3, ConcatProperties
    <2>. QED BY <1>3, <2>1
  <1>. HIDE DEF ar
  <1>. DEFINE new == ar \o z
              x == Len(z)
  <1>7. new \in Seq(Row) /\ Len(new) = l + x /\ \A i \in 1..(l + x) : new[i] = IF i <= l THEN ar[i] ELSE z[i - l]
    <2>1. /\ ar \o z \in Seq(Row) /\ Len(ar \o z) = Len(ar) + Len(z)
          /\ \A i \in 1..(Len(ar) + Len(z)) : (ar \o z)[i] = IF i <= Len(ar) THEN ar[i] ELSE z[i - Len(ar)]
      BY <1>4, <1>6, ConcatProperties
    <2>. QED BY <1>6, <2>1
  <1>11. x = (IF b <= Len(old) THEN Len(old) - b + 1 ELSE 0) /\ l \in Nat /\ (at <= Len(old) => m = at /\ b = l + 1)
    BY <1>0, <1>2, <1>4, <1>10
  <1>12. \A i \in 1..x : z[i] = old[b + i - 1]
    <2>1. \A i \in 1..x : i \in 1..(Len(old) - b + 1)
      BY <1>0, <1>10, <1>11
    <2>. QED BY <1>4, <2>1
  <1>. HIDE DEF new, x
  <1>8. ASSUME at <= Len(old)
        PROVE  /\ Len(new) = IF at + Len(rows) < Len(old) THEN Len(old) ELSE at + Len(rows)
               /\ \A k \in 1..Len(new) : new[k] = Behind(old, at, rows, k)
    <2>1. m = at /\ l = at + Len(rows) /\ b = l + 1 /\ l \in Nat
      BY <1>8, <1>11
    <2>. HIDE DEF l
    <2>2. x = (IF l < Len(old) THEN Len(old) - l ELSE 0)
      BY <1>0, <1>11, <2>1
    <2>0. x \in Nat /\ Len(new) = l + x
      BY <1>0, <1>7, <2>1, <2>2
    <2>3. Len(new) = IF l < Len(old) THEN Len(old) ELSE l
      <3>1. CASE l < Len(old)
        <4>1. x = Len(old) - l
          BY <2>2, <3>1
        <4>2. l + (Len(old) - l) = Len(old)
          BY <1>0, <2>1
        <4>. QED BY <2>0, <3>1, <4>1, <4>2
      <3>2. CASE ~(l < Len(old))
        <4>1. x = 0 /\ l + 0 = l
          BY <2>1, <2>2, <3>2
        <4>. QED BY <2>0, <3>2, <4>1
      <3>. QED BY <3>1, <3>2
    <2>4. ASSUME NEW k \in 1..Len(new)
          PROVE  new[k] = IF k > at /\ k <= l THEN rows[k - at] ELSE old[k]
      <3>0. k \in Nat /\ k >= 1 /\ k <= l + x /\ Len(new) = l + x /\ x \in Nat
        BY <2>0, <2>1
      <3>00. new[k] = IF k <= l THEN ar[k] ELSE z[k - l]
        BY <1>7, <2>1, <3>0
      <3>1. CASE k <= at
        <4>1. k \in 1..l /\ k <= l /\ k \in 1..m /\ k <= m
          BY <1>0, <2>1, <3>0, <3>1
        <4>2. ar[k] = a[k] /\ a[k] = old[k]
          BY <1>3, <1>6, <4>1
        <4>. QED BY <3>00, <3>0, <3>1, <4>1, <4>2
      <3>2. CASE k > at /\ k <= l
        <4>1. k \in 1..l /\ ~(k <= m)
          BY <2>1, <3>0, <3>2
        <4>2. ar[k] = rows[k - at]
          BY <1>6, <2>1, <4>1
        <4>. QED BY <3>00, <3>2, <4>2
      <3>3. CASE k > l
        <4>1. k - l \in 1..x /\ b + (k - l) - 1 = k /\ ~(k <= l)
          BY <2>1, <3>0, <3>3
        <4>2. z[k - l] = old[k]
          BY <1>12, <4>1
        <4>3. ~(k > at /\ k <= l)
          BY <3>3, <4>1
        <4>. QED BY <3>00, <4>1, <4>2, <4>3
      <3>4. k <= at \/ (k > at /\ k <= l) \/ k > l
        BY <2>1, <3>0
      <3>. QED BY <3>1, <3>2, <3>3, <3>4
    <2>5. \A k \in 1..Len(new) : new[k] = Behind(old, at, rows, k)
      BY <2>1, <2>4 DEF Behind
    <2>. QED BY <2>1, <2>3, <2>5
  <1>13. Splice(old, at, rows) = new
    BY <1>5 DEF new, ar
  <1>. QED BY <1>7, <1>8, <1>13

LEMMA FreshIs ==
    ASSUME TableTypes
    PROVE  Fresh \in Nat
  <1>. DEFINE W == {d \in Calls : ~Idle(d)}
              U == UNION {ArraysOf(call[c].seen) : c \in W}
              P == {r.arr : r \in picked}
  <1>1. ASSUME NEW l \in Lists
        PROVE  IsFiniteSet(ArraysOf(l)) /\ ArraysOf(l) \subseteq Nat
    <2>1. l.rows \in Seq(Row) /\ l.arr \in Nat
      BY DEF Lists
    <2>2. Len(l.rows) \in Nat /\ l.rows \in [1..Len(l.rows) -> Row]
      BY <2>1, LenProperties
    <2>. DEFINE D == 1..Len(l.rows)
                G == {l.rows[k].arr : k \in D}
    <2>3. IsFiniteSet(D)
      BY <2>2, UpTo
    <2>4. IsFiniteSet(G)
      <3>. HIDE DEF D
      <3>. DEFINE h == [k \in D |-> l.rows[k].arr]
      <3>1. h \in Surjection(D, G)
        BY DEF Surjection
      <3>. QED BY <2>3, <3>1, FS_Surjection
    <2>5. \A r \in Row : r.arr \in Nat
      BY DEF Row
    <2>6. G \subseteq Nat
      BY <2>2, <2>5
    <2>7. ArraysOf(l) = G \cup {l.arr}
      BY <2>2 DEF ArraysOf, ToSet
    <2>. HIDE DEF G
    <2>8. IsFiniteSet(G \cup {l.arr})
      BY <2>4, FS_AddElement
    <2>. QED BY <2>1, <2>6, <2>7, <2>8
  <1>2. list \in Lists /\ \A c \in W : call[c].seen \in Lists
    BY Under DEF TableTypes
  <1>3. IsFiniteSet(W)
    BY CallsAssumption, FS_Subset
  <1>4. IsFiniteSet(U) /\ U \subseteq Nat
    <2>. DEFINE Q == {ArraysOf(call[c].seen) : c \in W}
                h == [c \in W |-> ArraysOf(call[c].seen)]
    <2>. HIDE DEF W
    <2>1. h \in Surjection(W, Q)
      BY DEF Surjection
    <2>2. IsFiniteSet(Q)
      BY <1>3, <2>1, FS_Surjection
    <2>3. \A x \in Q : IsFiniteSet(x) /\ x \subseteq Nat
      BY <1>1, <1>2
    <2>4. IsFiniteSet(UNION Q)
      BY <2>2, <2>3, FS_UNION
    <2>. QED BY <2>3, <2>4
  <1>5. IsFiniteSet(P) /\ P \subseteq Nat
    <2>. DEFINE h == [r \in picked |-> r.arr]
    <2>1. h \in Surjection(picked, P)
      BY DEF Surjection
    <2>2. IsFiniteSet(P)
      BY <2>1, FS_Surjection DEF TableTypes
    <2>. QED BY <2>2 DEF TableTypes, Row
  <1>6. IsFiniteSet(Arrays) /\ Arrays \subseteq Nat
    <2>1. Arrays = (ArraysOf(list) \cup U) \cup P
      BY Zenon DEF Arrays
    <2>. HIDE DEF P, U
    <2>2. IsFiniteSet(ArraysOf(list)) /\ ArraysOf(list) \subseteq Nat
      BY <1>1, <1>2
    <2>3. IsFiniteSet(ArraysOf(list) \cup U)
      BY <1>4, <2>2, FS_Union
    <2>4. IsFiniteSet((ArraysOf(list) \cup U) \cup P)
      BY <1>5, <2>3, FS_Union
    <2>. QED BY <1>4, <1>5, <2>1, <2>2, <2>4
  <1>. DEFINE n == Cardinality(Arrays)
              Z == {m \in 0..n : m \notin Arrays}
  <1>7. n \in Nat
    BY <1>6, FS_CardinalityType
  <1>8. Z # {}
    <2>. SUFFICES ASSUME Z = {} PROVE FALSE
      OBVIOUS
    <2>1. 0..n \subseteq Arrays
      OBVIOUS
    <2>2. IsFiniteSet(0..n) /\ Cardinality(0..n) = n + 1
      BY <1>7, FS_Interval
    <2>3. Cardinality(0..n) <= n
      BY <1>6, <2>1, FS_Subset
    <2>. QED BY <1>7, <2>2, <2>3
  <1>9. Z \in SUBSET Nat /\ IsFiniteSet(Z)
    <2>1. \A m \in Z : m <= n
      BY <1>7
    <2>2. Z \in SUBSET Nat
      BY <1>7
    <2>. QED BY <1>7, <2>1, <2>2, FS_BoundedSetOfNaturals
  <1>10. PICK m \in Z : \A y \in Z : m <= y
    BY <1>8, <1>9, InOrderSeq
  <1>11. m \in 0..n /\ m \notin Arrays /\ \A x \in 0..(m - 1) : x \in Arrays
    <2>1. m \in 0..n /\ m \notin Arrays
      OBVIOUS
    <2>2. ASSUME NEW x \in 0..(m - 1) PROVE x \in Arrays
      <3>1. x \in 0..n /\ ~(m <= x)
        BY <1>7, <2>1, <2>2
      <3>. QED BY <1>10, <3>1
    <2>. QED BY <2>1, <2>2
  <1>. HIDE DEF Z
  <1>. DEFINE F(x) == x \notin Arrays /\ \A y \in 0..(x - 1) : y \in Arrays
  <1>12. Fresh = CHOOSE x \in 0..n : F(x)
    BY DEF Fresh
  <1>13. m \in 0..n /\ F(m)
    BY <1>11
  <1>. HIDE DEF F, n
  <1>14. Fresh \in 0..n
    BY <1>12, <1>13
  <1>. QED BY <1>7, <1>14

-----------------------------------------------------------------------------
(* Requests and calls                                                      *)

LEMMA FitsSwitch ==
    ASSUME NEW v, NEW q, Fits(v, q), q.op = "switch"
    PROVE  /\ q.to \in 0..3 /\ (v # "withdrawals" => q.to \in 0..2) /\ (q.to = 0 => v \in {"tokens", "users"})
           /\ "switch" \in Ops(v) /\ \E o \in Row : q.rows = {o}
  BY DEF Fits

LEMMA Loadable ==
    ASSUME NEW v, "load" \in Ops(v), NEW p \in Nat, NEW n \in Sizes, v \in Even => n = ItemsPerPage,
           NEW w \in Words, NEW t \in Nat
    PROVE  /\ Fits(v, Load(p, n)) /\ Fits(v, LoadOf(w, p, n)) /\ Fits(v, Reload(w, n))
           /\ Fits(v, ThenPage(Load(p, n), t)) /\ Fits(v, ThenPage(LoadOf(w, p, n), t))
  <1>1. n \in Nat /\ {} \in SUBSET Row /\ "" \in Words
    BY SizesAssumption DEF Words
  <1>2. ASSUME NEW q \in Requests, q.op = "load", q.size = n
        PROVE  Fits(v, q)
    BY <1>2 DEF Fits
  <1>3. Load(p, n) \in Requests /\ Load(p, n).op = "load" /\ Load(p, n).size = n
    BY <1>1 DEF Load, Requests, Reads
  <1>4. LoadOf(w, p, n) \in Requests /\ LoadOf(w, p, n).op = "load" /\ LoadOf(w, p, n).size = n
    BY <1>1 DEF LoadOf, Load, Requests, Reads
  <1>5. Reload(w, n) \in Requests /\ Reload(w, n).op = "load" /\ Reload(w, n).size = n
    BY <1>1 DEF Reload, LoadOf, Load, Requests, Reads
  <1>6. ThenPage(Load(p, n), t) \in Requests /\ ThenPage(Load(p, n), t).op = "load" /\ ThenPage(Load(p, n), t).size = n
    BY <1>3 DEF ThenPage, Requests
  <1>7. /\ ThenPage(LoadOf(w, p, n), t) \in Requests /\ ThenPage(LoadOf(w, p, n), t).op = "load"
        /\ ThenPage(LoadOf(w, p, n), t).size = n
    BY <1>4 DEF ThenPage, Requests
  <1>. QED BY <1>2, <1>3, <1>4, <1>5, <1>6, <1>7

LEMMA Searchable ==
    ASSUME NEW v, NEW w \in Words, NEW t \in Nat, v = "minewd" => w = ""
    PROVE  /\ "search" \in Ops(v) => Fits(v, Search(w)) /\ Fits(v, ThenPage(Search(w), t))
           /\ "totals" \in Ops(v) => Fits(v, Totals(w))
  <1>1. {} \in SUBSET Row /\ "" \in Words
    BY DEF Words
  <1>2. Search(w) \in Requests /\ Search(w).op = "search" /\ Search(w).query = w
    BY <1>1 DEF Search, Load, Requests, Reads
  <1>3. ThenPage(Search(w), t) \in Requests /\ ThenPage(Search(w), t).op = "search" /\ ThenPage(Search(w), t).query = w
    BY <1>2 DEF ThenPage, Requests
  <1>4. Totals(w) \in Requests /\ Totals(w).op = "totals"
    BY <1>1 DEF Totals, LoadOf, Load, Requests, Reads
  <1>. QED BY <1>2, <1>3, <1>4 DEF Fits

LEMMA Changeable ==
    ASSUME NEW v, NEW o \in Row, NEW t \in 0..3, NEW S \in SUBSET Row
    PROVE  /\ "switch" \in Ops(v) /\ (t = 0 => v \in {"tokens", "users"}) /\ (t = 3 => v = "withdrawals") => Fits(v, Switch(o, t))
           /\ v \in {"tokens", "users"} => Fits(v, Rank(o))
           /\ "delete" \in Ops(v) => Fits(v, Delete(o))
           /\ "copy" \in Ops(v) => Fits(v, Copy(o))
           /\ "drop" \in Ops(v) => Fits(v, Drop(S))
           /\ "purge" \in Ops(v) => Fits(v, Purge)
  <1>1. {o} \in SUBSET Row /\ {} \in SUBSET Row /\ "" \in Words /\ 0 \in Nat /\ t \in Nat
    BY DEF Words
  <1>2. ASSUME NEW u \in Nat
        PROVE  Switch(o, u) \in Requests /\ Switch(o, u).op = "switch" /\ Switch(o, u).rows = {o} /\ Switch(o, u).to = u
    BY <1>1 DEF Switch, Load, Requests
  <1>3. Delete(o) \in Requests /\ Delete(o).op = "delete" /\ Delete(o).rows = {o} /\ Delete(o).to = 0
    BY <1>1 DEF Delete, Load, Requests
  <1>4. Copy(o) \in Requests /\ Copy(o).op = "copy" /\ Copy(o).rows = {o}
    BY <1>1 DEF Copy, Load, Requests
  <1>5. Drop(S) \in Requests /\ Drop(S).op = "drop" /\ Drop(S).to = 0
    BY <1>1 DEF Drop, Load, Requests
  <1>6. Purge \in Requests /\ Purge.op = "purge"
    BY <1>1 DEF Purge, Load, Requests
  <1>7. v \in {"tokens", "users"} => Fits(v, Rank(o))
    <2>1. Rank(o) = Switch(o, 0)
      BY DEF Rank
    <2>2. v \in {"tokens", "users"} => "switch" \in Ops(v)
      BY DEF Ops
    <2>3. Switch(o, 0) \in Requests /\ Switch(o, 0).op = "switch" /\ Switch(o, 0).rows = {o} /\ Switch(o, 0).to = 0
      BY <1>1, <1>2
    <2>. DEFINE q == Switch(o, 0)
    <2>5. q \in Requests /\ q.op = "switch" /\ q.rows = {o} /\ q.to = 0
      BY <2>3
    <2>. HIDE DEF q
    <2>6. v \in {"tokens", "users"} => Fits(v, q)
      BY <2>2, <2>5 DEF Fits
    <2>4. v \in {"tokens", "users"} => Fits(v, Switch(o, 0))
      BY <2>6 DEF q
    <2>. QED BY <2>1, <2>4
  <1>8. ASSUME "switch" \in Ops(v), t = 0 => v \in {"tokens", "users"}, t = 3 => v = "withdrawals"
        PROVE  Fits(v, Switch(o, t))
    <2>. DEFINE q == Switch(o, t)
    <2>1. q \in Requests /\ q.op = "switch" /\ q.rows = {o} /\ q.to = t
      BY <1>1, <1>2
    <2>2. v # "withdrawals" => t \in 0..2
      BY <1>8
    <2>. HIDE DEF q
    <2>3. Fits(v, q)
      BY <1>8, <2>1, <2>2 DEF Fits
    <2>. QED BY <2>3 DEF q
  <1>9. "delete" \in Ops(v) => Fits(v, Delete(o))
    BY <1>3 DEF Fits
  <1>10. "copy" \in Ops(v) => Fits(v, Copy(o))
    BY <1>4 DEF Fits
  <1>11. "drop" \in Ops(v) => Fits(v, Drop(S))
    BY <1>5 DEF Fits
  <1>12. "purge" \in Ops(v) => Fits(v, Purge)
    BY <1>6 DEF Fits
  <1>. QED BY <1>7, <1>8, <1>9, <1>10, <1>11, <1>12

LEMMA SentIs ==
    ASSUME list \in Lists, NEW q, Fits(view, q), NEW n \in Nat, NEW p \in Pagers, NEW f \in Forms
    PROVE  Sent(q, n, p, f) \in Goods(view)
  <1>0. <<>> \in Seq(Item)
    OBVIOUS
  <1>1. q \in Requests /\ <<>> \in Seq(Item)
    BY <1>0, Zenon DEF Fits
  <1>2. Sent(q, n, p, f) \in Actives
    BY <1>1 DEF Sent, Actives
  <1>3. Sent(q, n, p, f).pc = "sent" /\ Sent(q, n, p, f).req = q
    BY DEF Sent
  <1>. QED BY <1>2, <1>3 DEF Goods

\* What a call goes on with.
LEMMA OnwardIs ==
    ASSUME NEW k \in Goods(view), NEW q, Fits(view, q)
    PROVE  LET o == [k EXCEPT !.pc = "sent", !.req = q, !.second = TRUE] IN
           /\ o \in Goods(view) /\ o.pc = "sent" /\ o.req = q /\ o.second
           /\ o.no = k.no /\ o.seen = k.seen /\ o.data = k.data
  <1>. DEFINE o == [k EXCEPT !.pc = "sent", !.req = q, !.second = TRUE]
  <1>1. k \in Actives /\ q \in Requests
    BY DEF Goods, Fits
  <1>2. /\ o \in Actives /\ o.pc = "sent" /\ o.req = q /\ o.second
        /\ o.no = k.no /\ o.seen = k.seen /\ o.data = k.data
    BY <1>1 DEF Actives
  <1>. QED BY <1>2 DEF Goods

-----------------------------------------------------------------------------
(* Steps by their shape                                                    *)

\* The indicators that the answer of a request ends, come what may of it but
\* an error that its handler in some views does not catch.
Clears(v, q) ==
    CASE q.op = "load" -> {"loading"}
      [] q.op = "search" -> IF v = "mine" THEN {"loading"} ELSE IF v = "minewd" THEN {} ELSE {"searching"}
      [] q.op \in {"switch", "delete", "drop"} /\ v = "tokens" -> {"loading"}
      [] q.op = "purge" /\ v = "topups" -> {"loading"}
      [] OTHER -> {}
Sure == {"logs", "minelogs", "minewd", "mine", "withdrawals"}

\* What has no part in the rows keeps its type.
Around ==
    /\ view' = view
    /\ pager' \in Pagers /\ search' \in Forms /\ spin' \subseteq Flags
    /\ picked' \subseteq Row /\ IsFiniteSet(picked') /\ knob' \in [Ids -> 0..3]
CallsAfter == call' \in [Calls -> Goods(view) \cup {NoCall}]

\* Nothing is sent and nothing answered.
ShapeLocal == UNCHANGED <<db, list, knob, call, bounds, spin>> /\ history \subseteq history'
\* A row that a request is about is on the page; one that was used, of the
\* users and the codes, is not switched.
Rowed(q) ==
    q.op \in {"switch", "delete"} /\ view # "withdrawals" =>
        \E o \in ToSet(list.rows) :
            /\ q.rows = {o}
            /\ q.op = "switch" /\ q.to # 0 /\ view \in {"users", "redemptions"} => o.status # 3
ShapeAsk ==
    \E c \in Calls, q \in Requests, p \in Pagers, f \in Forms :
        /\ AskBy(c, q, p, f) /\ Fits(view, q) /\ Rowed(q)
        /\ spin' \subseteq spin \cup Clears(view, q)
        /\ UNCHANGED <<db, list, knob>>
ShapeAskTwo ==
    \E c, d \in Calls, q, o \in Requests, p \in Pagers :
        /\ AskTwo(c, d, q, o, p) /\ Fits(view, q) /\ Fits(view, o)
        /\ q.op \in Reads /\ o.op \in Reads /\ q.page = 0
        /\ spin' \subseteq spin \cup Clears(view, q) \cup Clears(view, o)
        /\ UNCHANGED <<db, list, knob>>
\* The answer of c is handled, after those of the calls sent before it.
Handles(c) ==
    /\ c \in Calls /\ call[c].pc = "answered"
    /\ history \subseteq history'
    /\ (\E d \in Calls : ~Idle(d) /\ call[d].no < call[c].no) => "reordered" \in history'
    /\ UNCHANGED <<db, bounds>>
\* ... and it leaves the rows alone.
ShapeEnd(c) ==
    /\ Handles(c) /\ End(c) /\ list' = list /\ (view # "mine" => knob' = knob)
    /\ \/ call[c].answer # "ok" \/ call[c].req.op = "totals"
       \/ view = "mine" /\ call[c].req.op = "switch"
       \/ view = "channels" /\ call[c].req.op = "purge"
\* ... and a load follows.
ShapeGoOn(c) ==
    \E q \in Requests :
        /\ Handles(c) /\ GoOn(c, q) /\ UNCHANGED <<list, knob>> /\ Fits(view, q) /\ q.op = "load"
        /\ q.page = 0 \/ q.page = call[c].pager.page - 1
        /\ \/ call[c].req.op \in {"drop", "purge"}
           \/ call[c].answer = "ok" /\ \/ view = "channels" /\ call[c].req.op = "copy"
                                       \/ view = "mine" /\ call[c].req.op = "delete" /\ q.page = 0
                                       \/ view = "withdrawals" /\ call[c].req.op = "switch" /\ q.page = 0
                                       \/ /\ view = "tokens" /\ call[c].req.op = "switch" /\ call[c].req.to = 0
                                          /\ (\E d \in Calls \ {c} : ~Idle(d)) => "clash" \in history'
        /\ call[c].req.op = "drop" => view # "tokens" /\ (view = "mine" => q.page = 0)
        /\ call[c].req.op = "purge" => view = "topups" /\ q.page = 0
\* Every other call is as it was, but for the rows its closure holds.
Others(c) ==
    /\ call' = [d \in Calls |-> call'[d]]
    /\ \A d \in Calls : IF d = c \/ Idle(d) THEN call'[d] = NoCall
                        ELSE \E l \in Lists : call'[d] = [call[d] EXCEPT !.seen = l]
\* ... and its rows replace those held.
ShapeReplace(c) ==
    /\ Handles(c) /\ End(c) /\ knob' = knob
    /\ call[c].answer = "ok" /\ call[c].req.op \in {"load", "search"}
    /\ call[c].req.op = "load" => call[c].req.page = 0
    /\ list' \in Lists /\ list'.of = call[c].req.query
    /\ Len(list'.rows) = Len(call[c].data)
    /\ \A k \in 1..Len(call[c].data) : Alike(list'.rows[k], call[c].data[k])
\* ... and its rows are put behind those its closure holds.
ShapeSplice(c) ==
    LET k == call[c]
        at == k.req.page * k.req.size
    IN
    /\ Handles(c) /\ knob' = knob
    /\ k.answer = "ok" /\ k.req.op = "load" /\ k.req.page > 0
    /\ Others(c) /\ (view \notin {"users", "redemptions"} => End(c))
    /\ list' \in Lists /\ list'.of = k.seen.of
    /\ Len(k.seen.rows) < at => "gap" \in history'
    /\ k.req.query # k.seen.of => "mixed" \in history'
    /\ view \in {"users", "redemptions"} =>
          /\ Len(k.seen.rows) > at => "pushed" \in history'
          /\ \A r \in ToSet(list'.rows) :
                (\E o \in ToSet(k.seen.rows) : Alike(r, o)) \/ \E j \in 1..Len(k.data) : Alike(r, k.data[j])
          /\ \A d \in Calls : d # c /\ ~Idle(d) => call'[d].seen.rows \in {call[d].seen.rows, list'.rows}
    /\ at = Len(k.seen.rows) \/ (view \notin {"users", "redemptions"} /\ at < Len(k.seen.rows)) =>
          /\ Len(list'.rows) = IF at + Len(k.data) < Len(k.seen.rows) THEN Len(k.seen.rows) ELSE at + Len(k.data)
          /\ \A j \in 1..Len(list'.rows) :
                Alike(list'.rows[j], Behind(k.seen.rows, at, k.data, j))
\* ... and the status of a row is set.
ShapeSet(c, s) ==
    LET k == call[c]
        o == CHOOSE r \in k.req.rows : TRUE
    IN
    /\ Handles(c) /\ knob' = knob
    /\ k.answer = "ok" /\ k.req.op = "switch" /\ s \in 1..3
    /\ \/ view \in {"channels", "tokens"} /\ s = k.req.to
       \/ view \in {"users", "redemptions"} /\ s = k.data[1].status
    /\ Assign(c, o, s)
    /\ list' \in Lists /\ list'.rows = Set(o, s, k.seen.rows) /\ list'.of = k.seen.of
\* ... and the rows deleted are removed.
ShapeRemove(c) ==
    LET k == call[c] IN
    \E P \in SUBSET DOMAIN k.seen.rows :
        /\ Handles(c) /\ End(c) /\ knob' = knob
        /\ k.answer # "ok" => "denied" \in history'
        /\ list' \in Lists /\ list'.rows = At(k.seen.rows, P) /\ list'.of = k.seen.of
        /\ \/ /\ k.req.op = "delete"
              /\ P = {p \in DOMAIN k.seen.rows : k.seen.rows[p].id # (CHOOSE r \in k.req.rows : TRUE).id}
           \/ /\ view = "tokens" /\ k.req.op = "drop"
              /\ P = {p \in DOMAIN k.seen.rows : ~Same(k.seen.rows[p], k.req.rows)}
              /\ (\E r \in k.req.rows : ~Same(r, ToSet(k.seen.rows))) => "stale" \in history'
\* ... and there are none.
ShapeBad(c) ==
    /\ Handles(c) /\ End(c) /\ knob' = knob
    /\ view = "minewd" /\ list' \in Lists /\ list'.rows = <<>>

\* ... and the page of logs is shown, or the load failed; totals may follow.
ShapeLog(c) == Handles(c) /\ view = "logs" /\ LogLoaded(c) /\ list' \in Lists

Handled(c) ==
    \/ ShapeLog(c)
    \/ ShapeEnd(c) \/ ShapeGoOn(c) \/ ShapeReplace(c) \/ ShapeSplice(c)
    \/ (\E s \in 1..3 : ShapeSet(c, s)) \/ ShapeRemove(c) \/ ShapeBad(c)
\* ... an indicator that stays is for another request, or for the next of c.
Spun(c) ==
    \A f \in spin' :
        \/ call'[c] # NoCall /\ f \in Clears(view, call'[c].req)
        \/ f \in spin /\ (f \in Clears(view, call[c].req) => Broken(c) /\ view \notin Sure)
\* The rows of the user's tokens are mounted anew: the page is turned ...
ShapeFlip == Mount(call) /\ history' = history \cup Forgotten \cup Early /\ UNCHANGED <<db, list, bounds, spin>>
\* ... or rows were loaded, or the page has another size.
ShapeMine ==
    /\ view = "mine"
    /\ ShapeFlip \/ MineResize \/ \E c \in Calls : MineLoaded(c)
Shaped ==
    /\ Around
    /\ ShapeLocal \/ ShapeAsk \/ ShapeAskTwo \/ ShapeMine \/ \E c \in Calls : Handled(c) /\ Spun(c)

LEMMA EndTypes ==
    ASSUME TableTypes, NEW c \in Calls, End(c)
    PROVE  CallsAfter
  BY DEF TableTypes, End, CallsAfter

LEMMA OthersTypes ==
    ASSUME TableTypes, NEW c \in Calls, Others(c)
    PROVE  CallsAfter
  <1>1. ASSUME NEW d \in Calls PROVE call'[d] \in Goods(view) \cup {NoCall}
    <2>1. CASE d = c \/ Idle(d)
      BY <2>1 DEF Others
    <2>2. CASE ~(d = c \/ Idle(d))
      <3>1. PICK l \in Lists : call'[d] = [call[d] EXCEPT !.seen = l]
        BY <2>2 DEF Others
      <3>2. call[d] \in Goods(view) /\ call[d] \in Actives
        BY <2>2, Under
      <3>3. [call[d] EXCEPT !.seen = l] \in Actives
        BY <3>2 DEF Actives
      <3>4. LET x == [call[d] EXCEPT !.seen = l]
            IN  x.req = call[d].req /\ x.pc = call[d].pc /\ x.answer = call[d].answer /\ x.data = call[d].data
        BY <3>2 DEF Actives
      <3>. QED BY <3>1, <3>2, <3>3, <3>4 DEF Goods
    <2>. QED BY <2>1, <2>2
  <1>2. call' = [d \in Calls |-> call'[d]]
    BY DEF Others
  <1>. QED BY <1>1, <1>2 DEF CallsAfter

LEMMA AssignOthers ==
    ASSUME TableTypes, NEW c \in Calls, NEW o, NEW s \in 1..3, Assign(c, o, s)
    PROVE  Others(c)
  <1>. DEFINE F(d) == IF d = c \/ Idle(d) THEN NoCall ELSE [call[d] EXCEPT !.seen.rows = Set(o, s, @)]
  <1>1. call' = [d \in Calls |-> F(d)]
    BY DEF Assign
  <1>2. ASSUME NEW d \in Calls, ~(d = c \/ Idle(d))
        PROVE  \E l \in Lists : F(d) = [call[d] EXCEPT !.seen = l]
    <2>1. call[d].seen \in Lists
      BY <1>2, Under
    <2>2. call[d].seen.rows \in Seq(Row)
      BY <2>1 DEF Lists
    <2>3. Set(o, s, call[d].seen.rows) \in Seq(Row)
      BY <2>2, SetTypes
    <2>. DEFINE l == [call[d].seen EXCEPT !.rows = Set(o, s, call[d].seen.rows)]
    <2>4. l \in Lists
      BY <2>1, <2>3 DEF Lists
    <2>5. F(d) = [call[d] EXCEPT !.seen = l]
      BY <1>2
    <2>. QED BY <2>4, <2>5
  <1>. HIDE DEF F
  <1>3. call' = [d \in Calls |-> call'[d]] /\ \A d \in Calls : call'[d] = F(d)
    BY <1>1
  <1>4. \A d \in Calls : d = c \/ Idle(d) => F(d) = NoCall
    BY DEF F
  <1>. QED BY <1>2, <1>3, <1>4 DEF Others

LEMMA AssignTypes ==
    ASSUME TableTypes, NEW c \in Calls, NEW o, NEW s \in 1..3, Assign(c, o, s)
    PROVE  CallsAfter
  BY AssignOthers, OthersTypes

LEMMA GoOnTypes ==
    ASSUME TableTypes, NEW c \in Calls, ~Idle(c), NEW q, Fits(view, q), GoOn(c, q)
    PROVE  CallsAfter
  <1>1. call[c] \in Goods(view)
    BY Under
  <1>2. [call[c] EXCEPT !.pc = "sent", !.req = q, !.second = TRUE] \in Goods(view)
    BY <1>1, OnwardIs
  <1>3. call' = [call EXCEPT ![c] = [call[c] EXCEPT !.pc = "sent", !.req = q, !.second = TRUE]]
    BY DEF GoOn
  <1>. QED BY <1>2, <1>3 DEF TableTypes, CallsAfter

\* The sets of the calls of the next state, from what is known of each.
LEMMA HandledTypes ==
    ASSUME TableTypes, NEW c \in Calls, Handled(c)
    PROVE  list' \in Lists /\ CallsAfter /\ UNCHANGED <<db, bounds>>
  <1>0. ~Idle(c) /\ list \in Lists /\ UNCHANGED <<db, bounds>>
    BY DEF Handled, ShapeEnd, ShapeGoOn, ShapeReplace, ShapeSplice, ShapeSet, ShapeRemove, ShapeBad, ShapeLog, Handles, Idle,
           TableTypes
  <1>1. CASE ShapeEnd(c)
    BY <1>0, <1>1, EndTypes DEF ShapeEnd
  <1>2. CASE ShapeGoOn(c)
    <2>1. PICK q \in Requests : GoOn(c, q) /\ UNCHANGED list /\ Fits(view, q)
      BY <1>2 DEF ShapeGoOn
    <2>. QED BY <1>0, <2>1, GoOnTypes
  <1>3. CASE ShapeReplace(c)
    BY <1>0, <1>3, EndTypes DEF ShapeReplace
  <1>4. CASE ShapeSplice(c)
    BY <1>0, <1>4, OthersTypes DEF ShapeSplice
  <1>5. ASSUME NEW s \in 1..3, ShapeSet(c, s)
        PROVE  list' \in Lists /\ CallsAfter
    BY <1>0, <1>5, AssignTypes DEF ShapeSet
  <1>6. CASE ShapeRemove(c)
    BY <1>0, <1>6, EndTypes DEF ShapeRemove
  <1>7. CASE ShapeBad(c)
    BY <1>0, <1>7, EndTypes DEF ShapeBad
  <1>8. CASE ShapeLog(c)
    <2>1. End(c) \/ GoOn(c, Totals(call[c].req.query))
      BY <1>8 DEF ShapeLog, LogLoaded
    <2>2. Fits(view, Totals(call[c].req.query))
      <3>1. call[c].req \in Requests
        BY <1>0, Under
      <3>2. call[c].req.query \in Words /\ 0 \in Nat
        BY <3>1 DEF Requests
      <3>3. "totals" \in Ops(view) /\ view # "minewd"
        BY <1>8 DEF Ops, ShapeLog
      <3>. QED BY <3>2, <3>3, Searchable
    <2>3. CallsAfter
      BY <1>0, <2>1, <2>2, EndTypes, GoOnTypes
    <2>. QED BY <1>0, <1>8, <2>3 DEF ShapeLog
  <1>. QED BY <1>0, <1>1, <1>2, <1>3, <1>4, <1>5, <1>6, <1>7, <1>8 DEF Handled

LEMMA TypesFrom ==
    ASSUME TableTypes, Around, db' \in [Ids -> 0..3], list' \in Lists, CallsAfter,
           bounds' \in [asked : Nat, upsets : Nat]
    PROVE  TableTypes'
  BY DEF TableTypes, Around, CallsAfter

LEMMA AskTypes ==
    ASSUME TableTypes, ShapeAsk \/ ShapeAskTwo
    PROVE  UNCHANGED <<db, list>> /\ CallsAfter /\ bounds' \in [asked : Nat, upsets : Nat]
  <1>0. bounds \in [asked : Nat, upsets : Nat] /\ list \in Lists /\ pager \in Pagers /\ search \in Forms
    BY DEF TableTypes
  <1>1. CASE ShapeAsk
    <2>1. PICK c \in Calls, q \in Requests, p \in Pagers, f \in Forms :
             AskBy(c, q, p, f) /\ Fits(view, q) /\ UNCHANGED <<db, list>>
      BY <1>1 DEF ShapeAsk
    <2>2. bounds' = [bounds EXCEPT !.asked = @ + 1] /\ call' = [call EXCEPT ![c] = Sent(q, bounds.asked + 1, p, f)]
      BY <2>1 DEF AskBy
    <2>3. Sent(q, bounds.asked + 1, p, f) \in Goods(view)
      <3>1. bounds.asked + 1 \in Nat
        BY <1>0
      <3>. QED BY <1>0, <2>1, <3>1, SentIs
    <2>4. CallsAfter
      BY <2>2, <2>3 DEF TableTypes, CallsAfter
    <2>. QED BY <1>0, <2>1, <2>2, <2>4
  <1>2. CASE ShapeAskTwo
    <2>1. PICK c, d \in Calls, q, o \in Requests, p \in Pagers :
             AskTwo(c, d, q, o, p) /\ Fits(view, q) /\ Fits(view, o) /\ UNCHANGED <<db, list>>
      BY <1>2 DEF ShapeAskTwo
    <2>2. /\ bounds' = [bounds EXCEPT !.asked = @ + 2]
          /\ call' = [call EXCEPT ![c] = Sent(q, bounds.asked + 1, pager, search),
                                  ![d] = Sent(o, bounds.asked + 2, p, search)]
      BY <2>1 DEF AskTwo
    <2>3. Sent(q, bounds.asked + 1, pager, search) \in Goods(view) /\ Sent(o, bounds.asked + 2, p, search) \in Goods(view)
      <3>1. bounds.asked + 1 \in Nat /\ bounds.asked + 2 \in Nat
        BY <1>0
      <3>. QED BY <1>0, <2>1, <3>1, SentIs
    <2>4. CallsAfter
      BY <2>2, <2>3 DEF TableTypes, CallsAfter
    <2>. QED BY <1>0, <2>1, <2>2, <2>4
  <1>. QED BY <1>1, <1>2

\* The calls after the rows were mounted anew, f being those before.
Remounted(f) ==
    /\ call' = [d \in Calls |-> call'[d]]
    /\ \A d \in Calls : \/ call'[d] = f[d]
                        \/ f[d] # NoCall /\ f[d].req.op = "switch" /\ call'[d] = [f[d] EXCEPT !.mounted = FALSE]

LEMMA RemountTypes ==
    ASSUME TableTypes, NEW f, f \in [Calls -> Goods(view) \cup {NoCall}], Mount(f)
    PROVE  Remounted(f) /\ CallsAfter
  <1>1. Remounted(f)
    BY DEF Mount, Remounted
  <1>2. ASSUME NEW k \in Goods(view)
        PROVE  [k EXCEPT !.mounted = FALSE] \in Goods(view)
    <2>1. k \in Actives
      BY DEF Goods
    <2>2. LET o == [k EXCEPT !.mounted = FALSE] IN
          /\ o \in Actives /\ o.pc = k.pc /\ o.req = k.req /\ o.data = k.data /\ o.answer = k.answer
      BY <2>1 DEF Actives
    <2>. QED BY <2>2 DEF Goods
  <1>3. \A d \in Calls : call'[d] \in Goods(view) \cup {NoCall}
    BY <1>1, <1>2 DEF Remounted
  <1>. QED BY <1>1, <1>3 DEF Remounted, CallsAfter

LEMMA FirstIs == 1 \in Nat \ {0} /\ 0 \in Nat
  OBVIOUS

LEMMA PagerIs ==
    ASSUME NEW p \in Pagers, NEW n \in Sizes, NEW m \in Nat \ {0}, NEW t \in Nat
    PROVE  /\ [p EXCEPT !.size = n, !.page = m] \in Pagers
           /\ [p EXCEPT !.page = m] \in Pagers
           /\ [p EXCEPT !.count = t] \in Pagers /\ [p EXCEPT !.page = m, !.count = t] \in Pagers
  <1>. DEFINE o == [p EXCEPT !.size = n]
  <1>1. o \in Pagers
    BY DEF Pagers
  <1>2. [p EXCEPT !.size = n, !.page = m] = [o EXCEPT !.page = m]
    OBVIOUS
  <1>. HIDE DEF o
  <1>3. [o EXCEPT !.page = m] \in Pagers
    BY <1>1 DEF Pagers
  <1>4. [p EXCEPT !.page = m] \in Pagers
    BY DEF Pagers
  <1>5. [p EXCEPT !.count = t] \in Pagers /\ [p EXCEPT !.page = m, !.count = t] \in Pagers
    BY DEF Pagers
  <1>. QED BY <1>2, <1>3, <1>4, <1>5

\* The calls that the steps of the user's tokens start from.
LEMMA MineResizes ==
    ASSUME TableTypes, view = "mine", MineResize
    PROVE  \E n \in Sizes, c, d \in Calls :
              LET f == [call EXCEPT ![c] = Sent(Load(0, n), bounds.asked + 1, pager, search),
                                    ![d] = Sent(Load(0, n), bounds.asked + 2, pager', search)]
              IN  /\ f \in [Calls -> Goods(view) \cup {NoCall}] /\ Mount(f) /\ Free(c) /\ c < d /\ Idle(d)
                  /\ bounds' = [bounds EXCEPT !.asked = @ + 2] /\ UNCHANGED <<db, list>>
                  /\ history' = history \cup Forgotten \cup Clash(Load(0, n))
                  /\ pager' = [pager EXCEPT !.size = n, !.page = 1]
                  /\ spin' = spin \cup {"loading"}
                  /\ Fits(view, Load(0, n))
  <1>0. PICK n \in Sizes \ {pager.size} : \E c, d \in Calls :
          /\ pager' = [pager EXCEPT !.size = n, !.page = 1]
          /\ list' = list
          /\ Free(c) /\ c < d /\ Idle(d)
          /\ bounds' = [bounds EXCEPT !.asked = @ + 2]
          /\ Mount([call EXCEPT ![c] = Sent(Load(0, n), bounds.asked + 1, pager, search),
                                ![d] = Sent(Load(0, n), bounds.asked + 2, pager', search)])
          /\ history' = history \cup Forgotten \cup Clash(Load(0, n))
          /\ spin' = spin \cup {"loading"}
          /\ UNCHANGED <<view, db, search, picked>>
    BY DEF MineResize
  <1>1. PICK c, d \in Calls :
          /\ pager' = [pager EXCEPT !.size = n, !.page = 1]
          /\ list' = list
          /\ Free(c) /\ c < d /\ Idle(d)
          /\ bounds' = [bounds EXCEPT !.asked = @ + 2]
          /\ Mount([call EXCEPT ![c] = Sent(Load(0, n), bounds.asked + 1, pager, search),
                                ![d] = Sent(Load(0, n), bounds.asked + 2, pager', search)])
          /\ history' = history \cup Forgotten \cup Clash(Load(0, n))
          /\ spin' = spin \cup {"loading"}
          /\ UNCHANGED <<view, db, search, picked>>
    BY <1>0
  <1>2. pager \in Pagers /\ search \in Forms /\ list \in Lists /\ bounds \in [asked : Nat, upsets : Nat]
    BY DEF TableTypes
  <1>3. pager' \in Pagers
    BY <1>1, <1>2, FirstIs, PagerIs
  <1>4. Fits(view, Load(0, n))
    <2>1. "load" \in Ops(view) /\ view \notin Even /\ "" \in Words
      BY DEF Ops, Even, Words
    <2>2. 0 \in Nat
      OBVIOUS
    <2>. QED BY <2>1, <2>2, Loadable
  <1>5. bounds.asked + 1 \in Nat /\ bounds.asked + 2 \in Nat
    BY <1>2
  <1>6. /\ Sent(Load(0, n), bounds.asked + 1, pager, search) \in Goods(view)
        /\ Sent(Load(0, n), bounds.asked + 2, pager', search) \in Goods(view)
    BY <1>2, <1>3, <1>4, <1>5, SentIs
  <1>. DEFINE f == [call EXCEPT ![c] = Sent(Load(0, n), bounds.asked + 1, pager, search),
                                ![d] = Sent(Load(0, n), bounds.asked + 2, pager', search)]
  <1>7. f \in [Calls -> Goods(view) \cup {NoCall}]
    BY <1>6 DEF TableTypes
  <1>8. n \in Sizes
    OBVIOUS
  <1>. QED BY <1>1, <1>4, <1>7, <1>8

LEMMA MineLoads ==
    ASSUME TableTypes, view = "mine", NEW c \in Calls, MineLoaded(c)
    PROVE  LET f == [call EXCEPT ![c] = NoCall] IN
           /\ f \in [Calls -> Goods(view) \cup {NoCall}] /\ Mount(f)
           /\ call[c].pc = "answered" /\ call[c].req.op \in {"load", "search"} /\ UNCHANGED <<db, bounds>>
           /\ spin' = spin \ {"loading"}
  BY DEF MineLoaded, Answered, Still, TableTypes

\* What a good answer holds.
LEMMA PlacedIs ==
    ASSUME TableTypes, NEW c \in Calls, ~Idle(c), NEW n \in Nat
    PROVE  /\ Placed(c, n) \in Seq(Row) /\ Of(c) \in Words /\ PageAfter(c) \in Nat \ {0}
           /\ Objects(call[c].data) \in Seq(Row) /\ Len(Objects(call[c].data)) = Len(call[c].data)
           /\ call[c].data \in Seq(Item) /\ Len(call[c].data) \in Nat
           /\ \A j \in 1..Len(call[c].data) : Alike(Objects(call[c].data)[j], call[c].data[j])
           /\ Len(Placed(c, n)) \in Nat
  <1>. DEFINE k == call[c]
  <1>1. k \in Actives /\ k.req \in Requests /\ k.seen \in Lists /\ k.data \in Seq(Item) /\ Fresh \in Nat
    <2>1. k \in Actives /\ k.req \in Requests /\ k.seen \in Lists
      BY Under
    <2>. QED BY <2>1, FreshIs DEF Actives
  <1>2. /\ Objects(k.data) \in Seq(Row) /\ Len(Objects(k.data)) = Len(k.data)
        /\ \A j \in 1..Len(k.data) : Alike(Objects(k.data)[j], k.data[j])
    BY <1>1, ObjectsAre
  <1>3. k.req.page * n \in Nat /\ k.seen.rows \in Seq(Row)
    BY <1>1 DEF Requests, Lists
  <1>4. Placed(c, n) \in Seq(Row)
    BY <1>2, <1>3, SpliceIs DEF Placed
  <1>5. Of(c) \in Words
    BY <1>1 DEF Of, Requests, Lists
  <1>6. PageAfter(c) \in Nat \ {0}
    BY <1>1 DEF PageAfter, Requests, TableTypes, Pagers
  <1>7. Len(k.data) \in Nat /\ Len(Placed(c, n)) \in Nat
    BY <1>1, <1>4, LenProperties
  <1>. QED BY <1>1, <1>2, <1>4, <1>5, <1>6, <1>7

LEMMA ShapedTypes ==
    ASSUME TableTypes, Shaped
    PROVE  TableTypes'
  <1>1. Around
    BY DEF Shaped
  <1>2. db \in [Ids -> 0..3] /\ list \in Lists /\ bounds \in [asked : Nat, upsets : Nat]
    BY DEF TableTypes
  <1>3. CASE ShapeLocal
    <2>1. UNCHANGED <<db, list, call, bounds>>
      BY <1>3 DEF ShapeLocal
    <2>2. CallsAfter
      BY <2>1 DEF TableTypes, CallsAfter
    <2>. QED BY <1>1, <1>2, <2>1, <2>2, TypesFrom
  <1>4. CASE ShapeAsk \/ ShapeAskTwo
    BY <1>1, <1>2, <1>4, AskTypes, TypesFrom
  <1>5. ASSUME NEW c \in Calls, Handled(c)
        PROVE  TableTypes'
    BY <1>1, <1>2, <1>5, HandledTypes, TypesFrom
  <1>6. ASSUME ShapeMine
        PROVE  TableTypes'
    <2>1. list' \in Lists /\ view = "mine"
      <3>1. ASSUME NEW c \in Calls, MineLoaded(c)
            PROVE  list' \in Lists
        <4>1. IF Good(c) THEN list' = [arr |-> Fresh, rows |-> Placed(c, call[c].req.size), of |-> Of(c)] ELSE list' = list
          BY <3>1 DEF MineLoaded
        <4>2. ~Idle(c)
          BY <3>1 DEF MineLoaded, Answered, Idle
        <4>3. Placed(c, call[c].req.size) \in Seq(Row) /\ Of(c) \in Words /\ Fresh \in Nat
          <5>1. call[c].req.size \in Nat
            BY <4>2, Under DEF Requests
          <5>. QED BY <4>2, <5>1, PlacedIs, FreshIs
        <4>. QED BY <1>2, <4>1, <4>3 DEF Lists
      <3>. QED BY <1>2, <1>6, <3>1 DEF ShapeMine, ShapeFlip, MineResize
    <2>2. CASE ShapeFlip
      <3>1. Mount(call) /\ UNCHANGED <<db, bounds>> /\ call \in [Calls -> Goods(view) \cup {NoCall}]
        BY <2>2 DEF ShapeFlip, TableTypes
      <3>2. CallsAfter
        BY <3>1, RemountTypes
      <3>. QED BY <1>1, <1>2, <2>1, <3>1, <3>2, TypesFrom
    <2>3. CASE MineResize
      <3>1. PICK f \in [Calls -> Goods(view) \cup {NoCall}] : Mount(f)
        BY <2>1, <2>3, MineResizes
      <3>2. db' = db /\ bounds' = [bounds EXCEPT !.asked = @ + 2]
        BY <2>3 DEF MineResize
      <3>3. CallsAfter
        BY <3>1, RemountTypes
      <3>4. bounds' \in [asked : Nat, upsets : Nat]
        BY <1>2, <3>2
      <3>. QED BY <1>1, <1>2, <2>1, <3>2, <3>3, <3>4, TypesFrom
    <2>4. ASSUME NEW c \in Calls, MineLoaded(c)
          PROVE  TableTypes'
      <3>1. PICK f \in [Calls -> Goods(view) \cup {NoCall}] : Mount(f)
        BY <2>1, <2>4, MineLoads
      <3>2. UNCHANGED <<db, bounds>>
        BY <2>4 DEF MineLoaded, Still
      <3>3. CallsAfter
        BY <3>1, RemountTypes
      <3>. QED BY <1>1, <1>2, <2>1, <3>2, <3>3, TypesFrom
    <2>. QED BY <1>6, <2>2, <2>3, <2>4 DEF ShapeMine
  <1>. QED BY <1>3, <1>4, <1>5, <1>6 DEF Shaped

-----------------------------------------------------------------------------
(* The server                                                              *)

LEMMA FindsAre ==
    ASSUME TableTypes, NEW q
    PROVE  /\ Finds(q) \in SUBSET Ids /\ Finds(q) \in SUBSET Nat /\ IsFiniteSet(Finds(q))
           /\ Cardinality(Finds(q)) \in Nat /\ \A i \in Finds(q) : db[i] \in 1..3
  <1>1. Finds(q) \in SUBSET Ids /\ \A i \in Finds(q) : db[i] # 0
    BY DEF Finds
  <1>2. \A i \in Ids : db[i] \in 0..3
    BY DEF TableTypes
  <1>. QED BY <1>1, <1>2, FoundFinite

\* The lines of a page, by their place among all.
LEMMA LinesAre ==
    ASSUME TableTypes, NEW q, NEW from \in Nat, NEW num \in Nat
    PROVE  LET n == Cardinality(Finds(q))
               all == InOrder(Finds(q))
               s == Lines(q, from, num)
           IN  /\ n \in Nat /\ all \in Seq(Finds(q)) /\ Len(all) = n
               /\ s \in Seq(Finds(q))
               /\ Len(s) = IF from + num < n THEN num ELSE IF from < n THEN n - from ELSE 0
               /\ \A k \in 1..Len(s) : s[k] = all[from + k] /\ from + k \in 1..n
  <1>. DEFINE S == Finds(q)
              n == Cardinality(S)
              all == InOrder(S)
              m == IF from + num < n THEN from + num ELSE n
              s == SubSeq(all, from + 1, m)
  <1>1. n \in Nat /\ all \in Seq(S) /\ Len(all) = n
    BY FindsAre, InOrderSeq
  <1>2. Lines(q, from, num) = s
    BY <1>1 DEF Lines
  <1>. HIDE DEF S, n, all
  <1>3. m \in Nat /\ m <= n /\ from + 1 \in Nat
    BY <1>1
  <1>. HIDE DEF m
  <1>4. \A i \in (from + 1)..m : all[i] \in S
    <2>1. all \in [1..n -> S]
      BY <1>1, LenProperties
    <2>2. \A i \in (from + 1)..m : i \in 1..n
      BY <1>1, <1>3
    <2>. QED BY <2>1, <2>2
  <1>. DEFINE f == from + 1
  <1>5. f \in Int /\ f \in Nat /\ f = from + 1
    BY <1>3
  <1>. HIDE DEF f
  <1>6. /\ SubSeq(all, f, m) \in Seq(S)
        /\ Len(SubSeq(all, f, m)) = IF f <= m THEN m - f + 1 ELSE 0
        /\ \A i \in 1..(m - f + 1) : SubSeq(all, f, m)[i] = all[f + i - 1]
    BY <1>3, <1>4, <1>5, SubSeqProperties DEF f
  <1>. DEFINE z == SubSeq(all, f, m)
  <1>7. s = z
    BY DEF f
  <1>. HIDE DEF s, z
  <1>8. z \in Seq(S) /\ Len(z) = (IF f <= m THEN m - f + 1 ELSE 0)
    BY <1>6 DEF z
  <1>9. Len(z) = IF from + num < n THEN num ELSE IF from < n THEN n - from ELSE 0
    <2>1. CASE from + num < n
      BY <1>1, <1>5, <1>8, <2>1 DEF m
    <2>2. CASE ~(from + num < n) /\ from < n
      BY <1>1, <1>5, <1>8, <2>2 DEF m
    <2>3. CASE ~(from + num < n) /\ ~(from < n)
      BY <1>1, <1>5, <1>8, <2>3 DEF m
    <2>. QED BY <2>1, <2>2, <2>3
  <1>10. ASSUME NEW k \in 1..Len(z) PROVE z[k] = all[from + k] /\ from + k \in 1..n
    <2>1. f <= m /\ k \in 1..(m - f + 1)
      <3>1. CASE f <= m
        BY <1>3, <1>5, <1>8, <3>1
      <3>2. CASE ~(f <= m)
        <4>1. Len(z) = 0
          BY <1>8, <3>2
        <4>. QED BY <4>1
      <3>. QED BY <3>1, <3>2
    <2>2. f + k - 1 = from + k /\ from + k \in 1..n
      BY <1>1, <1>3, <1>5, <2>1
    <2>. QED BY <1>6, <2>1, <2>2 DEF z
  <1>. QED BY <1>1, <1>2, <1>7, <1>8, <1>9, <1>10 DEF S, n, all

\* The answer that call k gets.
Told(k, ids, ok) ==
    [k EXCEPT !.pc = "answered", !.answer = IF ok THEN "ok" ELSE "refused",
              !.total = Cardinality(Finds(k.req.query)),
              !.data = [j \in DOMAIN ids |-> [id |-> ids[j], status |-> db'[ids[j]]]]]

LEMMA ToldIs ==
    ASSUME TableTypes, NEW k \in Goods(view), NEW ids \in Seq(Ids), \A j \in 1..Len(ids) : db'[ids[j]] \in 1..3,
           NEW ok \in BOOLEAN, k.req.op = "switch" /\ ok => ids # <<>>
    PROVE  LET o == Told(k, ids, ok) IN
           /\ o \in Goods(view) /\ o.pc = "answered" /\ o.answer = (IF ok THEN "ok" ELSE "refused")
           /\ o.req = k.req /\ o.no = k.no /\ o.seen = k.seen /\ o.second = k.second /\ o.pager = k.pager
           /\ o.search = k.search /\ o.mounted = k.mounted
           /\ o.data \in Seq(Item) /\ Len(o.data) = Len(ids)
           /\ \A j \in 1..Len(ids) : o.data[j].id = ids[j] /\ o.data[j].status = db'[ids[j]]
  <1>1. k \in Actives /\ Fits(view, k.req)
    BY DEF Goods
  <1>2. Len(ids) \in Nat /\ ids \in [1..Len(ids) -> Ids] /\ DOMAIN ids = 1..Len(ids)
    BY LenProperties
  <1>. DEFINE a == IF ok THEN "ok" ELSE "refused"
              t == Cardinality(Finds(k.req.query))
              x == [j \in DOMAIN ids |-> [id |-> ids[j], status |-> db'[ids[j]]]]
  <1>3. a \in {"ok", "refused", "broken"} /\ t \in Nat
    BY FindsAre
  <1>4. \A j \in 1..Len(ids) : LET r == [id |-> ids[j], status |-> db'[ids[j]]]
                               IN  r \in Item /\ r.id = ids[j] /\ r.status = db'[ids[j]]
    BY <1>2 DEF Item
  <1>5. x \in [1..Len(ids) -> Item]
    BY <1>2, <1>4
  <1>6. x \in Seq(Item) /\ Len(x) = Len(ids)
    BY <1>2, <1>5, SeqIs
  <1>7. \A j \in 1..Len(ids) : x[j].id = ids[j] /\ x[j].status = db'[ids[j]]
    BY <1>2, <1>4
  <1>8. k.req.op = "switch" /\ a = "ok" => x # <<>>
    <2>1. a = "ok" => ok
      OBVIOUS
    <2>2. ids # <<>> => Len(ids) # 0
      BY EmptySeq
    <2>3. x = <<>> => Len(x) = 0
      BY EmptySeq
    <2>. QED BY <1>6, <2>1, <2>2, <2>3
  <1>. DEFINE o == [k EXCEPT !.pc = "answered", !.answer = a, !.total = t, !.data = x]
  <1>9. Told(k, ids, ok) = o
    BY DEF Told
  <1>10. a = IF ok THEN "ok" ELSE "refused"
    OBVIOUS
  <1>. HIDE DEF a, t, x
  <1>11. /\ o \in Actives /\ o.pc = "answered" /\ o.answer = a /\ o.data = x
         /\ o.req = k.req /\ o.no = k.no /\ o.seen = k.seen /\ o.second = k.second /\ o.pager = k.pager
         /\ o.search = k.search /\ o.mounted = k.mounted
    BY <1>1, <1>3, <1>6 DEF Actives
  <1>. HIDE DEF o
  <1>12. o \in Goods(view)
    BY <1>1, <1>8, <1>11 DEF Goods
  <1>. QED BY <1>6, <1>7, <1>9, <1>10, <1>11, <1>12

LEMMA AnswerIs ==
    ASSUME NEW c \in Calls, NEW ids, NEW ok, Answer(c, ids, ok), TableTypes
    PROVE  call' = [call EXCEPT ![c] = Told(call[c], ids, ok)]
  BY DEF Answer, Told

\* What the server does for request c: it answers the ids a, or refuses.
Served(c, a, ok) ==
    LET k == call[c]
        req == k.req
        ids == NamesOf(req.rows)
        there == {i \in ids : Accepted(i, req.to)}
    IN
    /\ \A j \in 1..Len(a) : db'[a[j]] \in 1..3
    /\ req.op = "switch" /\ ok => a # <<>>
    /\ call' = [call EXCEPT ![c] = Told(k, a, ok)]
    /\ \/ /\ req.op = "load" /\ db' = db /\ ok /\ a = Lines(req.query, req.page * req.size, req.size)
       \/ /\ req.op = "totals" /\ db' = db /\ ok
       \/ /\ req.op = "search" /\ db' = db /\ ok /\ a = InOrder(Finds(req.query))
       \/ /\ req.op = "switch" /\ ok = (there # {}) /\ a = InOrder(there)
          /\ db' = [i \in Ids |-> IF i \in there /\ req.to # 0 THEN req.to ELSE db[i]]
       \/ /\ req.op \in {"delete", "drop"} /\ (ok \/ there = {})
          /\ db' = [i \in Ids |-> IF i \in ids THEN 0 ELSE db[i]]
          /\ req.op = "drop" /\ k.pager.page > 1 => "shifted" \in history'
       \/ /\ req.op = "copy" /\ ok
          /\ \E i \in Ids : /\ \A j \in Ids : db[j] # 0 => j < i
                            /\ \E r \in req.rows : db' = [db EXCEPT ![i] = r.status]
          /\ k.pager.page > 1 => "shifted" \in history'
       \/ /\ req.op = "purge" /\ ok
          /\ db' = [i \in Ids |-> IF db[i] = 1 THEN 1 ELSE 0]
          /\ view = "channels" => "shifted" \in history'

\* What a served request does at the server, and what it answers.
LEMMA ServeIs ==
    ASSUME TableTypes, NEW c \in Calls, Serve(c)
    PROVE  LET k == call[c]
               req == k.req
               ids == NamesOf(req.rows)
               there == {i \in ids : Accepted(i, req.to)} IN
           /\ k.pc = "sent" /\ k \in Goods(view) /\ UNCHANGED <<view, list, pager, search, spin, picked, knob, bounds>>
           /\ ids \subseteq Ids /\ db' \in [Ids -> 0..3] /\ history \subseteq history'
           /\ \E a \in Seq(Ids), ok \in BOOLEAN : Served(c, a, ok)
  <1>. DEFINE k == call[c]
              req == k.req
              ids == NamesOf(req.rows)
              there == {i \in ids : Accepted(i, req.to)}
              free == {i \in Ids : \A j \in Ids : db[j] # 0 => j < i}
  <1>1. k.pc = "sent" /\ k \in Goods(view) /\ Fits(view, req) /\ req \in Requests
    <2>1. k.pc = "sent" /\ ~Idle(c)
      BY DEF Serve, Idle
    <2>. QED BY <2>1, Under
  <1>2. ids \subseteq Ids /\ req.rows \subseteq Row
    BY <1>1 DEF NamesOf, Requests, Row
  <1>3. UNCHANGED <<view, list, pager, search, spin, picked, knob, bounds>>
    BY DEF Serve, Page
  <1>4. <<>> \in Seq(Ids) /\ \A j \in 1..Len(<<>>) : db'[(<<>>)[j]] \in 1..3
    <2>1. Len(<<>>) = 0
      BY EmptySeq
    <2>. QED BY <2>1
  <1>. DEFINE Goal == /\ db' \in [Ids -> 0..3] /\ history \subseteq history'
                      /\ \E a \in Seq(Ids), ok \in BOOLEAN : Served(c, a, ok)
  <1>. SUFFICES Goal
    BY <1>1, <1>2, <1>3
  <1>5. db \in [Ids -> 0..3]
    BY DEF TableTypes
  <1>6. ASSUME NEW S \in SUBSET Ids, \A i \in S : db'[i] \in 1..3
        PROVE  InOrder(S) \in Seq(Ids) /\ (S # {} => InOrder(S) # <<>>) /\ \A j \in 1..Len(InOrder(S)) : db'[InOrder(S)[j]] \in 1..3
    <2>1. S \in SUBSET Nat /\ IsFiniteSet(S)
      BY FoundFinite
    <2>2. InOrder(S) \in Seq(S) /\ (S # {} => InOrder(S) # <<>>)
      BY <2>1, InOrderSeq
    <2>3. InOrder(S) \in Seq(Ids) /\ \A j \in 1..Len(InOrder(S)) : InOrder(S)[j] \in S
      BY <2>2, LenProperties, SeqDef
    <2>. QED BY <1>6, <2>2, <2>3
  <1>7. CASE req.op = "load" /\ UNCHANGED <<db, history>> /\ Answer(c, Lines(req.query, req.page * req.size, req.size), TRUE)
    <2>. DEFINE a == Lines(req.query, req.page * req.size, req.size)
    <2>1. req.page * req.size \in Nat /\ req.size \in Nat
      BY <1>1, <1>7, SizesAssumption DEF Requests
    <2>2. a \in Seq(Finds(req.query))
      BY <2>1, LinesAre
    <2>3. a \in Seq(Ids) /\ \A j \in 1..Len(a) : db[a[j]] \in 1..3
      <3>. HIDE DEF a
      <3>1. a \in [1..Len(a) -> Finds(req.query)] /\ Len(a) \in Nat
        BY <2>2, LenProperties
      <3>. QED BY <3>1, FindsAre, SeqIs
    <2>4. call' = [call EXCEPT ![c] = Told(k, a, TRUE)]
      BY <1>7, AnswerIs
    <2>5. Served(c, a, TRUE)
      BY <1>7, <2>3, <2>4 DEF Served
    <2>. HIDE DEF a
    <2>10. history \subseteq history'
      BY <1>7
    <2>. QED BY <1>5, <1>7, <2>3, <2>5, <2>10
  <1>8. CASE req.op = "totals" /\ UNCHANGED <<db, history>> /\ Answer(c, <<>>, TRUE)
    <2>1. call' = [call EXCEPT ![c] = Told(k, <<>>, TRUE)]
      BY <1>8, AnswerIs
    <2>2. Served(c, <<>>, TRUE)
      BY <1>4, <1>8, <2>1 DEF Served
    <2>10. history \subseteq history'
      BY <1>8
    <2>. QED BY <1>4, <1>5, <1>8, <2>2, <2>10
  <1>9. CASE req.op = "search" /\ UNCHANGED <<db, history>> /\ Answer(c, InOrder(Finds(req.query)), TRUE)
    <2>. DEFINE a == InOrder(Finds(req.query))
    <2>1. Finds(req.query) \in SUBSET Ids /\ \A i \in Finds(req.query) : db'[i] \in 1..3
      BY <1>9, FindsAre
    <2>2. a \in Seq(Ids) /\ \A j \in 1..Len(a) : db'[a[j]] \in 1..3
      BY <1>6, <2>1
    <2>3. call' = [call EXCEPT ![c] = Told(k, a, TRUE)]
      BY <1>9, AnswerIs
    <2>4. Served(c, a, TRUE)
      BY <1>9, <2>2, <2>3 DEF Served
    <2>. HIDE DEF a
    <2>10. history \subseteq history'
      BY <1>9
    <2>. QED BY <1>5, <1>9, <2>2, <2>4, <2>10
  <1>10. CASE /\ req.op = "switch"
              /\ db' = [i \in Ids |-> IF i \in there /\ req.to # 0 THEN req.to ELSE db[i]]
              /\ Answer(c, InOrder(there), there # {})
              /\ UNCHANGED history
    <2>1. req.to \in 0..3
      <3>1. Fits(view, req) /\ req.op = "switch"
        BY <1>1, <1>10
      <3>. QED BY <3>1, FitsSwitch
    <2>2. db' \in [Ids -> 0..3]
      BY <1>5, <1>10, <2>1
    <2>3. there \in SUBSET Ids /\ \A i \in there : db'[i] \in 1..3
      <3>1. \A i \in there : i \in Ids /\ db[i] # 0
        BY <1>2 DEF Accepted
      <3>2. \A i \in there : db'[i] = IF req.to # 0 THEN req.to ELSE db[i]
        BY <1>10, <3>1
      <3>3. \A i \in there : db[i] \in 1..3
        BY <1>5, <3>1
      <3>. QED BY <2>1, <3>1, <3>2, <3>3
    <2>. DEFINE a == InOrder(there)
    <2>4. a \in Seq(Ids) /\ (there # {} => a # <<>>) /\ \A j \in 1..Len(a) : db'[a[j]] \in 1..3
      <3>. HIDE DEF there
      <3>. QED BY <1>6, <2>3
    <2>5. call' = [call EXCEPT ![c] = Told(k, a, there # {})]
      BY <1>10, AnswerIs
    <2>6. Served(c, a, there # {})
      BY <1>10, <2>4, <2>5 DEF Served
    <2>7. (there # {}) \in BOOLEAN
      OBVIOUS
    <2>. HIDE DEF there
    <2>. QED BY <1>10, <2>2, <2>4, <2>6, <2>7
  <1>11. CASE /\ req.op \in {"delete", "drop"}
              /\ db' = [i \in Ids |-> IF i \in ids THEN 0 ELSE db[i]]
              /\ \E ok \in {TRUE, there # {}} : Answer(c, <<>>, ok)
              /\ history' = history \cup {h \in {"shifted"} : req.op = "drop" /\ call[c].pager.page > 1}
    <2>1. PICK ok \in {TRUE, there # {}} : Answer(c, <<>>, ok)
      BY <1>11
    <2>2. ok \in BOOLEAN /\ (ok \/ there = {})
      BY <2>1
    <2>3. call' = [call EXCEPT ![c] = Told(k, <<>>, ok)]
      BY <2>1, AnswerIs
    <2>4. db' \in [Ids -> 0..3]
      BY <1>5, <1>11
    <2>5. Served(c, <<>>, ok)
      BY <1>4, <1>11, <2>2, <2>3 DEF Served
    <2>10. history \subseteq history'
      BY <1>11
    <2>. QED BY <1>4, <1>11, <2>2, <2>4, <2>5, <2>10
  <1>12. CASE /\ req.op = "copy"
              /\ free # {}
              /\ LET i == CHOOSE i \in free : \A j \in free : i <= j
                 IN  \E r \in req.rows : db' = [db EXCEPT ![i] = r.status]
              /\ Answer(c, <<>>, TRUE)
              /\ history' = history \cup {h \in {"shifted"} : call[c].pager.page > 1}
    <2>1. free \in SUBSET Ids /\ free \in SUBSET Nat /\ IsFiniteSet(free)
      BY FoundFinite
    <2>2. \E i \in free : \A j \in free : i <= j
      BY <1>12, <2>1, InOrderSeq
    <2>. DEFINE i == CHOOSE i \in free : \A j \in free : i <= j
    <2>3. i \in free
      <3>. HIDE DEF free
      <3>. QED BY <2>2
    <2>4. i \in Ids /\ \A j \in Ids : db[j] # 0 => j < i
      BY <2>3
    <2>5. PICK r \in req.rows : db' = [db EXCEPT ![i] = r.status]
      BY <1>12
    <2>6. db' \in [Ids -> 0..3]
      <3>1. r.status \in 0..3
        BY <1>2 DEF Row
      <3>. QED BY <1>5, <2>4, <2>5, <3>1
    <2>7. call' = [call EXCEPT ![c] = Told(k, <<>>, TRUE)]
      BY <1>12, AnswerIs
    <2>. HIDE DEF i
    <2>8. Served(c, <<>>, TRUE)
      BY <1>4, <1>12, <2>4, <2>5, <2>7 DEF Served
    <2>10. history \subseteq history'
      BY <1>12
    <2>. QED BY <1>4, <1>12, <2>6, <2>8, <2>10
  <1>13. CASE /\ req.op = "purge"
              /\ db' = [i \in Ids |-> IF db[i] = 1 THEN 1 ELSE 0]
              /\ Answer(c, <<>>, TRUE)
              /\ history' = history \cup {h \in {"shifted"} : view = "channels"}
    <2>1. call' = [call EXCEPT ![c] = Told(k, <<>>, TRUE)]
      BY <1>13, AnswerIs
    <2>2. Served(c, <<>>, TRUE)
      BY <1>4, <1>13, <2>1 DEF Served
    <2>10. history \subseteq history' /\ db' \in [Ids -> 0..3]
      BY <1>13
    <2>. QED BY <1>4, <2>2, <2>10
  <1>. HIDE DEF Goal
  <1>. QED BY <1>7, <1>8, <1>9, <1>10, <1>11, <1>12, <1>13 DEF Serve

\* A call whose answer is lost, or that is refused.
LEMMA UpsetIs ==
    ASSUME TableTypes, NEW c \in Calls, Refuse(c) \/ Lose(c)
    PROVE  LET k == call[c] IN
           /\ UNCHANGED <<view, db, list, pager, search, spin, picked, knob>> /\ history \subseteq history'
           /\ bounds' \in [asked : Nat, upsets : Nat] /\ bounds'.asked = bounds.asked
           /\ k \in Goods(view)
           /\ k.second => "unloaded" \in history'
           /\ \E a \in {"refused", "broken"} :
                /\ call' = [call EXCEPT ![c] = [k EXCEPT !.pc = "answered", !.answer = a]]
                /\ a = "broken" => history' \cap {"broken", "lost"} # {}
                /\ a = "refused" => "refused" \in history'
                /\ k.pc = "sent" \/ "lost" \in history'
                /\ [k EXCEPT !.pc = "answered", !.answer = a] \in Goods(view)
  <1>. DEFINE k == call[c]
  <1>0. bounds \in [asked : Nat, upsets : Nat] /\ (Refuse(c) \/ Lose(c) => ~Idle(c))
    BY DEF TableTypes, Refuse, Lose, Idle
  <1>1. k \in Goods(view) /\ k \in Actives /\ call \in [Calls -> Goods(view) \cup {NoCall}]
    BY <1>0, Under DEF TableTypes
  <1>2. UNCHANGED <<view, db, list, pager, search, spin, picked, knob>> /\ bounds' = [bounds EXCEPT !.upsets = @ + 1]
    BY DEF Refuse, Lose, Upset, Page
  <1>3. bounds' \in [asked : Nat, upsets : Nat] /\ bounds'.asked = bounds.asked
    BY <1>0, <1>2
  <1>4. k.second => "unloaded" \in history'
    BY DEF Refuse, Lose, Unloaded
  <1>5. ASSUME NEW a \in {"refused", "broken"}
        PROVE  [k EXCEPT !.pc = "answered", !.answer = a] \in Goods(view)
    <2>. DEFINE o == [k EXCEPT !.pc = "answered", !.answer = a]
    <2>1. o \in Actives /\ o.pc = "answered" /\ o.answer = a /\ o.req = k.req /\ o.data = k.data
      BY <1>1 DEF Actives
    <2>. HIDE DEF o
    <2>2. o \in Goods(view)
      BY <1>1, <2>1 DEF Goods
    <2>. QED BY <2>2 DEF o
  <1>. DEFINE G(a) ==
                /\ call' = [call EXCEPT ![c] = [k EXCEPT !.pc = "answered", !.answer = a]]
                /\ a = "broken" => history' \cap {"broken", "lost"} # {}
                /\ a = "refused" => "refused" \in history'
                /\ k.pc = "sent" \/ "lost" \in history'
  <1>6. CASE Refuse(c)
    <2>1. PICK a \in {"refused", "broken"} :
             /\ call' = [call EXCEPT ![c].pc = "answered", ![c].answer = a]
             /\ history' = history \cup {a} \cup Unloaded(c)
      BY <1>6 DEF Refuse
    <2>2. call' = [call EXCEPT ![c] = [k EXCEPT !.pc = "answered", !.answer = a]]
      BY <2>1
    <2>3. k.pc = "sent"
      BY <1>6 DEF Refuse
    <2>4. G(a) /\ history \subseteq history'
      BY <2>1, <2>2, <2>3
    <2>. QED BY <1>1, <1>2, <1>3, <1>4, <1>5, <2>4
  <1>7. CASE Lose(c)
    <2>1. call' = [call EXCEPT ![c].answer = "broken"] /\ history' = history \cup {"lost"} \cup Unloaded(c)
      BY <1>7 DEF Lose
    <2>2. k.pc = "answered"
      BY <1>7 DEF Lose
    <2>3. [k EXCEPT !.answer = "broken"] = [k EXCEPT !.pc = "answered", !.answer = "broken"]
      BY <1>1, <2>2 DEF Actives
    <2>4. call' = [call EXCEPT ![c] = [k EXCEPT !.pc = "answered", !.answer = "broken"]]
      BY <2>1, <2>3
    <2>5. G("broken") /\ history \subseteq history'
      BY <2>1, <2>4
    <2>. QED BY <1>1, <1>2, <1>3, <1>4, <1>5, <2>5
  <1>. QED BY <1>6, <1>7

LEMMA ForeignIs ==
    ASSUME TableTypes, Foreign
    PROVE  /\ UNCHANGED <<view, list, pager, search, spin, picked, knob, call>>
           /\ bounds' \in [asked : Nat, upsets : Nat] /\ db' \in [Ids -> 0..3]
           /\ "foreign" \in history' /\ history \subseteq history'
  <1>1. bounds \in [asked : Nat, upsets : Nat] /\ db \in [Ids -> 0..3]
    BY DEF TableTypes
  <1>2. UNCHANGED <<view, list, pager, search, spin, picked, knob, call>> /\ history' = history \cup {"foreign"}
        /\ bounds' = [bounds EXCEPT !.upsets = @ + 1]
    BY DEF Foreign, Page, Upset
  <1>3. PICK i \in Ids : \/ \E s \in {0, 3} : db' = [db EXCEPT ![i] = s]
                         \/ db' = [db EXCEPT ![i] = 1]
    BY DEF Foreign
  <1>4. db' \in [Ids -> 0..3]
    BY <1>1, <1>3
  <1>. QED BY <1>1, <1>2, <1>4

LEMMA ServerTypes ==
    ASSUME TableTypes, Server
    PROVE  TableTypes'
  <1>1. CASE Foreign
    <2>1. Around /\ CallsAfter
      BY <1>1, ForeignIs DEF Around, CallsAfter, TableTypes
    <2>. QED BY <1>1, <2>1, ForeignIs, TypesFrom DEF TableTypes
  <1>2. ASSUME NEW c \in Calls, Serve(c) PROVE TableTypes'
    <2>1. PICK a \in Seq(Ids), ok \in BOOLEAN : Served(c, a, ok)
      BY <1>2, ServeIs
    <2>2. /\ call[c] \in Goods(view) /\ UNCHANGED <<view, list, pager, search, spin, picked, knob, bounds>>
          /\ db' \in [Ids -> 0..3]
      BY <1>2, ServeIs
    <2>3. Told(call[c], a, ok) \in Goods(view) /\ call' = [call EXCEPT ![c] = Told(call[c], a, ok)]
      BY <2>1, <2>2, ToldIs DEF Served
    <2>4. Around /\ CallsAfter
      BY <2>2, <2>3 DEF Around, CallsAfter, TableTypes
    <2>. QED BY <2>2, <2>4, TypesFrom DEF TableTypes
  <1>3. ASSUME NEW c \in Calls, Refuse(c) \/ Lose(c) PROVE TableTypes'
    <2>1. /\ UNCHANGED <<view, db, list, pager, search, spin, picked, knob>>
          /\ bounds' \in [asked : Nat, upsets : Nat]
      BY <1>3, UpsetIs
    <2>2. PICK a \in {"refused", "broken"} :
             /\ call' = [call EXCEPT ![c] = [call[c] EXCEPT !.pc = "answered", !.answer = a]]
             /\ [call[c] EXCEPT !.pc = "answered", !.answer = a] \in Goods(view)
      BY <1>3, UpsetIs
    <2>3. Around /\ CallsAfter
      BY <2>1, <2>2 DEF Around, CallsAfter, TableTypes
    <2>. QED BY <2>1, <2>3, TypesFrom DEF TableTypes
  <1>. QED BY <1>1, <1>2, <1>3 DEF Server

LEMMA InitTypes ==
    ASSUME Init
    PROVE  TableTypes
  <1>1. view \in Views /\ db \in [Ids -> 0..3] /\ list = EmptyList /\ pager = FirstPager /\ search = NoSearch
    BY FirstDbAssumption DEF Init
  <1>2. ItemsPerPage \in Sizes /\ ItemsPerPage \in Nat
    BY Smallest, SizesAssumption
  <1>3. list \in Lists /\ pager \in Pagers /\ search \in Forms
    <2>1. <<>> \in Seq(Row)
      BY EmptySeq
    <2>2. list \in Lists
      BY <1>1, <2>1 DEF EmptyList, Lists, Words
    <2>3. pager \in Pagers
      BY <1>1, <1>2 DEF FirstPager, Pagers
    <2>4. search \in Forms
      BY <1>1 DEF NoSearch, Forms, Words
    <2>. QED BY <2>2, <2>3, <2>4
  <1>4. spin \subseteq Flags
    BY DEF Init, Flags
  <1>5. picked \subseteq Row /\ IsFiniteSet(picked)
    BY FS_EmptySet DEF Init
  <1>6. knob \in [Ids -> 0..3] /\ bounds \in [asked : Nat, upsets : Nat]
    BY DEF Init
  <1>. DEFINE m == Mounts(view)
  <1>7. \A j \in DOMAIN m : Fits(view, m[j])
    <2>0. "" \in Words /\ 0 \in Nat
      BY DEF Words
    <2>5. ASSUME NEW x, NEW y, Fits(view, x), Fits(view, y), m = <<x, y>> \/ m = <<x>>
          PROVE  \A j \in DOMAIN m : Fits(view, m[j])
      <3>. HIDE DEF m
      <3>. QED BY <2>5
    <2>1. CASE view = "logs"
      <3>1. "load" \in Ops(view)
        BY <2>1 DEF Ops
      <3>2. Fits(view, Reload("", ItemsPerPage)) /\ Fits(view, Load(0, ItemsPerPage))
        BY <1>2, <2>0, <3>1, Loadable
      <3>3. m = <<Reload("", ItemsPerPage), Load(0, ItemsPerPage)>>
        BY <2>1 DEF Mounts
      <3>. QED BY <2>5, <3>2, <3>3
    <2>2. CASE view \in {"minelogs", "minemj"}
      <3>1. "load" \in Ops(view)
        BY <2>2 DEF Ops
      <3>2. Fits(view, Load(0, ItemsPerPage))
        BY <1>2, <2>0, <3>1, Loadable
      <3>3. m = <<Load(0, ItemsPerPage), Load(0, ItemsPerPage)>>
        BY <2>2 DEF Mounts
      <3>. QED BY <2>5, <3>2, <3>3
    <2>3. CASE view = "minewd"
      <3>1. "search" \in Ops(view)
        BY <2>3 DEF Ops
      <3>2. Fits(view, Search(""))
        BY <2>0, <3>1, Searchable
      <3>3. m = <<Search("")>>
        BY <2>3 DEF Mounts
      <3>. QED BY <2>5, <3>2, <3>3
    <2>4. CASE view \notin {"logs", "minelogs", "minemj", "minewd"}
      <3>1. "load" \in Ops(view)
        BY <2>4 DEF Ops
      <3>2. Fits(view, Load(0, ItemsPerPage))
        BY <1>2, <2>0, <3>1, Loadable
      <3>3. m = <<Load(0, ItemsPerPage)>>
        BY <2>4 DEF Mounts
      <3>. QED BY <2>5, <3>2, <3>3
    <2>. QED BY <2>1, <2>2, <2>3, <2>4
  <1>. HIDE DEF m
  <1>8. \A c \in Calls : call[c] \in Goods(view) \cup {NoCall}
    <2>1. \A c \in Calls : call[c] = IF c \in DOMAIN m THEN Sent(m[c], 0, pager, search) ELSE NoCall
      BY DEF Init, m
    <2>2. \A c \in DOMAIN m : Sent(m[c], 0, pager, search) \in Goods(view)
      BY <1>3, <1>7, SentIs
    <2>. QED BY <2>1, <2>2
  <1>9. call \in [Calls -> Goods(view) \cup {NoCall}]
    <2>1. call = [c \in Calls |-> call[c]]
      BY DEF Init
    <2>. QED BY <1>8, <2>1
  <1>. QED BY <1>1, <1>3, <1>4, <1>5, <1>6, <1>9 DEF TableTypes

-----------------------------------------------------------------------------
(* Steps that several tables take                                          *)

LEMMA CeilIs ==
    ASSUME NEW a \in Nat, NEW b \in Nat \ {0}
    PROVE  /\ Ceil(a, b) \in Nat /\ a <= Ceil(a, b) * b
           /\ \A p \in 1..Ceil(a, b) : p \in Nat \ {0} /\ (p - 1) * b < a
  <1>. DEFINE x == a + b - 1
              q == x \div b
  <1>1. x \in Nat /\ q \in Nat /\ q * b <= x /\ x < (q + 1) * b
    OBVIOUS
  <1>2. a <= q * b
    BY <1>1
  <1>3. ASSUME NEW p \in 1..q PROVE p \in Nat \ {0} /\ (p - 1) * b < a
    <2>1. p \in Nat \ {0} /\ p <= q
      BY <1>1
    <2>2. (p - 1) * b <= (q - 1) * b
      BY <1>1, <2>1
    <2>3. (q - 1) * b = q * b - b
      BY <1>1
    <2>4. q * b - b < a
      BY <1>1
    <2>5. (p - 1) * b \in Int /\ (q - 1) * b \in Int
      BY <1>1, <2>1
    <2>. QED BY <2>1, <2>2, <2>3, <2>4, <2>5
  <1>. QED BY <1>1, <1>2, <1>3 DEF Ceil

LEMMA RowsOfSeq ==
    ASSUME NEW rows \in Seq(Row)
    PROVE  /\ ToSet(rows) \subseteq Row /\ IsFiniteSet(ToSet(rows))
           /\ IsFiniteSet(NamesOf(ToSet(rows))) /\ NamesOf(ToSet(rows)) \subseteq Ids
           /\ Keys(ToSet(rows)) \subseteq Row /\ IsFiniteSet(Keys(ToSet(rows)))
           /\ \A r \in ToSet(rows) : \E k \in 1..Len(rows) : rows[k] = r
           /\ \A k \in 1..Len(rows) : rows[k] \in ToSet(rows)
  <1>. DEFINE T == ToSet(rows)
  <1>1. Len(rows) \in Nat /\ rows \in [1..Len(rows) -> Row]
    BY LenProperties
  <1>2. T = {rows[k] : k \in 1..Len(rows)}
    BY <1>1 DEF ToSet
  <1>3. T \subseteq Row /\ (\A r \in T : \E k \in 1..Len(rows) : rows[k] = r) /\ \A k \in 1..Len(rows) : rows[k] \in T
    BY <1>1, <1>2
  <1>4. IsFiniteSet(T)
    <2>1. IsFiniteSet(1..Len(rows))
      BY <1>1, UpTo
    <2>2. rows \in Surjection(1..Len(rows), T)
      BY <1>1, <1>3 DEF Surjection
    <2>. QED BY <2>1, <2>2, FS_Surjection
  <1>. HIDE DEF T
  <1>. DEFINE N == NamesOf(T)
  <1>5. IsFiniteSet(N) /\ N \subseteq Ids
    <2>. DEFINE h == [r \in T |-> r.id]
    <2>1. h \in Surjection(T, N)
      BY DEF Surjection, NamesOf
    <2>2. N \subseteq Ids
      BY <1>3 DEF NamesOf, Row
    <2>. QED BY <1>4, <2>1, <2>2, FS_Surjection
  <1>. HIDE DEF N
  <1>. DEFINE Q == {[id |-> i, arr |-> 0, status |-> 1] : i \in N}
  <1>6. Q \subseteq Row /\ IsFiniteSet(Q)
    <2>. DEFINE h == [i \in N |-> [id |-> i, arr |-> 0, status |-> 1]]
    <2>1. h \in Surjection(N, Q)
      BY DEF Surjection
    <2>2. Q \subseteq Row
      BY <1>5 DEF Row
    <2>. QED BY <1>5, <2>1, <2>2, FS_Surjection
  <1>7. Keys(T) = Q
    BY DEF Keys, N
  <1>. QED BY <1>3, <1>4, <1>5, <1>6, <1>7 DEF T, N

LEMMA SubSeqRows ==
    ASSUME NEW rows \in Seq(Row), NEW f \in Nat \ {0}, NEW t \in Nat, t <= Len(rows)
    PROVE  /\ SubSeq(rows, f, t) \in Seq(Row) /\ ToSet(SubSeq(rows, f, t)) \subseteq ToSet(rows)
           /\ \A k \in f..t : rows[k] \in ToSet(SubSeq(rows, f, t))
           /\ \A r \in ToSet(SubSeq(rows, f, t)) : \E k \in f..t : r = rows[k]
  <1>1. Len(rows) \in Nat /\ rows \in [1..Len(rows) -> Row]
    BY LenProperties
  <1>2. \A i \in f..t : i \in 1..Len(rows) /\ rows[i] \in Row
    BY <1>1
  <1>3. /\ SubSeq(rows, f, t) \in Seq(Row)
        /\ Len(SubSeq(rows, f, t)) = IF f <= t THEN t - f + 1 ELSE 0
        /\ \A i \in 1..(t - f + 1) : SubSeq(rows, f, t)[i] = rows[f + i - 1]
    BY <1>2, SubSeqProperties
  <1>. DEFINE s == SubSeq(rows, f, t)
  <1>. HIDE DEF s
  <1>4. s \in Seq(Row) /\ Len(s) \in Nat /\ s \in [1..Len(s) -> Row]
    BY <1>3, LenProperties DEF s
  <1>5. ASSUME NEW i \in 1..Len(s) PROVE f + i - 1 \in f..t /\ s[i] = rows[f + i - 1]
    <2>1. f <= t /\ i \in 1..(t - f + 1)
      BY <1>3, <1>4 DEF s
    <2>. QED BY <1>3, <2>1 DEF s
  <1>6. ASSUME NEW k \in f..t PROVE rows[k] \in ToSet(s)
    <2>1. k - f + 1 \in 1..Len(s) /\ k - f + 1 \in 1..(t - f + 1) /\ f + (k - f + 1) - 1 = k
      BY <1>3, <1>4 DEF s
    <2>2. s[k - f + 1] = rows[k]
      BY <1>5, <2>1
    <2>. QED BY <1>4, <2>1, <2>2, RowsOfSeq
  <1>7. \A r \in ToSet(s) : \E k \in f..t : r = rows[k]
    BY <1>4, <1>5, RowsOfSeq
  <1>8. ToSet(s) \subseteq ToSet(rows)
    BY <1>2, <1>7, RowsOfSeq
  <1>. QED BY <1>4, <1>6, <1>7, <1>8 DEF s

\* The rows shown are some of those held.
LEMMA SliceIs ==
    ASSUME TableTypes, NEW w \in Nat
    PROVE  /\ Slice(w) \in Seq(Row) /\ ToSet(Slice(w)) \subseteq ToSet(list.rows)
           /\ ToSet(Slice(w)) \subseteq Row /\ IsFiniteSet(ToSet(Slice(w)))
  <1>1. list.rows \in Seq(Row) /\ Len(list.rows) \in Nat /\ pager.page \in Nat \ {0}
    <2>1. list.rows \in Seq(Row) /\ pager.page \in Nat \ {0}
      BY DEF TableTypes, Lists, Pagers
    <2>. QED BY <2>1, LenProperties
  <1>. DEFINE f == (pager.page - 1) * w + 1
              m == pager.page * w
              t == IF m < Len(list.rows) THEN m ELSE Len(list.rows)
  <1>2. f \in Nat \ {0} /\ m \in Nat
    <2>1. (pager.page - 1) * w \in Nat
      BY <1>1
    <2>. QED BY <1>1, <2>1
  <1>3. t \in Nat /\ t <= Len(list.rows)
    <2>. HIDE DEF m
    <2>. QED BY <1>1, <1>2
  <1>4. Slice(w) = SubSeq(list.rows, f, t)
    BY DEF Slice
  <1>. HIDE DEF f, t
  <1>. DEFINE s == SubSeq(list.rows, f, t)
  <1>5. s \in Seq(Row) /\ ToSet(s) \subseteq ToSet(list.rows)
    BY <1>1, <1>2, <1>3, SubSeqRows
  <1>. HIDE DEF s
  <1>6. ToSet(s) \subseteq Row /\ IsFiniteSet(ToSet(s))
    BY <1>5, RowsOfSeq
  <1>. QED BY <1>4, <1>5, <1>6 DEF s

LEMMA SendsShaped ==
    ASSUME TableTypes, NEW c \in Calls, NEW q, Fits(view, q), Rowed(q), NEW F \in SUBSET Flags, F \subseteq Clears(view, q),
           Sends(c, q, F)
    PROVE  Shaped
  <1>1. q \in Requests /\ pager \in Pagers /\ search \in Forms
    BY DEF Fits, TableTypes
  <1>2. AskBy(c, q, pager, search) /\ spin' = spin \cup F /\ UNCHANGED <<view, db, list, pager, search, picked, knob>>
    BY DEF Sends, Starts, Ask
  <1>3. Around
    BY <1>2 DEF Around, TableTypes
  <1>4. ShapeAsk
    BY <1>1, <1>2 DEF ShapeAsk
  <1>. QED BY <1>3, <1>4 DEF Shaped

\* A load, with changes of the pager and of the form.
LEMMA StartsShaped ==
    ASSUME TableTypes, NEW c \in Calls, NEW q, Fits(view, q), q.op \in Reads, NEW p \in Pagers, NEW f \in Forms,
           AskBy(c, q, p, f), UNCHANGED <<view, db, list, picked, knob>>,
           pager' \in Pagers, search' \in Forms, spin' \subseteq Flags, spin' \subseteq spin \cup Clears(view, q)
    PROVE  Shaped
  <1>1. q \in Requests /\ Rowed(q)
    BY DEF Fits, Rowed, Reads
  <1>2. Around
    BY DEF Around, TableTypes
  <1>3. ShapeAsk
    BY <1>1 DEF ShapeAsk
  <1>. QED BY <1>2, <1>3 DEF Shaped

LEMMA AskTwoShaped ==
    ASSUME TableTypes, NEW c \in Calls, NEW d \in Calls, NEW q, NEW o, Fits(view, q), Fits(view, o),
           q.op \in Reads, o.op \in Reads, q.page = 0,
           NEW p \in Pagers, AskTwo(c, d, q, o, p), UNCHANGED <<view, db, list, picked, knob>>,
           pager' \in Pagers, search' \in Forms, spin' \subseteq Flags,
           spin' \subseteq spin \cup Clears(view, q) \cup Clears(view, o)
    PROVE  Shaped
  <1>1. q \in Requests /\ o \in Requests
    BY DEF Fits
  <1>2. Around
    BY DEF Around, TableTypes
  <1>3. ShapeAskTwo
    BY <1>1 DEF ShapeAskTwo
  <1>. QED BY <1>2, <1>3 DEF Shaped

LEMMA LocalShaped ==
    ASSUME TableTypes, UNCHANGED <<view, db, list, knob, call, bounds>>, history \subseteq history',
           pager' \in Pagers, search' \in Forms, spin' = spin, picked' \subseteq Row, IsFiniteSet(picked')
    PROVE  Shaped
  BY DEF Shaped, Around, ShapeLocal, TableTypes

LEMMA PickShaped ==
    ASSUME TableTypes, NEW S \in SUBSET Row, IsFiniteSet(S), Pick(S)
    PROVE  Shaped
  <1>1. UNCHANGED <<view, db, list, pager, search, spin, knob, bounds, history, call>> /\ picked' = S
    BY DEF Pick, NoRequest
  <1>. QED BY <1>1, LocalShaped DEF TableTypes

LEMMA TypeShaped ==
    ASSUME TableTypes, NEW q \in {"", "key"}, Type(q)
    PROVE  Shaped
  <1>1. UNCHANGED <<view, db, list, pager, picked, spin, knob, bounds, history, call>> /\ search' = [search EXCEPT !.word = q]
    BY DEF Type, NoRequest
  <1>2. search' \in Forms
    BY <1>1 DEF TableTypes, Forms
  <1>. QED BY <1>1, <1>2, LocalShaped DEF TableTypes

LEMMA TurnShaped ==
    ASSUME TableTypes, NEW w \in Words, NEW n \in Sizes, view \in Even => n = ItemsPerPage,
           "load" \in Ops(view), NEW F \in SUBSET {"loading"}, TurnPage(w, n, F)
    PROVE  Shaped
  <1>0. pager \in Pagers /\ search \in Forms /\ pager.size \in Nat \ {0} /\ pager.count \in Nat
    BY SizesAssumption DEF TableTypes, Pagers
  <1>1. PICK p \in 1..Ceil(pager.count, pager.size) :
           /\ pager' = [pager EXCEPT !.page = p]
           /\ IF NotHeld(p, n) THEN \E c \in Calls : Starts(c, LoadOf(w, p - 1, n), F)
                               ELSE p # pager.page /\ Turned /\ UNCHANGED spin
    BY DEF TurnPage
  <1>2. p \in Nat \ {0}
    BY <1>0, <1>1, CeilIs
  <1>3. pager' \in Pagers
    BY <1>0, <1>1, <1>2 DEF Pagers
  <1>4. UNCHANGED <<view, db, list, search, picked, knob>>
    BY DEF TurnPage
  <1>5. CASE NotHeld(p, n)
    <2>1. PICK c \in Calls : Starts(c, LoadOf(w, p - 1, n), F)
      BY <1>1, <1>5
    <2>2. AskBy(c, LoadOf(w, p - 1, n), pager, search) /\ spin' = spin \cup F
      BY <2>1 DEF Starts, Ask
    <2>3. Fits(view, LoadOf(w, p - 1, n)) /\ LoadOf(w, p - 1, n).op \in Reads
      <3>1. p - 1 \in Nat /\ 0 \in Nat
        BY <1>2
      <3>2. LoadOf(w, p - 1, n).op \in Reads
        BY DEF LoadOf, Load, Reads
      <3>. QED BY <3>1, <3>2, Loadable
    <2>4. F \subseteq Flags /\ F \subseteq Clears(view, LoadOf(w, p - 1, n))
      <3>1. LoadOf(w, p - 1, n).op = "load"
        BY DEF LoadOf, Load
      <3>2. Clears(view, LoadOf(w, p - 1, n)) = {"loading"}
        BY <3>1 DEF Clears
      <3>3. F \subseteq {"loading"}
        OBVIOUS
      <3>. QED BY <3>2, <3>3 DEF Flags
    <2>5. spin' \subseteq Flags /\ spin' \subseteq spin \cup Clears(view, LoadOf(w, p - 1, n))
      BY <2>2, <2>4 DEF TableTypes
    <2>. QED BY <1>0, <1>3, <1>4, <2>2, <2>3, <2>5, StartsShaped
  <1>6. CASE ~NotHeld(p, n)
    <2>1. Turned /\ UNCHANGED spin
      BY <1>1, <1>6
    <2>. QED BY <1>3, <1>4, <2>1, LocalShaped DEF TableTypes, Turned
  <1>. QED BY <1>5, <1>6

\* Requests for rows by the form.
LEMMA LoadReads ==
    \A w, p, n, t : /\ Load(p, n).op \in Reads /\ LoadOf(w, p, n).op \in Reads /\ Reload(w, n).op \in Reads
                    /\ ThenPage(Load(p, n), t).op \in Reads /\ ThenPage(LoadOf(w, p, n), t).op \in Reads
                    /\ Search(w).op \in Reads /\ ThenPage(Search(w), t).op \in Reads
                    /\ Load(p, n).page = p /\ LoadOf(w, p, n).page = p /\ Reload(w, n).page = 0 /\ Search(w).page = 0
                    /\ ThenPage(Load(p, n), t).page = p /\ ThenPage(LoadOf(w, p, n), t).page = p
                    /\ ThenPage(Search(w), t).page = 0
  BY DEF Load, LoadOf, Reload, ThenPage, Search, Reads

LEMMA ReadRowed ==
    ASSUME NEW q, q.op \in Reads \cup {"drop", "copy", "purge"}
    PROVE  Rowed(q)
  BY DEF Rowed, Reads

\* A change of one row, when the row is among those held.
LEMMA RowRowed ==
    ASSUME NEW o \in ToSet(list.rows), NEW t
    PROVE  /\ (view \in {"users", "redemptions"} => o.status # 3) => Rowed(Switch(o, t))
           /\ Rowed(Rank(o)) /\ Rowed(Delete(o))
  <1>1. /\ Switch(o, t).rows = {o} /\ Rank(o).rows = {o} /\ Delete(o).rows = {o}
        /\ Rank(o).to = 0 /\ Delete(o).op = "delete"
    BY DEF Switch, Rank, Delete, Load
  <1>. QED BY <1>1 DEF Rowed

-----------------------------------------------------------------------------
(* Answers                                                                 *)

LEMMA HandlesIs ==
    ASSUME NEW c \in Calls, call[c].pc = "answered", NEW E, Notes(c, E), UNCHANGED <<db, bounds>>
    PROVE  Handles(c) /\ E \subseteq history'
  BY DEF Handles, Notes

LEMMA EndShaped ==
    ASSUME TableTypes, NEW c \in Calls, call[c].pc = "answered", NEW E, Notes(c, E), End(c), Still, list' = list, knob' = knob,
           pager' \in Pagers, search' \in Forms, picked' \in {picked, {}}, spin' \subseteq spin,
           spin' \cap Clears(view, call[c].req) = {} \/ (Broken(c) /\ view \notin Sure),
           \/ call[c].answer # "ok" \/ call[c].req.op = "totals"
           \/ view = "channels" /\ call[c].req.op = "purge"
    PROVE  Shaped
  <1>1. Handles(c)
    BY HandlesIs DEF Still
  <1>2. Around
    BY FS_EmptySet DEF Around, Still, TableTypes
  <1>3. ShapeEnd(c)
    BY <1>1 DEF ShapeEnd
  <1>4. Spun(c)
    BY DEF Spun
  <1>. QED BY <1>2, <1>3, <1>4 DEF Shaped, Handled

LEMMA ThrownShaped ==
    ASSUME TableTypes, NEW c \in Calls, NEW F, Thrown(c, F), view \notin Sure \/ Clears(view, call[c].req) \subseteq F
    PROVE  Shaped
  <1>1. /\ call[c].pc = "answered" /\ call[c].answer # "ok" /\ End(c) /\ Notes(c, {}) /\ Still
        /\ UNCHANGED <<list, pager, search, picked, knob>> /\ spin' = spin \ F /\ Broken(c)
    BY DEF Thrown, Broken
  <1>2. pager' \in Pagers /\ search' \in Forms /\ spin' \subseteq spin /\ picked' \in {picked, {}}
    BY <1>1 DEF TableTypes
  <1>3. spin' \cap Clears(view, call[c].req) = {} \/ (Broken(c) /\ view \notin Sure)
    BY <1>1
  <1>. QED BY <1>1, <1>2, <1>3, EndShaped

LEMMA AlikeTrans ==
    \A r, o, x : Alike(r, o) /\ Alike(o, x) => Alike(r, x)
  BY DEF Alike

LEMMA EndOthers ==
    ASSUME TableTypes, NEW c \in Calls, End(c)
    PROVE  Others(c)
  <1>1. call' = [call EXCEPT ![c] = NoCall] /\ call \in [Calls -> Goods(view) \cup {NoCall}]
    BY DEF End, TableTypes
  <1>2. call' = [d \in Calls |-> call'[d]]
    BY <1>1
  <1>3. ASSUME NEW d \in Calls, ~(d = c \/ Idle(d))
        PROVE  \E l \in Lists : call'[d] = [call[d] EXCEPT !.seen = l]
    <2>1. call[d] \in Actives /\ call[d].seen \in Lists
      BY <1>3, Under
    <2>2. [call[d] EXCEPT !.seen = call[d].seen] = call[d]
      BY <2>1 DEF Actives
    <2>3. call'[d] = call[d]
      BY <1>1, <1>3
    <2>. QED BY <2>1, <2>2, <2>3
  <1>4. \A d \in Calls : d = c \/ Idle(d) => call'[d] = NoCall
    BY <1>1, Under
  <1>. QED BY <1>2, <1>3, <1>4 DEF Others

LEMMA PlacedShaped ==
    ASSUME TableTypes, NEW c \in Calls, Answered(c, "load"), Good(c), NEW n, n = call[c].req.size,
           view \notin {"users", "redemptions"} \/ call[c].req.page = 0,
           NEW rows \in Seq(Row), Len(rows) = Len(Placed(c, n)), \A j \in 1..Len(rows) : Alike(rows[j], Placed(c, n)[j]),
           Show(rows, Of(c)), NEW E, Notes(c, E), call[c].req.page > 0 => Misfits(c, n) \subseteq E,
           End(c), Still, knob' = knob
    PROVE  Handled(c)
  <1>. DEFINE k == call[c]
              at == k.req.page * n
  <1>0. ~Idle(c) /\ k.pc = "answered" /\ k.req.op = "load" /\ k.answer = "ok"
    BY DEF Answered, Good, Idle
  <1>1. k \in Actives /\ k.req \in Requests /\ k.seen \in Lists /\ Fresh \in Nat /\ n \in Nat /\ k.req.page \in Nat
    BY <1>0, Under, FreshIs DEF Requests
  <1>2. /\ Objects(k.data) \in Seq(Row) /\ Len(Objects(k.data)) = Len(k.data) /\ Of(c) \in Words
        /\ \A j \in 1..Len(k.data) : Alike(Objects(k.data)[j], k.data[j])
        /\ Len(k.data) \in Nat
    BY <1>0, <1>1, PlacedIs
  <1>3. Handles(c) /\ E \subseteq history'
    BY <1>0, HandlesIs DEF Still
  <1>4. list' = [arr |-> Fresh, rows |-> rows, of |-> Of(c)]
    BY DEF Show
  <1>5. list' \in Lists /\ list'.rows = rows /\ list'.of = Of(c)
    BY <1>1, <1>2, <1>4 DEF Lists
  <1>6. CASE k.req.page = 0
    <2>1. Placed(c, n) = Objects(k.data) /\ Of(c) = k.req.query
      BY <1>6 DEF Placed, Of
    <2>2. Len(rows) = Len(k.data) /\ \A j \in 1..Len(k.data) : Alike(rows[j], k.data[j])
      <3>1. Len(rows) = Len(k.data)
        BY <1>2, <2>1
      <3>2. ASSUME NEW j \in 1..Len(k.data) PROVE Alike(rows[j], k.data[j])
        BY <1>2, <2>1, <3>1, AlikeTrans
      <3>. QED BY <3>1, <3>2
    <2>3. ShapeReplace(c)
      BY <1>0, <1>3, <1>5, <1>6, <2>1, <2>2 DEF ShapeReplace
    <2>. QED BY <2>3 DEF Handled
  <1>7. CASE k.req.page # 0
    <2>0. at \in Nat /\ k.req.page > 0 /\ k.seen.rows \in Seq(Row) /\ view \notin {"users", "redemptions"}
      BY <1>1, <1>7 DEF Lists
    <2>1. Placed(c, n) = Splice(k.seen.rows, at, Objects(k.data)) /\ Of(c) = k.seen.of
      BY <1>7 DEF Placed, Of
    <2>2. at <= Len(k.seen.rows) =>
            /\ Len(rows) = IF at + Len(k.data) < Len(k.seen.rows) THEN Len(k.seen.rows) ELSE at + Len(k.data)
            /\ \A j \in 1..Len(rows) :
                 Alike(rows[j], Behind(k.seen.rows, at, k.data, j))
      <3>. SUFFICES ASSUME at <= Len(k.seen.rows)
                    PROVE  /\ Len(rows) = IF at + Len(k.data) < Len(k.seen.rows) THEN Len(k.seen.rows) ELSE at + Len(k.data)
                           /\ \A j \in 1..Len(rows) :
                                Alike(rows[j], Behind(k.seen.rows, at, k.data, j))
        OBVIOUS
      <3>. DEFINE os == Objects(k.data)
                  new == Placed(c, n)
      <3>0. os \in Seq(Row) /\ Len(os) = Len(k.data)
        BY <1>2
      <3>1. /\ Len(new) = IF at + Len(os) < Len(k.seen.rows) THEN Len(k.seen.rows) ELSE at + Len(os)
            /\ \A j \in 1..Len(new) : new[j] = Behind(k.seen.rows, at, os, j)
        <4>1. new = Splice(k.seen.rows, at, os)
          BY <2>1
        <4>. DEFINE old == k.seen.rows
        <4>2. at \in Nat /\ old \in Seq(Row) /\ os \in Seq(Row) /\ at <= Len(old)
          BY <2>0, <3>0
        <4>. HIDE DEF at, os, new, old
        <4>3. LET x == Splice(old, at, os) IN
              /\ Len(x) = IF at + Len(os) < Len(old) THEN Len(old) ELSE at + Len(os)
              /\ \A j \in 1..Len(x) : x[j] = Behind(old, at, os, j)
          BY <4>2, SpliceIs
        <4>. QED BY <4>1, <4>3 DEF old
      <3>2. ASSUME NEW j \in 1..Len(rows)
            PROVE  Alike(rows[j], Behind(k.seen.rows, at, k.data, j))
        <4>1. Alike(rows[j], new[j])
          OBVIOUS
        <4>2. new[j] = IF j > at /\ j <= at + Len(k.data) THEN os[j - at] ELSE k.seen.rows[j]
          BY <3>0, <3>1 DEF Behind
        <4>3. CASE j > at /\ j <= at + Len(k.data)
          <5>1. j - at \in 1..Len(k.data)
            BY <1>2, <2>0, <4>3
          <5>2. Alike(os[j - at], k.data[j - at])
            BY <1>2, <5>1
          <5>3. Behind(k.seen.rows, at, k.data, j) = k.data[j - at] /\ new[j] = os[j - at]
            BY <4>2, <4>3 DEF Behind
          <5>. HIDE DEF at, os, new
          <5>. QED BY <4>1, <5>2, <5>3, AlikeTrans
        <4>4. CASE ~(j > at /\ j <= at + Len(k.data))
          <5>1. Behind(k.seen.rows, at, k.data, j) = k.seen.rows[j] /\ new[j] = k.seen.rows[j]
            BY <4>2, <4>4 DEF Behind
          <5>. HIDE DEF at, os, new
          <5>. QED BY <4>1, <5>1
        <4>. QED BY <4>3, <4>4
      <3>. QED BY <3>0, <3>1, <3>2
    <2>3. Others(c)
      BY EndOthers
    <2>4. Len(k.seen.rows) < at => "gap" \in history'
      BY <1>3, <1>7, <2>0 DEF Misfits
    <2>5. k.req.query # k.seen.of => "mixed" \in history'
      BY <1>3, <1>7, <2>0 DEF Misfits
    <2>6. Len(k.seen.rows) \in Nat
      BY <2>0, LenProperties
    <2>. HIDE DEF at
    <2>7. at = Len(k.seen.rows) \/ (view \notin {"users", "redemptions"} /\ at < Len(k.seen.rows)) => at <= Len(k.seen.rows)
      BY <2>0, <2>6
    <2>8. ShapeSplice(c)
      BY <1>0, <1>3, <1>5, <2>0, <2>1, <2>2, <2>3, <2>4, <2>5, <2>7 DEF ShapeSplice, at
    <2>. QED BY <2>8 DEF Handled
  <1>. QED BY <1>6, <1>7

\* The load of a table that keeps the rows it was sent.
LEMMA LoadShaped ==
    ASSUME TableTypes, NEW c \in Calls, Answered(c, "load"), Good(c), NEW n, n = call[c].req.size,
           view \notin {"users", "redemptions"} \/ call[c].req.page = 0,
           Show(Placed(c, n), Of(c)), NEW E, Notes(c, E), call[c].req.page > 0 => Misfits(c, n) \subseteq E,
           End(c), Still, knob' = knob
    PROVE  Handled(c)
  <1>1. ~Idle(c) /\ n \in Nat
    <2>1. ~Idle(c)
      BY DEF Answered, Idle
    <2>. QED BY <2>1, Under DEF Requests
  <1>2. Placed(c, n) \in Seq(Row) /\ \A j \in 1..Len(Placed(c, n)) : Alike(Placed(c, n)[j], Placed(c, n)[j])
    BY <1>1, PlacedIs DEF Alike
  <1>. QED BY <1>2, PlacedShaped

LEMMA SearchShaped ==
    ASSUME TableTypes, NEW c \in Calls, Answered(c, "search"), Good(c),
           Show(Objects(call[c].data), call[c].req.query), NEW E, Notes(c, E), End(c), Still, knob' = knob
    PROVE  Handled(c)
  <1>. DEFINE k == call[c]
  <1>0. ~Idle(c) /\ k.pc = "answered" /\ k.req.op = "search" /\ k.answer = "ok"
    BY DEF Answered, Good, Idle
  <1>1. k.req \in Requests /\ Fresh \in Nat
    BY <1>0, Under, FreshIs
  <1>2. /\ Objects(k.data) \in Seq(Row) /\ Len(Objects(k.data)) = Len(k.data)
        /\ \A j \in 1..Len(k.data) : Alike(Objects(k.data)[j], k.data[j])
    BY <1>0, PlacedIs
  <1>3. Handles(c)
    BY <1>0, HandlesIs DEF Still
  <1>4. list' = [arr |-> Fresh, rows |-> Objects(k.data), of |-> k.req.query]
    BY DEF Show
  <1>5. list' \in Lists /\ list'.rows = Objects(k.data) /\ list'.of = k.req.query
    BY <1>1, <1>2, <1>4 DEF Lists, Requests
  <1>6. ShapeReplace(c)
    BY <1>0, <1>2, <1>3, <1>5 DEF ShapeReplace
  <1>. QED BY <1>6 DEF Handled

\* A load whose pager is told the rows put in place, by whatever count.
LEMMA LoadedShaped ==
    ASSUME TableTypes, NEW c \in Calls, view \notin {"users", "redemptions"},
           Answered(c, "load"), NEW n, n = call[c].req.size,
           pager' \in Pagers, spin' = spin \ {"loading"}, End(c), Still, UNCHANGED <<search, picked, knob>>,
           IF Good(c) THEN Show(Placed(c, n), Of(c)) /\ Notes(c, Misfits(c, n)) ELSE UNCHANGED list /\ Notes(c, {})
    PROVE  Shaped
  <1>1. spin' \subseteq Flags /\ search' \in Forms /\ picked' \in {picked, {}} /\ Around
    BY DEF Around, Still, TableTypes
  <1>2. call[c].pc = "answered" /\ Clears(view, call[c].req) = {"loading"}
    BY DEF Answered, Clears
  <1>5. Spun(c)
    BY <1>2 DEF Spun
  <1>3. CASE Good(c)
    <2>1. Show(Placed(c, n), Of(c)) /\ Notes(c, Misfits(c, n))
      BY <1>3
    <2>2. Handled(c)
      BY <1>3, <2>1, LoadShaped
    <2>. QED BY <1>1, <1>5, <2>2 DEF Shaped
  <1>4. CASE ~Good(c)
    <2>1. list' = list /\ Notes(c, {}) /\ call[c].answer # "ok"
      BY <1>4 DEF Good
    <2>2. spin' \subseteq spin /\ spin' \cap Clears(view, call[c].req) = {}
      BY <1>2
    <2>. QED BY <1>1, <1>2, <2>1, <2>2, EndShaped DEF TableTypes
  <1>. QED BY <1>3, <1>4

\* What the pager is told after a load.
LEMMA CountedPager ==
    ASSUME TableTypes, NEW c \in Calls, ~Idle(c), NEW m, m \in Nat \/ ~Good(c),
           pager' = [pager EXCEPT !.page = PageAfter(c), !.count = IF Good(c) THEN m ELSE @]
    PROVE  pager' \in Pagers
  <1>1. PageAfter(c) \in Nat \ {0}
    BY PlacedIs
  <1>. QED BY <1>1 DEF TableTypes, Pagers

LEMMA LoadSize ==
    ASSUME TableTypes, NEW c \in Calls, Answered(c, "load")
    PROVE  /\ ~Idle(c) /\ call[c].req.size \in Sizes /\ call[c].req.size \in Nat \ {0}
           /\ view \in Even => call[c].req.size = ItemsPerPage
  <1>1. ~Idle(c)
    BY DEF Answered, Idle
  <1>2. Fits(view, call[c].req)
    BY <1>1, Under
  <1>. QED BY <1>1, <1>2, SizesAssumption DEF Fits, Answered

\* The tables of withdrawals, top-ups and Midjourney tasks.
LEMMA GrowingShaped ==
    ASSUME TableTypes, NEW c \in Calls, view \in Even, view \notin {"users", "redemptions"},
           WithdrawLoaded(c) \/ TopUpLoaded(c) \/ MjLoaded(c)
    PROVE  Shaped
  <1>. DEFINE n == ItemsPerPage
  <1>1. /\ Answered(c, "load")
        /\ pager' = [pager EXCEPT !.page = PageAfter(c), !.count = IF Good(c) THEN Len(Placed(c, n)) + n ELSE @]
        /\ IF Good(c) THEN Show(Placed(c, n), Of(c)) /\ Notes(c, Misfits(c, n)) ELSE UNCHANGED list /\ Notes(c, {})
        /\ spin' = spin \ {"loading"} /\ End(c) /\ Still /\ UNCHANGED <<search, picked, knob>>
    BY DEF WithdrawLoaded, TopUpLoaded, MjLoaded, Loaded, Growing
  <1>2. n = call[c].req.size /\ n \in Nat /\ ~Idle(c)
    BY <1>1, LoadSize
  <1>3. pager' \in Pagers
    <2>1. Len(Placed(c, n)) + n \in Nat
      BY <1>2, PlacedIs
    <2>. QED BY <1>1, <1>2, <2>1, CountedPager
  <1>. HIDE DEF n
  <1>. QED BY <1>1, <1>2, <1>3, LoadedShaped

\* An answer is handled, and what is around the rows keeps its type.
LEMMA HandledShaped ==
    ASSUME TableTypes, NEW c \in Calls, Handled(c), view' = view, pager' \in Pagers, search' \in Forms,
           spin' \subseteq Flags, picked' \in {picked, {}}, knob' = knob, Spun(c)
    PROVE  Shaped
  <1>1. Around
    BY FS_EmptySet DEF Around, TableTypes
  <1>. QED BY <1>1 DEF Shaped

\* An indicator of the load that follows.
LEMMA OnwardSpun ==
    ASSUME TableTypes, NEW c \in Calls, ~Idle(c), NEW q, q.op = "load", Fits(view, q), GoOn(c, q),
           spin' \subseteq spin \cup {"loading"}, Clears(view, call[c].req) \subseteq {"loading"}
    PROVE  Spun(c) /\ spin' \subseteq Flags
  <1>1. call[c] \in Goods(view)
    BY Under
  <1>. DEFINE o == [call[c] EXCEPT !.pc = "sent", !.req = q, !.second = TRUE]
  <1>2. call' = [call EXCEPT ![c] = o]
    BY DEF GoOn
  <1>3. o \in Goods(view) /\ o.req = q /\ o # NoCall
    <2>1. o \in Goods(view) /\ o.req = q
      BY <1>1, OnwardIs
    <2>2. o \in Actives
      BY <2>1 DEF Goods
    <2>. QED BY <2>1, <2>2, NoCallIsNone
  <1>. HIDE DEF o
  <1>4. call'[c] = o
    BY <1>2 DEF TableTypes
  <1>5. Clears(view, call'[c].req) = {"loading"}
    BY <1>3, <1>4 DEF Clears
  <1>6. spin \subseteq Flags
    BY DEF TableTypes
  <1>. QED BY <1>3, <1>4, <1>5, <1>6 DEF Spun, Flags

LEMMA SetShaped ==
    ASSUME TableTypes, NEW c \in Calls, Answered(c, "switch"), Good(c), NEW s \in 1..3,
           \/ view \in {"channels", "tokens"} /\ s = call[c].req.to
           \/ view \in {"users", "redemptions"} /\ s = call[c].data[1].status,
           Show(Set(RowOf(c), s, call[c].seen.rows), call[c].seen.of), Assign(c, RowOf(c), s),
           NEW E, Notes(c, E), Still, knob' = knob
    PROVE  Handled(c)
  <1>. DEFINE k == call[c]
  <1>1. ~Idle(c) /\ k.pc = "answered" /\ k.req.op = "switch" /\ k.answer = "ok"
    BY DEF Answered, Good, Idle
  <1>2. k.seen \in Lists /\ Fresh \in Nat
    BY <1>1, Under, FreshIs
  <1>3. k.seen.rows \in Seq(Row) /\ k.seen.of \in Words
    BY <1>2 DEF Lists
  <1>4. Set(RowOf(c), s, k.seen.rows) \in Seq(Row)
    BY <1>3, SetTypes
  <1>5. list' = [arr |-> Fresh, rows |-> Set(RowOf(c), s, k.seen.rows), of |-> k.seen.of]
    BY DEF Show
  <1>6. list' \in Lists /\ list'.rows = Set(RowOf(c), s, k.seen.rows) /\ list'.of = k.seen.of
    BY <1>2, <1>3, <1>4, <1>5 DEF Lists
  <1>7. Handles(c)
    BY <1>1, HandlesIs DEF Still
  <1>8. ShapeSet(c, s)
    BY <1>1, <1>6, <1>7 DEF ShapeSet, RowOf
  <1>. QED BY <1>8 DEF Handled

LEMMA RemoveShaped ==
    ASSUME TableTypes, NEW c \in Calls, call[c].pc = "answered", NEW P \in SUBSET DOMAIN call[c].seen.rows,
           Show(At(call[c].seen.rows, P), call[c].seen.of), NEW E, Notes(c, E), End(c), Still, knob' = knob,
           Denied(c) \subseteq E,
           \/ /\ call[c].req.op = "delete"
              /\ P = {p \in DOMAIN call[c].seen.rows : call[c].seen.rows[p].id # RowOf(c).id}
           \/ /\ view = "tokens" /\ call[c].req.op = "drop"
              /\ P = {p \in DOMAIN call[c].seen.rows : ~Same(call[c].seen.rows[p], call[c].req.rows)}
              /\ {h \in {"stale"} : \E r \in call[c].req.rows : ~Same(r, ToSet(call[c].seen.rows))} \subseteq E
    PROVE  Handled(c)
  <1>. DEFINE k == call[c]
  <1>1. ~Idle(c)
    BY DEF Idle
  <1>2. k.seen \in Lists /\ Fresh \in Nat
    BY <1>1, Under, FreshIs
  <1>3. k.seen.rows \in Seq(Row) /\ k.seen.of \in Words
    BY <1>2 DEF Lists
  <1>4. At(k.seen.rows, P) \in Seq(Row)
    BY <1>3, AtIs
  <1>5. list' = [arr |-> Fresh, rows |-> At(k.seen.rows, P), of |-> k.seen.of]
    BY DEF Show
  <1>6. list' \in Lists /\ list'.rows = At(k.seen.rows, P) /\ list'.of = k.seen.of
    BY <1>2, <1>3, <1>4, <1>5 DEF Lists
  <1>7. Handles(c) /\ E \subseteq history'
    BY HandlesIs DEF Still
  <1>8. k.answer # "ok" => "denied" \in history'
    BY <1>7 DEF Denied, Good
  <1>9. CASE k.req.op = "delete" /\ P = {p \in DOMAIN k.seen.rows : k.seen.rows[p].id # RowOf(c).id}
    <2>1. ShapeRemove(c)
      BY <1>6, <1>7, <1>8, <1>9 DEF ShapeRemove, RowOf
    <2>. QED BY <2>1 DEF Handled
  <1>10. CASE /\ view = "tokens" /\ k.req.op = "drop"
              /\ P = {p \in DOMAIN k.seen.rows : ~Same(k.seen.rows[p], k.req.rows)}
              /\ {h \in {"stale"} : \E r \in k.req.rows : ~Same(r, ToSet(k.seen.rows))} \subseteq E
    <2>1. (\E r \in k.req.rows : ~Same(r, ToSet(k.seen.rows))) => "stale" \in history'
      BY <1>7, <1>10
    <2>2. ShapeRemove(c)
      BY <1>6, <1>7, <1>8, <1>10, <2>1 DEF ShapeRemove
    <2>. QED BY <2>2 DEF Handled
  <1>. QED BY <1>9, <1>10

\* Rows put behind others.
LEMMA PushedRows ==
    ASSUME NEW old \in Seq(Row), NEW os \in Seq(Row), NEW data, Len(data) \in Nat, Len(os) = Len(data),
           \A j \in 1..Len(data) : Alike(os[j], data[j])
    PROVE  LET rows == old \o os IN
           /\ rows \in Seq(Row) /\ Len(rows) = Len(old) + Len(data)
           /\ \A j \in 1..Len(rows) : Alike(rows[j], Behind(old, Len(old), data, j))
  <1>. DEFINE m == Len(old)
              n == Len(data)
              rows == old \o os
  <1>1. m \in Nat
    BY LenProperties
  <1>2. rows \in Seq(Row) /\ Len(rows) = m + n
    <2>1. old \o os \in Seq(Row) /\ Len(old \o os) = Len(old) + Len(os)
      BY ConcatProperties
    <2>. QED BY <2>1
  <1>3. \A j \in 1..(m + n) : rows[j] = IF j <= m THEN old[j] ELSE os[j - m]
    <2>1. Len(os) = n
      OBVIOUS
    <2>2. \A j \in 1..(Len(old) + Len(os)) : (old \o os)[j] = IF j <= Len(old) THEN old[j] ELSE os[j - Len(old)]
      BY ConcatProperties
    <2>. QED BY <2>1, <2>2
  <1>. HIDE DEF m, n, rows
  <1>5. ASSUME NEW j \in 1..Len(rows)
        PROVE  Alike(rows[j], Behind(old, m, data, j))
    <2>0. n \in Nat /\ j \in 1..(m + n)
      BY <1>2 DEF n
    <2>1. CASE j > m
      <3>1. ~(j <= m) /\ j - m \in 1..n /\ j <= m + n
        BY <1>1, <2>0, <2>1
      <3>2. rows[j] = os[j - m]
        BY <1>3, <2>0, <3>1
      <3>3. Alike(os[j - m], data[j - m])
        BY <3>1 DEF n
      <3>4. Behind(old, m, data, j) = data[j - m]
        BY <2>1, <3>1 DEF Behind, n
      <3>. QED BY <3>2, <3>3, <3>4
    <2>2. CASE ~(j > m)
      <3>1. j <= m
        BY <1>1, <2>0, <2>2
      <3>2. rows[j] = old[j]
        BY <1>3, <2>0, <3>1
      <3>3. Behind(old, m, data, j) = old[j]
        BY <2>2 DEF Behind
      <3>. QED BY <3>2, <3>3 DEF Alike
    <2>. QED BY <2>1, <2>2
  <1>. QED BY <1>2, <1>5 DEF m, n, rows

\* Rows like others put behind others are like some of them.
LEMMA BehindFrom ==
    ASSUME NEW rows \in Seq(Row), NEW old \in Seq(Row), NEW data, Len(data) \in Nat, Len(rows) = Len(old) + Len(data),
           \A j \in 1..Len(rows) : Alike(rows[j], Behind(old, Len(old), data, j)), NEW r \in ToSet(rows)
    PROVE  (\E o \in ToSet(old) : Alike(r, o)) \/ \E j \in 1..Len(data) : Alike(r, data[j])
  <1>1. PICK j \in 1..Len(rows) : rows[j] = r
    BY RowsOfSeq
  <1>2. Len(old) \in Nat
    BY LenProperties
  <1>3. CASE j > Len(old)
    <2>1. j - Len(old) \in 1..Len(data) /\ j <= Len(old) + Len(data)
      BY <1>1, <1>2, <1>3
    <2>2. Behind(old, Len(old), data, j) = data[j - Len(old)]
      BY <1>3, <2>1 DEF Behind
    <2>. QED BY <1>1, <2>1, <2>2
  <1>4. CASE ~(j > Len(old))
    <2>1. j \in 1..Len(old)
      BY <1>1, <1>2, <1>4
    <2>2. Behind(old, Len(old), data, j) = old[j]
      BY <1>4 DEF Behind
    <2>. QED BY <1>1, <2>1, <2>2, RowsOfSeq
  <1>. QED BY <1>3, <1>4

\* The rows of a later page of the users or of the codes are put behind those
\* of the array that the closure held, for everyone who holds it.
LEMMA PushShaped ==
    ASSUME TableTypes, NEW c \in Calls, Answered(c, "load"), Good(c), view \in {"users", "redemptions"},
           call[c].req.page > 0, Pushed(c), Still, knob' = knob, NEW E, Notes(c, E), Misfits(c, ItemsPerPage) \subseteq E,
           NEW at, at = call[c].req.page * call[c].req.size, Len(call[c].seen.rows) > at => "pushed" \in E
    PROVE  Handled(c)
  <1>. DEFINE k == call[c]
              n == ItemsPerPage
              os == Objects(k.data)
              rows == k.seen.rows \o os
  <1>1. ~Idle(c) /\ k.pc = "answered" /\ k.req.op = "load" /\ k.answer = "ok"
    BY DEF Answered, Good, Idle
  <1>2. k \in Actives /\ k.seen \in Lists /\ k.seen.rows \in Seq(Row) /\ k.seen.of \in Words
    <2>1. k \in Actives /\ k.seen \in Lists
      BY <1>1, Under
    <2>. QED BY <2>1 DEF Lists
  <1>3. k.req.size = n /\ n \in Nat
    <2>1. view \in Even
      BY DEF Even
    <2>. QED BY <2>1, LoadSize
  <1>4. k.req.page \in Nat
    BY <1>2 DEF Actives, Requests
  <1>5. /\ os \in Seq(Row) /\ Len(os) = Len(k.data) /\ Len(k.data) \in Nat
        /\ \A j \in 1..Len(k.data) : Alike(os[j], k.data[j])
    BY <1>1, PlacedIs
  <1>6. Handles(c) /\ E \subseteq history'
    BY <1>1, HandlesIs DEF Still
  <1>. HIDE DEF os
  <1>7. /\ rows \in Seq(Row) /\ Len(rows) = Len(k.seen.rows) + Len(k.data)
        /\ \A r \in ToSet(rows) :
              (\E o \in ToSet(k.seen.rows) : Alike(r, o)) \/ \E j \in 1..Len(k.data) : Alike(r, k.data[j])
        /\ \A j \in 1..Len(rows) : Alike(rows[j], Behind(k.seen.rows, Len(k.seen.rows), k.data, j))
    <2>. DEFINE old == k.seen.rows
                data == k.data
    <2>1. /\ old \in Seq(Row) /\ os \in Seq(Row) /\ Len(data) \in Nat /\ Len(os) = Len(data)
          /\ \A j \in 1..Len(data) : Alike(os[j], data[j])
      BY <1>2, <1>5
    <2>. HIDE DEF old, data
    <2>3. /\ rows \in Seq(Row) /\ Len(rows) = Len(old) + Len(data)
          /\ \A j \in 1..Len(rows) : Alike(rows[j], Behind(old, Len(old), data, j))
      BY <2>1, PushedRows DEF old
    <2>. HIDE DEF rows
    <2>4. \A r \in ToSet(rows) : (\E o \in ToSet(old) : Alike(r, o)) \/ \E j \in 1..Len(data) : Alike(r, data[j])
      BY <2>1, <2>3, BehindFrom
    <2>. QED BY <2>3, <2>4 DEF old, data
  <1>. HIDE DEF rows
  <1>8. list' = [k.seen EXCEPT !.rows = rows]
    BY DEF Pushed, rows, os
  <1>9. list' \in Lists /\ list'.rows = rows /\ list'.of = k.seen.of
    BY <1>2, <1>7, <1>8 DEF Lists
  <1>10. /\ call' = [d \in Calls |-> call'[d]]
         /\ \A d \in Calls : call'[d] = IF d = c \/ Idle(d) THEN NoCall
                                        ELSE IF call[d].seen.arr = k.seen.arr THEN [call[d] EXCEPT !.seen.rows = rows]
                                        ELSE call[d]
    BY DEF Pushed, rows, os
  <1>11. ASSUME NEW d \in Calls, d # c, ~Idle(d)
         PROVE  /\ \E l \in Lists : call'[d] = [call[d] EXCEPT !.seen = l]
                /\ call'[d].seen.rows \in {call[d].seen.rows, rows}
    <2>1. call[d] \in Actives /\ call[d].seen \in Lists
      BY <1>11, Under
    <2>. DEFINE l == [call[d].seen EXCEPT !.rows = rows]
    <2>2. l \in Lists /\ l.rows = rows
      BY <1>7, <2>1 DEF Lists
    <2>3. CASE call[d].seen.arr = k.seen.arr
      <3>1. call'[d] = [call[d] EXCEPT !.seen = l]
        BY <1>10, <1>11, <2>3
      <3>. HIDE DEF l
      <3>2. call'[d].seen = l
        BY <2>1, <2>2, <3>1 DEF Actives
      <3>. QED BY <2>2, <3>1, <3>2
    <2>4. CASE call[d].seen.arr # k.seen.arr
      <3>1. call'[d] = call[d]
        BY <1>10, <1>11, <2>4
      <3>2. call[d] = [call[d] EXCEPT !.seen = call[d].seen]
        BY <2>1 DEF Actives
      <3>. QED BY <2>1, <3>1, <3>2
    <2>. QED BY <2>3, <2>4
  <1>12. Others(c)
    <2>1. \A d \in Calls : d = c \/ Idle(d) => call'[d] = NoCall
      BY <1>10
    <2>. QED BY <1>10, <1>11, <2>1 DEF Others
  <1>14. /\ Len(k.seen.rows) < at => "gap" \in history'
         /\ k.req.query # k.seen.of => "mixed" \in history'
         /\ Len(k.seen.rows) > at => "pushed" \in history'
    BY <1>3, <1>6 DEF Misfits
  <1>16. \A d \in Calls : d # c /\ ~Idle(d) => call'[d].seen.rows \in {call[d].seen.rows, rows}
    BY <1>11
  <1>15. at = Len(k.seen.rows) =>
            /\ Len(rows) = IF at + Len(k.data) < Len(k.seen.rows) THEN Len(k.seen.rows) ELSE at + Len(k.data)
            /\ \A j \in 1..Len(rows) : Alike(rows[j], Behind(k.seen.rows, at, k.data, j))
    <2>. DEFINE m == Len(k.seen.rows)
                l == Len(k.data)
    <2>1. m \in Nat /\ l \in Nat /\ Len(rows) = m + l
      <3>1. m \in Nat
        BY <1>2, LenProperties
      <3>. QED BY <1>5, <1>7, <3>1
    <2>2. Len(rows) = IF m + l < m THEN m ELSE m + l
      <3>. HIDE DEF m, l
      <3>. QED BY <2>1
    <2>. QED BY <1>7, <2>2
  <1>17. ShapeSplice(c)
    BY <1>1, <1>6, <1>7, <1>9, <1>12, <1>14, <1>15, <1>16 DEF ShapeSplice
  <1>. QED BY <1>17 DEF Handled

-----------------------------------------------------------------------------
(* The channels                                                            *)

\* A row of the page, switched or deleted.
LEMMA ControlShaped ==
    ASSUME TableTypes, NEW c \in Calls, NEW r \in ToSet(list.rows), NEW q, NEW F \in SUBSET Flags, Sends(c, q, F),
           {"switch", "delete"} \subseteq Ops(view),
           \/ q = Delete(r)
           \/ q = Switch(r, IF r.status = 1 THEN 2 ELSE 1) /\ (view \in {"users", "redemptions"} => r.status # 3)
           \/ q = Rank(r) /\ view \in {"tokens", "users"},
           F = IF view = "tokens" THEN {"loading"} ELSE {}
    PROVE  Shaped
  <1>1. Fits(view, q)
    <2>1. 1 \in 0..3 /\ 2 \in 0..3 /\ {} \in SUBSET Row /\ r \in Row
      <3>1. list.rows \in Seq(Row)
        BY DEF TableTypes, Lists
      <3>2. r \in Row
        BY <3>1, RowsOfSeq
      <3>. QED BY <3>2
    <2>2. Fits(view, Switch(r, 1)) /\ Fits(view, Switch(r, 2)) /\ Fits(view, Delete(r))
      BY <2>1, Changeable
    <2>3. view \in {"tokens", "users"} => Fits(view, Rank(r))
      BY <2>1, Changeable
    <2>. QED BY <2>2, <2>3
  <1>2. Rowed(q)
    BY RowRowed
  <1>3. q.op \in {"switch", "delete"}
    BY DEF Switch, Delete, Rank, Load
  <1>4. F \subseteq Clears(view, q)
    BY <1>3 DEF Clears
  <1>. QED BY <1>1, <1>2, <1>4, SendsShaped

\* Requests that are about no row.
LEMMA ReadShaped ==
    ASSUME TableTypes, NEW c \in Calls, NEW q, Fits(view, q), q.op \in Reads \cup {"drop", "copy", "purge"},
           NEW F \in SUBSET Flags, F \subseteq Clears(view, q), Sends(c, q, F)
    PROVE  Shaped
  BY ReadRowed, SendsShaped

LEMMA AboutOpen ==
    ASSUME TableTypes
    PROVE  /\ pager \in Pagers /\ search \in Forms /\ spin \subseteq Flags /\ pager.size \in Sizes
           /\ pager.page - 1 \in Nat /\ pager.page \in Nat \ {0} /\ search.word \in Words /\ list.rows \in Seq(Row)
           /\ search.word \in {"", "key"} /\ picked \subseteq Row /\ pager.size \in Nat
  <1>1. pager \in Pagers /\ search \in Forms /\ list \in Lists /\ spin \subseteq Flags /\ picked \subseteq Row
    BY DEF TableTypes
  <1>2. pager.page \in Nat \ {0} /\ pager.size \in Sizes
    BY <1>1 DEF Pagers
  <1>3. search.word \in {"", "key"}
    BY <1>1 DEF Forms
  <1>4. pager.page - 1 \in Nat
    BY <1>2
  <1>7. pager.size \in Nat
    BY <1>2, SizesAssumption
  <1>5. list.rows \in Seq(Row)
    BY <1>1 DEF Lists
  <1>6. search.word \in Words
    BY <1>3 DEF Words
  <1>. QED BY <1>1, <1>2, <1>3, <1>4, <1>5, <1>6, <1>7

LEMMA ChannelSends ==
    ASSUME TableTypes, view = "channels",
           ChannelManage \/ ChannelRefresh \/ ChannelTurn \/ ChannelResize \/ ChannelSearch \/ ChannelReset
             \/ ChannelPick \/ ChannelBatch \/ ChannelPurge
    PROVE  Shaped
  <1>0. /\ Ops(view) = {"load", "search", "switch", "delete", "drop", "copy", "purge"}
        /\ view \notin Even
    BY DEF Ops, Even
  <1>1. ToSet(ChannelRows) \subseteq ToSet(list.rows) /\ ToSet(ChannelRows) \subseteq Row /\ IsFiniteSet(ToSet(ChannelRows))
    BY AboutOpen, SliceIs, RowsOfSeq DEF ChannelRows
  <1>2. CASE ChannelManage
    <2>0. PICK c \in Calls, r \in ToSet(ChannelRows) : \E q \in ChannelControls(r) : Sends(c, q, {})
      BY <1>2 DEF ChannelManage
    <2>1. PICK q \in ChannelControls(r) : Sends(c, q, {})
      BY <2>0
    <2>2. r \in ToSet(list.rows) /\ r \in Row
      BY <1>1
    <2>3. q = Switch(r, IF r.status = 1 THEN 2 ELSE 1) \/ q = Delete(r)
      BY DEF ChannelControls
    <2>. QED BY <1>0, <2>1, <2>2, <2>3, ControlShaped
  <1>3. CASE ChannelRefresh
    <2>1. PICK c \in Calls : Sends(c, Load(pager.page - 1, pager.size), {"loading"})
      BY <1>3 DEF ChannelRefresh
    <2>. DEFINE q == Load(pager.page - 1, pager.size)
    <2>2. Fits(view, q)
      BY <1>0, AboutOpen, Loadable
    <2>3. q.op = "load"
      BY DEF Load
    <2>. HIDE DEF q
    <2>4. {"loading"} \subseteq Clears(view, q)
      BY <2>3 DEF Clears
    <2>. QED BY <2>1, <2>2, <2>3, <2>4, ReadShaped DEF q, Reads, Flags
  <1>4. CASE ChannelTurn
    <2>1. TurnPage("", pager.size, {"loading"})
      BY <1>4 DEF ChannelTurn
    <2>2. "" \in Words /\ "load" \in Ops(view)
      BY <1>0 DEF Words
    <2>. QED BY <1>0, <2>1, <2>2, AboutOpen, TurnShaped
  <1>5. CASE ChannelResize
    <2>1. PICK n \in Sizes \ {pager.size} :
             /\ pager' = [pager EXCEPT !.size = n, !.page = 1]
             /\ \E c, d \in Calls : AskTwo(c, d, Load(0, n), Load(0, n), pager')
      BY <1>5 DEF ChannelResize
    <2>2. pager' \in Pagers
      <3>1. pager' = [pager EXCEPT !.size = n, !.page = 1] /\ pager \in Pagers
        BY <2>1, AboutOpen
      <3>2. 1 \in Nat \ {0}
        OBVIOUS
      <3>. QED BY <3>1, <3>2, PagerIs
    <2>3. Fits(view, Load(0, n)) /\ Load(0, n).op = "load" /\ Load(0, n).page = 0
      <3>1. Fits(view, Load(0, n))
        BY <1>0, AboutOpen, Loadable
      <3>. QED BY <3>1 DEF Load
    <2>4. {"loading"} \subseteq Clears(view, Load(0, n))
      BY <2>3 DEF Clears
    <2>5. spin' = spin \cup {"loading"} /\ UNCHANGED <<view, db, list, search, picked, knob>>
      BY <1>5 DEF ChannelResize
    <2>6. PICK c, d \in Calls : AskTwo(c, d, Load(0, n), Load(0, n), pager')
      BY <2>1
    <2>7. Load(0, n).op \in Reads /\ search' \in Forms
      BY <2>3, <2>5, AboutOpen DEF Reads
    <2>8. spin' \subseteq Flags /\ spin' \subseteq spin \cup Clears(view, Load(0, n)) \cup Clears(view, Load(0, n))
      BY <2>4, <2>5, AboutOpen DEF Flags
    <2>. QED BY <2>2, <2>3, <2>5, <2>6, <2>7, <2>8, AskTwoShaped
  <1>6. CASE ChannelSearch
    <2>1. PICK c \in Calls, q \in {"", "key"} :
             /\ Starts(c, Search(q), {"searching"})
             /\ search' = [search EXCEPT !.word = q, !.filtering = q # ""]
      BY <1>6 DEF ChannelSearch
    <2>2. UNCHANGED <<view, db, list, pager, picked, knob>>
      BY <1>6 DEF ChannelSearch
    <2>3. search' \in Forms
      BY <2>1, AboutOpen DEF Forms
    <2>4. Fits(view, Search(q)) /\ Search(q).op = "search"
      <3>1. q \in Words /\ 0 \in Nat
        BY DEF Words
      <3>2. Fits(view, Search(q))
        BY <1>0, <3>1, Searchable
      <3>. QED BY <3>2 DEF Search, Load
    <2>5. {"searching"} \subseteq Clears(view, Search(q))
      BY <2>4 DEF Clears
    <2>6. AskBy(c, Search(q), pager, search) /\ spin' = spin \cup {"searching"}
      BY <2>1 DEF Starts, Ask
    <2>7. spin' \subseteq Flags /\ spin' \subseteq spin \cup Clears(view, Search(q)) /\ Search(q).op \in Reads
      BY <2>4, <2>5, <2>6, AboutOpen DEF Flags, Reads
    <2>. QED BY <2>2, <2>3, <2>4, <2>6, <2>7, AboutOpen, StartsShaped
  <1>7. CASE ChannelReset
    <2>. DEFINE q == Search("")
                o == Load(pager.page - 1, pager.size)
    <2>1. PICK c, d \in Calls : AskTwo(c, d, q, o, pager)
      BY <1>7 DEF ChannelReset
    <2>2. /\ search' = [search EXCEPT !.word = "", !.filtering = FALSE]
          /\ spin' = spin \cup {"loading", "searching"} /\ UNCHANGED <<view, db, list, pager, picked, knob>>
      BY <1>7 DEF ChannelReset
    <2>3. search' \in Forms
      BY <2>2, AboutOpen DEF Forms
    <2>4. Fits(view, q) /\ Fits(view, o) /\ q.op = "search" /\ o.op = "load" /\ q.page = 0
      <3>1. "" \in Words /\ 0 \in Nat
        BY DEF Words
      <3>2. Fits(view, q)
        BY <1>0, <3>1, Searchable
      <3>3. Fits(view, o)
        BY <1>0, AboutOpen, Loadable
      <3>. QED BY <3>2, <3>3 DEF Search, Load
    <2>. HIDE DEF q, o
    <2>5. {"loading", "searching"} \subseteq Clears(view, q) \cup Clears(view, o)
      BY <2>4 DEF Clears
    <2>6. q.op \in Reads /\ o.op \in Reads /\ pager' \in Pagers /\ pager \in Pagers
      BY <2>2, <2>4, AboutOpen DEF Reads
    <2>7. spin' \subseteq Flags /\ spin' \subseteq spin \cup Clears(view, q) \cup Clears(view, o)
      BY <2>2, <2>5, AboutOpen DEF Flags
    <2>. QED BY <2>1, <2>2, <2>3, <2>4, <2>6, <2>7, AskTwoShaped
  <1>8. CASE ChannelPick
    <2>1. PICK S \in SUBSET Keys(ToSet(ChannelRows)) : Pick(S)
      BY <1>8 DEF ChannelPick
    <2>2. Keys(ToSet(ChannelRows)) \subseteq Row /\ IsFiniteSet(Keys(ToSet(ChannelRows)))
      BY AboutOpen, SliceIs, RowsOfSeq DEF ChannelRows
    <2>3. S \in SUBSET Row /\ IsFiniteSet(S)
      BY <2>2, FS_Subset
    <2>. QED BY <2>1, <2>3, PickShaped
  <1>9. CASE ChannelBatch
    <2>1. PICK c \in Calls, q \in ChannelSelected : Sends(c, q, {})
      BY <1>9 DEF ChannelBatch
    <2>2. q = Drop(picked) \/ \E r \in ToSet(list.rows) : q = Copy(r)
      BY DEF ChannelSelected
    <2>3. Fits(view, q)
      <3>1. CASE q = Drop(picked)
        <4>. DEFINE D == Drop(picked)
        <4>1. D \in Requests /\ D.op = "drop" /\ D.to = 0
          <5>1. picked \in SUBSET Row /\ "" \in Words
            BY AboutOpen DEF Words
          <5>. QED BY <5>1 DEF Drop, Load, Requests
        <4>. HIDE DEF D
        <4>2. Fits(view, D)
          BY <1>0, <4>1 DEF Fits
        <4>. QED BY <3>1, <4>2 DEF D
      <3>2. CASE \E r \in ToSet(list.rows) : q = Copy(r)
        <4>1. PICK r \in ToSet(list.rows) : q = Copy(r)
          BY <3>2
        <4>2. r \in Row /\ 0 \in 0..3 /\ {} \in SUBSET Row
          <5>1. list.rows \in Seq(Row)
            BY AboutOpen
          <5>2. r \in Row
            BY <5>1, RowsOfSeq
          <5>. QED BY <5>2
        <4>. QED BY <1>0, <4>1, <4>2, Changeable
      <3>. QED BY <2>2, <3>1, <3>2
    <2>4. q.op \in {"drop", "copy"}
      BY <2>2 DEF Drop, Copy, Load
    <2>. QED BY <2>1, <2>3, <2>4, ReadShaped
  <1>10. CASE ChannelPurge
    <2>1. PICK c \in Calls : Sends(c, Purge, {})
      BY <1>10 DEF ChannelPurge
    <2>2. Purge \in Requests /\ Purge.op = "purge"
      BY DEF Purge, Load, Requests, Words
    <2>3. Fits(view, Purge)
      BY <1>0, <2>2 DEF Fits
    <2>. QED BY <2>1, <2>2, <2>3, ReadShaped
  <1>. QED BY <1>2, <1>3, <1>4, <1>5, <1>6, <1>7, <1>8, <1>9, <1>10

\* An answer to a search, of a view that tells the pager as it likes.
LEMMA SearchedShaped ==
    ASSUME TableTypes, NEW c \in Calls, Answered(c, "search"), view \notin {"mine", "minewd"},
           IF Good(c) THEN Show(Objects(call[c].data), call[c].req.query) ELSE UNCHANGED list,
           spin' = spin \ {"searching"}, End(c), Notes(c, {}), Still, UNCHANGED <<search, knob>>,
           pager' \in Pagers, picked' \in {picked, {}}
    PROVE  Shaped
  <1>1. call[c].pc = "answered" /\ call[c].req.op = "search" /\ search' \in Forms /\ spin \subseteq Flags /\ view' = view
    BY AboutOpen DEF Answered, Still
  <1>2. Clears(view, call[c].req) = {"searching"}
    BY <1>1 DEF Clears
  <1>3. Spun(c) /\ spin' \subseteq spin /\ spin' \cap Clears(view, call[c].req) = {}
    BY <1>2 DEF Spun
  <1>4. CASE Good(c)
    <2>1. Handled(c)
      BY <1>4, SearchShaped
    <2>. QED BY <1>1, <1>3, <2>1, HandledShaped
  <1>5. CASE ~Good(c)
    <2>1. call[c].answer # "ok" /\ list' = list
      BY <1>5 DEF Good
    <2>. QED BY <1>1, <1>3, <2>1, EndShaped
  <1>. QED BY <1>4, <1>5

LEMMA AnswerTypes ==
    ASSUME TableTypes, NEW c \in Calls, ~Idle(c)
    PROVE  /\ call[c] \in Actives /\ Fits(view, call[c].req) /\ call[c].answer \in {"ok", "refused", "broken"}
           /\ call[c].pager \in Pagers /\ call[c].pager.size \in Sizes /\ call[c].pager.page - 1 \in Nat
           /\ call[c].pager.page \in Nat \ {0} /\ call[c].pager.size \in Nat /\ call[c].search \in Forms
           /\ call[c].seen.rows \in Seq(Row) /\ call[c].req.page \in Nat /\ call[c].req.query \in Words
           /\ call[c].total \in Nat /\ call[c].no \in Nat /\ call[c].search.word \in Words
  <1>1. call[c] \in Actives /\ Fits(view, call[c].req)
    BY Under
  <1>2. /\ call[c].answer \in {"ok", "refused", "broken"} /\ call[c].pager \in Pagers /\ call[c].search \in Forms
        /\ call[c].seen \in Lists /\ call[c].req \in Requests /\ call[c].total \in Nat /\ call[c].no \in Nat
    BY <1>1 DEF Actives
  <1>3. call[c].pager.size \in Sizes /\ call[c].pager.page \in Nat \ {0}
    BY <1>2 DEF Pagers
  <1>4. call[c].pager.page - 1 \in Nat
    BY <1>3
  <1>5. call[c].pager.size \in Nat
    BY <1>3, SizesAssumption
  <1>6. call[c].seen.rows \in Seq(Row) /\ call[c].req.page \in Nat /\ call[c].req.query \in Words
    BY <1>2 DEF Lists, Requests
  <1>7. call[c].search.word \in Words
    BY <1>2 DEF Forms, Words
  <1>. QED BY <1>1, <1>2, <1>3, <1>4, <1>5, <1>6, <1>7

\* The counts of AnotherPage and OneMore.
LEMMA CountIs ==
    ASSUME NEW n \in Nat, NEW w \in Nat
    PROVE  AnotherPage(n, w) \in Nat
  BY DEF AnotherPage

\* The answer to a deletion, whatever it is.
LEMMA DeletedShaped ==
    ASSUME TableTypes, NEW c \in Calls, Answered(c, "delete"),
           Show(Without(call[c].seen.rows, RowOf(c).id), call[c].seen.of),
           NEW E, Notes(c, E), Denied(c) \subseteq E, End(c), Still, UNCHANGED <<search, picked, knob>>,
           pager' \in Pagers, spin' = spin \ Clears(view, call[c].req)
    PROVE  Shaped
  <1>. DEFINE P == {p \in DOMAIN call[c].seen.rows : call[c].seen.rows[p].id # RowOf(c).id}
  <1>1. Show(At(call[c].seen.rows, P), call[c].seen.of) /\ P \in SUBSET DOMAIN call[c].seen.rows
    BY DEF Without
  <1>2. call[c].pc = "answered" /\ call[c].req.op = "delete"
    BY DEF Answered
  <1>3. Handled(c)
    <2>1. P = {p \in DOMAIN call[c].seen.rows : call[c].seen.rows[p].id # RowOf(c).id}
      OBVIOUS
    <2>. HIDE DEF P
    <2>. QED BY <1>1, <1>2, <2>1, RemoveShaped
  <1>4. Spun(c)
    BY DEF Spun
  <1>5. view' = view /\ search' \in Forms /\ spin' \subseteq Flags /\ picked' \in {picked, {}}
    BY AboutOpen DEF Still
  <1>. QED BY <1>3, <1>4, <1>5, HandledShaped

LEMMA ChannelLoads ==
    ASSUME TableTypes, view = "channels", NEW c \in Calls, ChannelLoaded(c)
    PROVE  Shaped
  <1>. DEFINE n == call[c].req.size
              rows == Placed(c, n)
  <1>1. Answered(c, "load") /\ ~Broken(c) /\ spin' = spin \ {"loading"} /\ End(c) /\ Still /\ UNCHANGED <<search, picked, knob>>
    BY DEF ChannelLoaded
  <1>2. ~Idle(c) /\ n \in Nat /\ call[c].pc = "answered" /\ call[c].req.op = "load"
    BY <1>1, LoadSize DEF Answered
  <1>3. rows \in Seq(Row) /\ Len(rows) \in Nat
    BY <1>2, PlacedIs
  <1>4. search' \in Forms /\ spin \subseteq Flags /\ pager \in Pagers /\ view' = view
    BY <1>1, AboutOpen DEF Still
  <1>5. Spun(c) /\ spin' \subseteq spin /\ spin' \cap Clears(view, call[c].req) = {}
    BY <1>1, <1>2 DEF Spun, Clears
  <1>6. CASE Refused(c)
    <2>1. UNCHANGED <<list, pager>> /\ Notes(c, {})
      BY <1>6 DEF ChannelLoaded
    <2>2. call[c].answer # "ok"
      BY <1>6 DEF Refused
    <2>. QED BY <1>1, <1>2, <1>4, <1>5, <2>1, <2>2, EndShaped
  <1>7. CASE ~Refused(c)
    <2>1. /\ Show(Renewed(rows), Of(c)) /\ Notes(c, Misfits(c, n))
          /\ pager' = [pager EXCEPT !.count = AnotherPage(Len(rows), call[c].pager.size)]
      BY <1>7 DEF ChannelLoaded
    <2>2. Good(c)
      BY <1>1, <1>2, <1>7, AnswerTypes DEF Good, Broken, Refused
    <2>3. pager' \in Pagers
      <3>1. call[c].pager.size \in Nat
        BY <1>2, AnswerTypes
      <3>2. AnotherPage(Len(rows), call[c].pager.size) \in Nat
        BY <1>3, <3>1, CountIs
      <3>. HIDE DEF rows
      <3>. QED BY <1>4, <2>1, <3>2 DEF Pagers
    <2>. HIDE DEF rows
    <2>4. Renewed(rows) \in Seq(Row) /\ Len(Renewed(rows)) = Len(rows) /\ \A j \in 1..Len(rows) : Alike(Renewed(rows)[j], rows[j])
      BY <1>3, FreshIs, RenewedAre
    <2>5. Handled(c)
      <3>1. \A j \in 1..Len(Renewed(rows)) : Alike(Renewed(rows)[j], rows[j])
        BY <2>4
      <3>. QED BY <1>1, <2>1, <2>2, <2>4, <3>1, PlacedShaped DEF rows
    <2>. QED BY <1>1, <1>4, <1>5, <2>3, <2>5, HandledShaped
  <1>. QED BY <1>6, <1>7

LEMMA ChannelManages ==
    ASSUME TableTypes, view = "channels", NEW c \in Calls, ChannelManaged(c)
    PROVE  Shaped
  <1>1. Still /\ UNCHANGED <<pager, search, spin, picked, knob>>
    BY DEF ChannelManaged
  <1>2. view' = view /\ pager' \in Pagers /\ search' \in Forms /\ spin' \subseteq Flags /\ picked' \in {picked, {}}
    BY <1>1, AboutOpen DEF Still
  <1>3. ASSUME call[c].req.op \in {"switch", "delete"}
        PROVE  Clears(view, call[c].req) = {} /\ Spun(c)
    BY <1>1, <1>3 DEF Clears, Spun
  <1>4. CASE /\ Answered(c, "switch") /\ Good(c)
             /\ Show(Set(RowOf(c), call[c].req.to, call[c].seen.rows), call[c].seen.of)
             /\ Assign(c, RowOf(c), call[c].req.to) /\ Notes(c, {})
    <2>1. call[c].req.op = "switch" /\ ~Idle(c)
      BY <1>4 DEF Answered, Idle
    <2>2. call[c].req.to \in 1..3
      <3>1. Fits(view, call[c].req)
        BY <2>1, Under
      <3>2. call[c].req.to \in 0..3 /\ (call[c].req.to = 0 => view \in {"tokens", "users"})
        BY <2>1, <3>1, FitsSwitch
      <3>. QED BY <3>2
    <2>3. Handled(c)
      BY <1>1, <1>4, <2>2, SetShaped
    <2>. QED BY <1>1, <1>2, <1>3, <2>1, <2>3, HandledShaped
  <1>5. CASE Answered(c, "switch") /\ Refused(c) /\ End(c) /\ Notes(c, {}) /\ UNCHANGED list
    <2>1. call[c].pc = "answered" /\ call[c].req.op = "switch" /\ call[c].answer # "ok"
      BY <1>5 DEF Answered, Refused
    <2>2. spin' \subseteq spin /\ spin' \cap Clears(view, call[c].req) = {}
      BY <1>1, <1>3, <2>1
    <2>. QED BY <1>1, <1>2, <1>5, <2>1, <2>2, EndShaped
  <1>6. CASE /\ Answered(c, "delete") /\ ~Broken(c)
             /\ Show(Without(call[c].seen.rows, RowOf(c).id), call[c].seen.of)
             /\ End(c) /\ Notes(c, {"deleted"} \cup Denied(c))
    <2>1. spin' = spin \ Clears(view, call[c].req)
      BY <1>1, <1>3, <1>6 DEF Answered
    <2>2. Denied(c) \subseteq {"deleted"} \cup Denied(c)
      OBVIOUS
    <2>. QED BY <1>1, <1>2, <1>6, <2>1, <2>2, DeletedShaped
  <1>. QED BY <1>4, <1>5, <1>6 DEF ChannelManaged

LEMMA ChannelFinds ==
    ASSUME TableTypes, view = "channels", NEW c \in Calls, ChannelSearched(c)
    PROVE  Shaped
  <1>. DEFINE rows == Objects(call[c].data)
              m == IF call[c].search.filtering THEN AnotherPage(Len(rows), call[c].pager.size) ELSE Len(rows)
  <1>1. /\ Answered(c, "search") /\ ~Broken(c) /\ spin' = spin \ {"searching"} /\ End(c) /\ Notes(c, {}) /\ Still
        /\ UNCHANGED <<search, knob>>
    BY DEF ChannelSearched
  <1>2. ~Idle(c)
    BY <1>1 DEF Answered, Idle
  <1>3. m \in Nat
    <2>1. Len(rows) \in Nat /\ call[c].pager.size \in Nat
      <3>1. Len(rows) \in Nat
        BY <1>2, LoadSize, PlacedIs, SizesAssumption, AboutOpen
      <3>. QED BY <1>2, <3>1, AnswerTypes
    <2>. HIDE DEF rows
    <2>. QED BY <2>1, CountIs
  <1>4. CASE Refused(c)
    <2>1. UNCHANGED <<list, pager, picked>> /\ ~Good(c)
      BY <1>4 DEF ChannelSearched, Refused, Good
    <2>. QED BY <1>1, <2>1, AboutOpen, SearchedShaped
  <1>5. CASE ~Refused(c)
    <2>1. Show(rows, call[c].req.query) /\ pager' = [pager EXCEPT !.count = m] /\ picked' = {}
      BY <1>5 DEF ChannelSearched
    <2>2. Good(c)
      BY <1>1, <1>2, <1>5, AnswerTypes DEF Good, Broken, Refused
    <2>. HIDE DEF m
    <2>3. pager' \in Pagers
      BY <1>3, <2>1, AboutOpen, PagerIs
    <2>. QED BY <1>1, <2>1, <2>2, <2>3, SearchedShaped
  <1>. QED BY <1>4, <1>5

\* A function that goes on with a load, after rows were deleted or changed.
LEMMA OnwardShaped ==
    ASSUME TableTypes, NEW c \in Calls, call[c].pc = "answered", NEW q, Fits(view, q), q.op = "load", GoOn(c, q),
           NEW E, Notes(c, E), Still, UNCHANGED <<list, search, knob>>, pager' \in Pagers, picked' \in {picked, {}},
           spin' \subseteq spin \cup {"loading"}, Clears(view, call[c].req) \subseteq {"loading"},
           q.page = 0 \/ q.page = call[c].pager.page - 1,
           \/ call[c].req.op = "drop" /\ view # "tokens" /\ (view = "mine" => q.page = 0)
           \/ call[c].req.op = "purge" /\ view = "topups" /\ q.page = 0
           \/ call[c].answer = "ok" /\ view = "channels" /\ call[c].req.op = "copy"
           \/ call[c].answer = "ok" /\ view = "mine" /\ call[c].req.op = "delete" /\ q.page = 0
           \/ call[c].answer = "ok" /\ view = "withdrawals" /\ call[c].req.op = "switch" /\ q.page = 0
           \/ /\ call[c].answer = "ok" /\ view = "tokens" /\ call[c].req.op = "switch" /\ call[c].req.to = 0
              /\ {h \in {"clash"} : \E d \in Calls \ {c} : ~Idle(d)} \subseteq E
    PROVE  Shaped
  <1>1. Handles(c) /\ E \subseteq history'
    BY HandlesIs DEF Still
  <1>2. q \in Requests /\ ~Idle(c)
    BY DEF Fits, Idle
  <1>3. Spun(c) /\ spin' \subseteq Flags
    BY <1>2, OnwardSpun
  <1>4. {h \in {"clash"} : \E d \in Calls \ {c} : ~Idle(d)} \subseteq E => ((\E d \in Calls \ {c} : ~Idle(d)) => "clash" \in history')
    BY <1>1
  <1>5. ShapeGoOn(c)
    BY <1>1, <1>2, <1>4 DEF ShapeGoOn
  <1>6. Handled(c)
    BY <1>5 DEF Handled
  <1>7. view' = view /\ search' \in Forms
    BY AboutOpen DEF Still
  <1>. QED BY <1>3, <1>6, <1>7, HandledShaped

\* The load of the page that was open in the closure.
LEMMA PageAgain ==
    ASSUME TableTypes, NEW c \in Calls, ~Idle(c), "load" \in Ops(view), NEW n \in Sizes, view \in Even => n = ItemsPerPage
    PROVE  LET q == Load(call[c].pager.page - 1, n)
           IN  Fits(view, q) /\ q.op = "load" /\ q.page = call[c].pager.page - 1
  <1>1. call[c].pager.page - 1 \in Nat /\ "" \in Words /\ 0 \in Nat
    BY AnswerTypes DEF Words
  <1>2. Fits(view, Load(call[c].pager.page - 1, n))
    BY <1>1, Loadable
  <1>. QED BY <1>2 DEF Load

LEMMA ChannelGoesOn ==
    ASSUME TableTypes, view = "channels", NEW c \in Calls, ChannelDropped(c) \/ ChannelCopied(c) \/ ChannelPurged(c)
    PROVE  Shaped
  <1>0. "load" \in Ops(view) /\ view \notin Even
    BY DEF Ops, Even
  <1>1. ASSUME ~Idle(c), call[c].pc = "answered", Refreshes(c), NEW E, Notes(c, E), Still,
               UNCHANGED <<list, pager, search, knob>>, picked' \in {picked, {}},
               \/ call[c].req.op = "drop"
               \/ call[c].answer = "ok" /\ call[c].req.op = "copy"
        PROVE  Shaped
    <2>. DEFINE q == Load(call[c].pager.page - 1, call[c].pager.size)
    <2>1. GoOn(c, q) /\ spin' = spin \cup {"loading"}
      BY <1>1 DEF Refreshes
    <2>2. Fits(view, q) /\ q.op = "load" /\ q.page = call[c].pager.page - 1
      <3>1. call[c].pager.size \in Sizes
        BY <1>1, AnswerTypes
      <3>. QED BY <1>0, <1>1, <3>1, PageAgain
    <2>. HIDE DEF q
    <2>3. Clears(view, call[c].req) \subseteq {"loading"}
      BY <1>1 DEF Clears
    <2>4. pager' \in Pagers
      BY <1>1, AboutOpen
    <2>. QED BY <1>1, <2>1, <2>2, <2>3, <2>4, OnwardShaped
  <1>2. CASE ChannelDropped(c)
    <2>1. /\ call[c].pc = "answered" /\ call[c].req.op = "drop" /\ picked' = {} /\ Refreshes(c) /\ Notes(c, {"deleted"})
          /\ Still /\ UNCHANGED <<list, pager, search, knob>>
      BY <1>2 DEF ChannelDropped, Answered
    <2>2. ~Idle(c)
      BY <2>1 DEF Idle
    <2>. QED BY <1>1, <2>1, <2>2
  <1>3. CASE ChannelCopied(c)
    <2>1. /\ call[c].pc = "answered" /\ call[c].req.op = "copy" /\ ~Broken(c) /\ Notes(c, {})
          /\ Still /\ UNCHANGED <<list, pager, search, picked, knob>>
      BY <1>3 DEF ChannelCopied, Answered
    <2>2. ~Idle(c)
      BY <2>1 DEF Idle
    <2>3. CASE Refused(c)
      <3>1. End(c) /\ UNCHANGED spin /\ call[c].answer # "ok"
        BY <1>3, <2>3 DEF ChannelCopied, Refused
      <3>2. spin' \subseteq spin /\ spin' \cap Clears(view, call[c].req) = {}
        BY <2>1, <3>1 DEF Clears
      <3>. QED BY <2>1, <3>1, <3>2, AboutOpen, EndShaped
    <2>4. CASE ~Refused(c)
      <3>1. Refreshes(c) /\ call[c].answer = "ok"
        BY <1>3, <2>1, <2>2, <2>4, AnswerTypes DEF ChannelCopied, Refused, Broken
      <3>. QED BY <1>1, <2>1, <2>2, <3>1
    <2>. QED BY <2>3, <2>4
  <1>4. CASE ChannelPurged(c)
    <2>1. /\ call[c].pc = "answered" /\ call[c].req.op = "purge" /\ End(c) /\ Notes(c, {})
          /\ Still /\ UNCHANGED <<list, pager, search, spin, picked, knob>>
      BY <1>4 DEF ChannelPurged, Answered
    <2>2. spin' \subseteq spin /\ spin' \cap Clears(view, call[c].req) = {}
      BY <2>1 DEF Clears
    <2>. QED BY <2>1, <2>2, AboutOpen, EndShaped
  <1>. QED BY <1>2, <1>3, <1>4

LEMMA ChannelShaped ==
    ASSUME TableTypes, view = "channels", ChannelStep
    PROVE  Shaped
  <1>1. ASSUME NEW c \in Calls, Thrown(c, {})
        PROVE  Shaped
    <2>1. view \notin Sure
      BY DEF Sure
    <2>. QED BY <1>1, <2>1, ThrownShaped
  <1>. QED BY <1>1, ChannelSends, ChannelLoads, ChannelFinds, ChannelManages, ChannelGoesOn DEF ChannelStep

-----------------------------------------------------------------------------
(* The tokens, the users and the codes                                     *)

\* The load of a table by the page size n, the indicator being known.
LEMMA LoadSends ==
    ASSUME TableTypes, NEW c \in Calls, "load" \in Ops(view), NEW n \in Sizes, view \in Even => n = ItemsPerPage,
           NEW p \in Nat, NEW w \in Words, NEW t \in Nat, NEW F \in SUBSET {"loading"},
           NEW q, q \in {Load(p, n), LoadOf(w, p, n), ThenPage(Load(p, n), t), ThenPage(LoadOf(w, p, n), t)},
           Sends(c, q, F)
    PROVE  Shaped
  <1>1. Fits(view, q)
    BY Loadable
  <1>2. q.op = "load"
    <2>1. /\ Load(p, n).op = "load" /\ LoadOf(w, p, n).op = "load"
          /\ ThenPage(Load(p, n), t).op = "load" /\ ThenPage(LoadOf(w, p, n), t).op = "load"
      BY DEF Load, LoadOf, ThenPage
    <2>. QED BY <2>1
  <1>3. F \subseteq Clears(view, q) /\ F \subseteq Flags
    BY <1>2 DEF Clears, Flags
  <1>. QED BY <1>1, <1>2, <1>3, ReadShaped DEF Reads

LEMMA SearchSends ==
    ASSUME TableTypes, NEW c \in Calls, "search" \in Ops(view), view \notin {"mine", "minewd"},
           NEW w \in Words, Sends(c, Search(w), {"searching"})
    PROVE  Shaped
  <1>1. Fits(view, Search(w)) /\ Search(w).op = "search"
    <2>1. 0 \in Nat
      OBVIOUS
    <2>2. Fits(view, Search(w))
      BY <2>1, Searchable
    <2>. QED BY <2>2 DEF Search, Load
  <1>2. {"searching"} \subseteq Clears(view, Search(w)) /\ {"searching"} \subseteq Flags
    BY <1>1 DEF Clears, Flags
  <1>. QED BY <1>1, <1>2, ReadShaped DEF Reads

LEMMA DropSends ==
    ASSUME TableTypes, NEW c \in Calls, "drop" \in Ops(view), NEW F \in SUBSET Flags,
           F = IF view = "tokens" THEN {"loading"} ELSE {}, Sends(c, Drop(picked), F)
    PROVE  Shaped
  <1>. DEFINE D == Drop(picked)
  <1>1. D \in Requests /\ D.op = "drop" /\ D.to = 0
    <2>1. picked \in SUBSET Row /\ "" \in Words
      BY AboutOpen DEF Words
    <2>. QED BY <2>1 DEF Drop, Load, Requests
  <1>. HIDE DEF D
  <1>2. Fits(view, D)
    BY <1>1 DEF Fits
  <1>3. F \subseteq Clears(view, D)
    <2>1. CASE view = "tokens"
      BY <1>1, <2>1 DEF Clears
    <2>2. CASE view # "tokens"
      BY <2>2
    <2>. QED BY <2>1, <2>2
  <1>. QED BY <1>1, <1>2, <1>3, ReadShaped DEF D

LEMMA TokenSends ==
    ASSUME TableTypes, view = "tokens",
           TokenManage \/ TokenRefresh \/ TokenTurn \/ TokenResize \/ TokenSearch \/ TokenType \/ TokenPick \/ TokenBatch
    PROVE  Shaped
  <1>0. Ops(view) = {"load", "search", "switch", "delete", "drop"} /\ view \notin Even
    BY DEF Ops, Even
  <1>1. ToSet(TokenRows) \subseteq ToSet(list.rows) /\ ToSet(TokenRows) \subseteq Row /\ IsFiniteSet(ToSet(TokenRows))
    BY AboutOpen, SliceIs DEF TokenRows
  <1>2. CASE TokenManage
    <2>0. PICK c \in Calls, r \in ToSet(TokenRows) : \E q \in TokenControls(r) : Sends(c, q, {"loading"})
      BY <1>2 DEF TokenManage
    <2>1. PICK q \in TokenControls(r) : Sends(c, q, {"loading"})
      BY <2>0
    <2>2. r \in ToSet(list.rows) /\ {"loading"} \in SUBSET Flags
      BY <1>1 DEF Flags
    <2>3. q = Switch(r, IF r.status = 1 THEN 2 ELSE 1) \/ q = Delete(r) \/ q = Rank(r)
      BY DEF TokenControls
    <2>. QED BY <1>0, <2>1, <2>2, <2>3, ControlShaped
  <1>3. CASE TokenRefresh
    <2>1. PICK c \in Calls : Sends(c, Load(pager.page - 1, pager.size), {"loading"})
      BY <1>3 DEF TokenRefresh
    <2>2. "" \in Words /\ 0 \in Nat /\ "load" \in Ops(view)
      BY <1>0 DEF Words
    <2>. QED BY <1>0, <2>1, <2>2, AboutOpen, LoadSends
  <1>4. CASE TokenTurn
    <2>1. TurnPage("", pager.size, {"loading"})
      BY <1>4 DEF TokenTurn
    <2>2. "" \in Words /\ "load" \in Ops(view)
      BY <1>0 DEF Words
    <2>. QED BY <1>0, <2>1, <2>2, AboutOpen, TurnShaped
  <1>5. CASE TokenResize
    <2>1. PICK n \in Sizes \ {pager.size}, c \in Calls :
             /\ pager' = [pager EXCEPT !.size = n, !.page = 1]
             /\ Asked(c, Load(0, n), pager') /\ spin' = spin \cup {"loading"}
             /\ UNCHANGED <<view, db, list, search, picked, knob>>
      BY <1>5 DEF TokenResize
    <2>2. pager' \in Pagers
      <3>1. 1 \in Nat \ {0}
        OBVIOUS
      <3>. QED BY <2>1, <3>1, AboutOpen, PagerIs
    <2>3. Fits(view, Load(0, n)) /\ Load(0, n).op = "load"
      <3>1. 0 \in Nat /\ "" \in Words
        BY DEF Words
      <3>2. Fits(view, Load(0, n))
        BY <1>0, <3>1, Loadable
      <3>. QED BY <3>2 DEF Load
    <2>4. {"loading"} \subseteq Clears(view, Load(0, n)) /\ {"loading"} \subseteq Flags
      BY <2>3 DEF Clears, Flags
    <2>5. AskBy(c, Load(0, n), pager', search)
      BY <2>1 DEF Asked
    <2>6. UNCHANGED <<view, db, list, picked, knob>> /\ search' \in Forms /\ search \in Forms /\ Load(0, n).op \in Reads
      BY <2>1, <2>3, AboutOpen DEF Reads
    <2>7. spin' \subseteq Flags /\ spin' \subseteq spin \cup Clears(view, Load(0, n))
      BY <2>1, <2>4, AboutOpen
    <2>. QED BY <2>2, <2>3, <2>5, <2>6, <2>7, StartsShaped
  <1>6. CASE TokenSearch
    <2>1. PICK c \in Calls :
             IF search.word = "" THEN Sends(c, ThenPage(Load(0, pager.size), 1), {"loading"})
                                 ELSE Sends(c, Search(search.word), {"searching"})
      BY <1>6 DEF TokenSearch
    <2>2. "" \in Words /\ 0 \in Nat /\ 1 \in Nat
      BY DEF Words
    <2>3. CASE search.word = ""
      <3>1. Sends(c, ThenPage(Load(0, pager.size), 1), {"loading"})
        BY <2>1, <2>3
      <3>. QED BY <1>0, <2>2, <3>1, AboutOpen, LoadSends
    <2>4. CASE search.word # ""
      <3>1. Sends(c, Search(search.word), {"searching"})
        BY <2>1, <2>4
      <3>2. search.word \in Words /\ "search" \in Ops(view) /\ view \notin {"mine", "minewd"}
        BY <1>0, AboutOpen
      <3>. QED BY <3>1, <3>2, SearchSends
    <2>. QED BY <2>3, <2>4
  <1>7. CASE TokenType
    BY <1>7, TypeShaped DEF TokenType
  <1>8. CASE TokenPick
    <2>1. PICK S \in SUBSET ToSet(TokenRows) : Pick(S)
      BY <1>8 DEF TokenPick
    <2>2. S \in SUBSET Row /\ IsFiniteSet(S)
      BY <1>1, FS_Subset
    <2>. QED BY <2>1, <2>2, PickShaped
  <1>9. CASE TokenBatch
    <2>1. PICK c \in Calls : Sends(c, Drop(picked), {"loading"})
      BY <1>9 DEF TokenBatch
    <2>2. {"loading"} \in SUBSET Flags
      BY DEF Flags
    <2>. QED BY <1>0, <2>1, <2>2, DropSends
  <1>. QED BY <1>2, <1>3, <1>4, <1>5, <1>6, <1>7, <1>8, <1>9

LEMMA TokenLoads ==
    ASSUME TableTypes, view = "tokens", NEW c \in Calls, TokenLoaded(c)
    PROVE  Shaped
  <1>. DEFINE n == call[c].req.size
              m == AnotherPage(Len(Placed(c, n)), call[c].pager.size)
  <1>1. /\ Answered(c, "load")
        /\ pager' = [pager EXCEPT !.page = PageAfter(c), !.count = IF Good(c) THEN m ELSE @]
        /\ IF Good(c) THEN Show(Placed(c, n), Of(c)) /\ Notes(c, Misfits(c, n)) ELSE UNCHANGED list /\ Notes(c, {})
        /\ spin' = spin \ {"loading"} /\ End(c) /\ Still /\ UNCHANGED <<search, picked, knob>>
    BY DEF TokenLoaded, Loaded
  <1>2. ~Idle(c) /\ n \in Nat
    BY <1>1, LoadSize
  <1>3. m \in Nat
    <2>1. Len(Placed(c, n)) \in Nat /\ call[c].pager.size \in Nat
      BY <1>2, PlacedIs, AnswerTypes
    <2>. QED BY <2>1, CountIs
  <1>. HIDE DEF m
  <1>4. pager' \in Pagers
    BY <1>1, <1>2, <1>3, CountedPager
  <1>. QED BY <1>1, <1>4, LoadedShaped

LEMMA TokenFinds ==
    ASSUME TableTypes, view = "tokens", NEW c \in Calls, TokenSearched(c)
    PROVE  Shaped
  <1>. DEFINE rows == Objects(call[c].data)
              m == AnotherPage(Len(rows), call[c].pager.size)
  <1>1. /\ Answered(c, "search") /\ ~Broken(c) /\ spin' = spin \ {"searching"} /\ End(c) /\ Notes(c, {}) /\ Still
        /\ UNCHANGED <<search, picked, knob>>
    BY DEF TokenSearched
  <1>2. ~Idle(c)
    BY <1>1 DEF Answered, Idle
  <1>3. m \in Nat
    <2>1. Len(rows) \in Nat /\ call[c].pager.size \in Nat
      <3>1. Len(rows) \in Nat
        BY <1>2, LoadSize, PlacedIs, SizesAssumption, AboutOpen
      <3>. QED BY <1>2, <3>1, AnswerTypes
    <2>. HIDE DEF rows
    <2>. QED BY <2>1, CountIs
  <1>4. CASE Refused(c)
    <2>1. UNCHANGED <<list, pager, picked>> /\ ~Good(c)
      BY <1>1, <1>4 DEF TokenSearched, Refused, Good
    <2>. QED BY <1>1, <2>1, AboutOpen, SearchedShaped
  <1>5. CASE ~Refused(c)
    <2>1. Show(rows, call[c].req.query) /\ pager' = [pager EXCEPT !.page = 1, !.count = m]
      BY <1>5 DEF TokenSearched
    <2>2. Good(c)
      BY <1>1, <1>2, <1>5, AnswerTypes DEF Good, Broken, Refused
    <2>. HIDE DEF m
    <2>3. pager' \in Pagers
      <3>1. 1 \in Nat \ {0}
        OBVIOUS
      <3>. QED BY <1>3, <2>1, <3>1, AboutOpen, PagerIs
    <2>. QED BY <1>1, <2>1, <2>2, <2>3, SearchedShaped
  <1>. QED BY <1>4, <1>5

\* The rows of a closure that are told to the pager.
LEMMA FormatPager ==
    ASSUME TableTypes, NEW c \in Calls, ~Idle(c), NEW rows \in Seq(Row), NEW of, TokensFormat(c, rows, of)
    PROVE  Show(rows, of) /\ pager' \in Pagers
  <1>1. Show(rows, of) /\ pager' = [pager EXCEPT !.count = AnotherPage(Len(rows), call[c].pager.size)]
    BY DEF TokensFormat
  <1>2. AnotherPage(Len(rows), call[c].pager.size) \in Nat
    BY AnswerTypes, CountIs, LenProperties
  <1>. QED BY <1>1, <1>2, AboutOpen DEF Pagers

LEMMA TokenManages ==
    ASSUME TableTypes, view = "tokens", NEW c \in Calls, TokenManaged(c)
    PROVE  Shaped
  <1>. DEFINE k == call[c]
  <1>1. k.pc = "answered" /\ ~Broken(c) /\ spin' = spin \ {"loading"} /\ Still /\ UNCHANGED <<search, picked, knob>>
    BY DEF TokenManaged
  <1>2. ~Idle(c) /\ k.seen.rows \in Seq(Row)
    <2>1. ~Idle(c)
      BY <1>1 DEF Idle
    <2>. QED BY <2>1, AnswerTypes
  <1>3. view' = view /\ search' \in Forms /\ spin' \subseteq Flags /\ picked' \in {picked, {}}
    BY <1>1, AboutOpen DEF Still
  <1>4. ASSUME k.req.op \in {"switch", "delete"}
        PROVE  Clears(view, k.req) = {"loading"} /\ Spun(c)
    BY <1>1, <1>4 DEF Clears, Spun
  <1>5. CASE /\ Answered(c, "switch") /\ k.req.to # 0 /\ Good(c)
             /\ TokensFormat(c, Set(RowOf(c), k.req.to, k.seen.rows), k.seen.of)
             /\ Assign(c, RowOf(c), k.req.to) /\ Notes(c, {})
    <2>1. k.req.op = "switch"
      BY <1>5 DEF Answered
    <2>2. k.req.to \in 1..3
      <3>1. Fits(view, k.req)
        BY <1>2, Under
      <3>2. k.req.to \in 0..3
        BY <2>1, <3>1, FitsSwitch
      <3>. QED BY <1>5, <3>2
    <2>3. Set(RowOf(c), k.req.to, k.seen.rows) \in Seq(Row)
      BY <1>2, <2>2, SetTypes
    <2>4. Show(Set(RowOf(c), k.req.to, k.seen.rows), k.seen.of) /\ pager' \in Pagers
      BY <1>2, <1>5, <2>3, FormatPager
    <2>5. Handled(c)
      BY <1>1, <1>5, <2>2, <2>4, SetShaped
    <2>. QED BY <1>1, <1>3, <1>4, <2>1, <2>4, <2>5, HandledShaped
  <1>6. CASE /\ Answered(c, "switch") /\ k.req.to # 0 /\ Refused(c) /\ End(c) /\ Notes(c, {}) /\ UNCHANGED <<list, pager>>
    <2>1. k.req.op = "switch" /\ k.answer # "ok"
      BY <1>6 DEF Answered, Refused
    <2>2. spin' \subseteq spin /\ spin' \cap Clears(view, k.req) = {}
      BY <1>1, <1>4, <2>1
    <2>. QED BY <1>1, <1>3, <1>6, <2>1, <2>2, AboutOpen, EndShaped
  <1>7. CASE /\ Answered(c, "delete")
             /\ TokensFormat(c, Without(k.seen.rows, RowOf(c).id), k.seen.of)
             /\ End(c) /\ Notes(c, {"deleted"} \cup Denied(c))
    <2>1. spin' = spin \ Clears(view, k.req)
      BY <1>1, <1>4, <1>7 DEF Answered
    <2>2. Without(k.seen.rows, RowOf(c).id) \in Seq(Row)
      <3>. DEFINE P == {p \in DOMAIN k.seen.rows : k.seen.rows[p].id # RowOf(c).id}
      <3>1. Without(k.seen.rows, RowOf(c).id) = At(k.seen.rows, P) /\ P \in SUBSET DOMAIN k.seen.rows
        BY DEF Without
      <3>. HIDE DEF P
      <3>. QED BY <1>2, <3>1, AtIs
    <2>3. Show(Without(k.seen.rows, RowOf(c).id), k.seen.of) /\ pager' \in Pagers
      BY <1>2, <1>7, <2>2, FormatPager
    <2>4. Denied(c) \subseteq {"deleted"} \cup Denied(c)
      OBVIOUS
    <2>. QED BY <1>1, <1>7, <2>1, <2>3, <2>4, DeletedShaped
  <1>. QED BY <1>5, <1>6, <1>7 DEF TokenManaged

LEMMA TokenGoesOn ==
    ASSUME TableTypes, view = "tokens", NEW c \in Calls, TokenStrategy(c)
    PROVE  Shaped
  <1>. DEFINE E == {h \in {"clash"} : Good(c) /\ \E d \in Calls \ {c} : ~Idle(d)}
              q == Load(call[c].pager.page - 1, call[c].pager.size)
  <1>1. /\ call[c].pc = "answered" /\ call[c].req.op = "switch" /\ call[c].req.to = 0
        /\ spin' = spin \ {"loading"} /\ Notes(c, E) /\ Still /\ UNCHANGED <<list, pager, search, picked, knob>>
    BY DEF TokenStrategy, Answered
  <1>2. ~Idle(c) /\ "load" \in Ops(view) /\ view \notin Even
    BY <1>1 DEF Idle, Ops, Even
  <1>3. Clears(view, call[c].req) = {"loading"}
    BY <1>1 DEF Clears
  <1>4. CASE Good(c)
    <2>1. GoOn(c, q) /\ call[c].answer = "ok"
      BY <1>4 DEF TokenStrategy, Good
    <2>2. Fits(view, q) /\ q.op = "load" /\ q.page = call[c].pager.page - 1
      <3>1. call[c].pager.size \in Sizes
        BY <1>2, AnswerTypes
      <3>. QED BY <1>2, <3>1, PageAgain
    <2>3. {h \in {"clash"} : \E d \in Calls \ {c} : ~Idle(d)} \subseteq E
      BY <1>4
    <2>4. spin' \subseteq spin \cup {"loading"} /\ pager' \in Pagers
      BY <1>1, AboutOpen
    <2>. HIDE DEF q, E
    <2>. QED BY <1>1, <1>3, <2>1, <2>2, <2>3, <2>4, OnwardShaped
  <1>5. CASE ~Good(c)
    <2>1. End(c) /\ call[c].answer # "ok"
      BY <1>5 DEF TokenStrategy, Good
    <2>2. spin' \subseteq spin /\ spin' \cap Clears(view, call[c].req) = {}
      BY <1>1, <1>3
    <2>. QED BY <1>1, <2>1, <2>2, AboutOpen, EndShaped
  <1>. QED BY <1>4, <1>5

LEMMA TokenDrops ==
    ASSUME TableTypes, view = "tokens", NEW c \in Calls, TokenDropped(c)
    PROVE  Shaped
  <1>. DEFINE k == call[c]
              P == {p \in DOMAIN k.seen.rows : ~Same(k.seen.rows[p], k.req.rows)}
              E == {"deleted"} \cup Denied(c) \cup {h \in {"stale"} : \E r \in k.req.rows : ~Same(r, ToSet(k.seen.rows))}
  <1>1. /\ k.pc = "answered" /\ k.req.op = "drop" /\ Show(At(k.seen.rows, P), k.seen.of)
        /\ picked' = {} /\ spin' = spin \ {"loading"} /\ End(c) /\ Notes(c, E) /\ Still /\ UNCHANGED <<pager, search, knob>>
    BY DEF TokenDropped, Answered
  <1>2. P \in SUBSET DOMAIN k.seen.rows /\ Denied(c) \subseteq E
        /\ {h \in {"stale"} : \E r \in k.req.rows : ~Same(r, ToSet(k.seen.rows))} \subseteq E
    OBVIOUS
  <1>3. P = {p \in DOMAIN k.seen.rows : ~Same(k.seen.rows[p], k.req.rows)}
    OBVIOUS
  <1>4. Spun(c)
    BY <1>1 DEF Spun, Clears
  <1>5. view' = view /\ pager' \in Pagers /\ search' \in Forms /\ spin' \subseteq Flags /\ picked' \in {picked, {}}
    BY <1>1, AboutOpen DEF Still
  <1>. HIDE DEF P, E
  <1>6. Handled(c)
    BY <1>1, <1>2, <1>3, RemoveShaped
  <1>. QED BY <1>1, <1>4, <1>5, <1>6, HandledShaped

LEMMA TokenShaped ==
    ASSUME TableTypes, view = "tokens", TokenStep
    PROVE  Shaped
  <1>1. ASSUME NEW c \in Calls, Thrown(c, {})
        PROVE  Shaped
    <2>1. view \notin Sure
      BY DEF Sure
    <2>. QED BY <1>1, <2>1, ThrownShaped
  <1>. QED BY <1>1, TokenSends, TokenLoads, TokenFinds, TokenManages, TokenGoesOn, TokenDrops DEF TokenStep

\* The tables whose rows are pushed.
LEMMA PushLoads ==
    ASSUME TableTypes, view \in {"users", "redemptions"}, NEW c \in Calls, PushLoaded(c)
    PROVE  Shaped
  <1>. DEFINE k == call[c]
              n == Len(k.data) + IF k.req.page = 0 THEN 0 ELSE Len(k.seen.rows)
              at == k.req.page * ItemsPerPage
              E == Misfits(c, ItemsPerPage) \cup {h \in {"pushed"} : Len(k.seen.rows) > at}
  <1>1. Answered(c, "load") /\ ~Broken(c) /\ spin' = spin \ {"loading"} /\ Still /\ UNCHANGED <<search, picked, knob>>
    BY DEF PushLoaded
  <1>2. ~Idle(c) /\ k.req.size = ItemsPerPage /\ k.pc = "answered" /\ k.req.op = "load"
    BY <1>1, LoadSize DEF Even, Answered
  <1>3. view' = view /\ search' \in Forms /\ spin' \subseteq Flags /\ picked' \in {picked, {}} /\ spin' \subseteq spin
    BY <1>1, AboutOpen DEF Still
  <1>4. Clears(view, k.req) = {"loading"} /\ Spun(c) /\ spin' \cap Clears(view, k.req) = {}
    BY <1>1, <1>2 DEF Clears, Spun
  <1>5. PageAfter(c) \in Nat \ {0}
    BY <1>2, PlacedIs
  <1>6. OneMore(c, n) \in Nat
    <2>1. k.data \in Seq(Item) /\ k.seen.rows \in Seq(Row)
      BY <1>2, AnswerTypes DEF Actives
    <2>2. Len(k.data) \in Nat /\ Len(k.seen.rows) \in Nat
      BY <2>1, LenProperties
    <2>3. n \in Nat
      <3>. DEFINE a == Len(k.data)
                  b == Len(k.seen.rows)
      <3>1. a \in Nat /\ b \in Nat /\ n = a + IF k.req.page = 0 THEN 0 ELSE b
        BY <2>2
      <3>. HIDE DEF a, b, n
      <3>. QED BY <3>1
    <2>. HIDE DEF n
    <2>. QED BY <2>3 DEF OneMore
  <1>. HIDE DEF n
  <1>7. CASE Refused(c) /\ End(c) /\ Notes(c, {}) /\ UNCHANGED list /\ pager' = [pager EXCEPT !.page = PageAfter(c)]
    <2>1. pager' \in Pagers
      BY <1>5, <1>7, AboutOpen DEF Pagers
    <2>2. k.answer # "ok"
      BY <1>7 DEF Refused
    <2>. QED BY <1>1, <1>2, <1>3, <1>4, <1>7, <2>1, <2>2, EndShaped
  <1>8. CASE /\ Good(c) /\ k.req.page = 0 /\ Show(Objects(k.data), k.req.query) /\ End(c) /\ Notes(c, {})
             /\ pager' = [pager EXCEPT !.page = PageAfter(c), !.count = OneMore(c, n)]
    <2>1. pager' \in Pagers
      BY <1>5, <1>6, <1>8, AboutOpen DEF Pagers
    <2>2. Handled(c)
      <3>1. Show(Placed(c, ItemsPerPage), Of(c))
        BY <1>8 DEF Placed, Of
      <3>2. ~(k.req.page > 0)
        BY <1>8
      <3>. QED BY <1>1, <1>2, <1>8, <3>1, <3>2, LoadShaped
    <2>. QED BY <1>1, <1>3, <1>4, <2>1, <2>2, HandledShaped
  <1>9. CASE /\ Good(c) /\ k.req.page > 0 /\ Pushed(c) /\ Notes(c, E)
             /\ pager' = [pager EXCEPT !.count = OneMore(c, n)]
    <2>1. pager' \in Pagers
      BY <1>6, <1>9, AboutOpen DEF Pagers
    <2>2. at = k.req.page * k.req.size
      BY <1>2
    <2>3. Misfits(c, ItemsPerPage) \subseteq E /\ (Len(k.seen.rows) > at => "pushed" \in E)
      OBVIOUS
    <2>. HIDE DEF at, E
    <2>4. Handled(c)
      BY <1>1, <1>9, <2>2, <2>3, PushShaped
    <2>. QED BY <1>1, <1>3, <1>4, <2>1, <2>4, HandledShaped
  <1>. QED BY <1>7, <1>8, <1>9 DEF PushLoaded, n

LEMMA PushFinds ==
    ASSUME TableTypes, view \in {"users", "redemptions"}, NEW c \in Calls, PushSearched(c)
    PROVE  Shaped
  <1>1. /\ Answered(c, "search") /\ ~Broken(c) /\ spin' = spin \ {"searching"} /\ End(c) /\ Notes(c, {}) /\ Still
        /\ UNCHANGED <<search, picked, knob>>
    BY DEF PushSearched
  <1>2. ~Idle(c)
    BY <1>1 DEF Answered, Idle
  <1>3. CASE Refused(c)
    <2>1. UNCHANGED <<list, pager, picked>> /\ ~Good(c)
      BY <1>1, <1>3 DEF PushSearched, Refused, Good
    <2>. QED BY <1>1, <2>1, AboutOpen, SearchedShaped
  <1>4. CASE ~Refused(c)
    <2>1. Show(Objects(call[c].data), call[c].req.query) /\ pager' = [pager EXCEPT !.page = 1]
      BY <1>4 DEF PushSearched
    <2>2. Good(c)
      BY <1>1, <1>2, <1>4, AnswerTypes DEF Good, Broken, Refused
    <2>3. pager' \in Pagers
      <3>1. 1 \in Nat \ {0}
        OBVIOUS
      <3>. QED BY <2>1, <3>1, AboutOpen DEF Pagers
    <2>. QED BY <1>1, <2>1, <2>2, <2>3, SearchedShaped
  <1>. QED BY <1>3, <1>4

LEMMA PushManages ==
    ASSUME TableTypes, view \in {"users", "redemptions"}, NEW c \in Calls, PushManaged(c)
    PROVE  Shaped
  <1>. DEFINE k == call[c]
              s == k.data[1].status
  <1>1. k.pc = "answered" /\ ~Broken(c) /\ Still /\ UNCHANGED <<pager, search, spin, picked, knob>>
    BY DEF PushManaged
  <1>2. view' = view /\ pager' \in Pagers /\ search' \in Forms /\ spin' \subseteq Flags /\ picked' \in {picked, {}} /\ ~Idle(c)
    BY <1>1, AboutOpen DEF Still, Idle
  <1>3. ASSUME k.req.op \in {"switch", "delete"}
        PROVE  Clears(view, k.req) = {} /\ Spun(c)
    BY <1>1, <1>3 DEF Clears, Spun
  <1>4. CASE /\ Answered(c, "switch") /\ Good(c)
             /\ Show(Set(RowOf(c), s, k.seen.rows), k.seen.of) /\ Assign(c, RowOf(c), s) /\ Notes(c, {})
    <2>1. k.req.op = "switch" /\ k.answer = "ok"
      BY <1>4 DEF Answered, Good
    <2>2. s \in 1..3
      <3>1. k \in Goods(view)
        BY <1>2, Under
      <3>2. k.data \in Seq(Item) /\ k.data # <<>>
        BY <1>1, <2>1, <3>1 DEF Goods, Actives
      <3>3. Len(k.data) \in Nat /\ k.data \in [1..Len(k.data) -> Item] /\ Len(k.data) # 0
        BY <3>2, LenProperties, EmptySeq
      <3>4. k.data[1] \in Item
        BY <3>3
      <3>. QED BY <3>4 DEF Item
    <2>. HIDE DEF s
    <2>3. Handled(c)
      BY <1>1, <1>4, <2>2, SetShaped DEF s
    <2>. QED BY <1>1, <1>2, <1>3, <2>1, <2>3, HandledShaped
  <1>5. CASE Answered(c, "switch") /\ Refused(c) /\ End(c) /\ Notes(c, {}) /\ UNCHANGED list
    <2>1. k.req.op = "switch" /\ k.answer # "ok"
      BY <1>5 DEF Answered, Refused
    <2>2. spin' \subseteq spin /\ spin' \cap Clears(view, k.req) = {}
      BY <1>1, <1>3, <2>1
    <2>. QED BY <1>1, <1>2, <1>5, <2>1, <2>2, EndShaped
  <1>6. CASE /\ Answered(c, "delete")
             /\ Show(Without(k.seen.rows, RowOf(c).id), k.seen.of)
             /\ End(c) /\ Notes(c, {"deleted"} \cup Denied(c))
    <2>1. spin' = spin \ Clears(view, k.req)
      BY <1>1, <1>3, <1>6 DEF Answered
    <2>2. Denied(c) \subseteq {"deleted"} \cup Denied(c)
      OBVIOUS
    <2>. QED BY <1>1, <1>2, <1>6, <2>1, <2>2, DeletedShaped
  <1>. QED BY <1>4, <1>5, <1>6 DEF PushManaged

\* The controls of the two tables.
LEMMA PushSends ==
    ASSUME TableTypes, view \in {"users", "redemptions"},
           \/ UserManage /\ view = "users"
           \/ CodeManage \/ UserTurn \/ CodeTurn \/ UserSearch \/ CodeSearch
           \/ UserRefresh \/ CodeRefresh \/ UserType \/ CodeType
    PROVE  Shaped
  <1>0. {"load", "search", "switch", "delete"} \subseteq Ops(view) /\ ItemsPerPage \in Sizes /\ ItemsPerPage \in Nat
    BY Smallest, SizesAssumption DEF Ops
  <1>00. "" \in Words /\ "undefined" \in Words /\ 0 \in Nat /\ 1 \in Nat /\ {} \in SUBSET {"loading"} /\ {} \in SUBSET Flags
         /\ view \notin {"mine", "minewd"} /\ view # "tokens"
    BY DEF Words
  <1>1. ToSet(FullRows) \subseteq ToSet(list.rows)
    BY <1>0, AboutOpen, SliceIs DEF FullRows
  <1>2. CASE UserManage /\ view = "users"
    <2>0. PICK c \in Calls, r \in ToSet(FullRows) : \E q \in UserControls(r) : Sends(c, q, {})
      BY <1>2 DEF UserManage
    <2>1. PICK q \in UserControls(r) : Sends(c, q, {})
      BY <2>0
    <2>2. r \in ToSet(list.rows)
      BY <1>1
    <2>3. \/ q = Delete(r)
          \/ q = Rank(r) /\ view = "users"
          \/ q = Switch(r, IF r.status = 1 THEN 2 ELSE 1) /\ r.status # 3
      BY <1>2 DEF UserControls
    <2>. QED BY <1>0, <1>00, <2>1, <2>2, <2>3, ControlShaped
  <1>3. CASE CodeManage
    <2>0. PICK c \in Calls, r \in ToSet(FullRows) : \E q \in CodeControls(r) : Sends(c, q, {})
      BY <1>3 DEF CodeManage
    <2>1. PICK q \in CodeControls(r) : Sends(c, q, {})
      BY <2>0
    <2>2. r \in ToSet(list.rows)
      BY <1>1
    <2>3. \/ q = Delete(r)
          \/ q = Switch(r, IF r.status = 1 THEN 2 ELSE 1) /\ r.status # 3
      BY DEF CodeControls
    <2>. QED BY <1>0, <1>00, <2>1, <2>2, <2>3, ControlShaped
  <1>4. CASE UserTurn \/ CodeTurn
    <2>1. TurnPage("", ItemsPerPage, {})
      BY <1>4 DEF UserTurn, CodeTurn
    <2>. QED BY <1>0, <1>00, <2>1, TurnShaped
  <1>5. CASE UserSearch \/ CodeSearch
    <2>1. PICK c \in Calls :
             IF search.word = "" THEN Sends(c, ThenPage(Load(0, ItemsPerPage), 1), {})
                                 ELSE Sends(c, Search(search.word), {"searching"})
      BY <1>5 DEF UserSearch, CodeSearch
    <2>2. CASE search.word = ""
      <3>1. Sends(c, ThenPage(Load(0, ItemsPerPage), 1), {})
        BY <2>1, <2>2
      <3>. QED BY <1>0, <1>00, <3>1, LoadSends
    <2>3. CASE search.word # ""
      <3>1. Sends(c, Search(search.word), {"searching"})
        BY <2>1, <2>3
      <3>2. search.word \in Words /\ "search" \in Ops(view)
        BY <1>0, AboutOpen
      <3>. QED BY <1>00, <3>1, <3>2, SearchSends
    <2>. QED BY <2>2, <2>3
  <1>6. CASE UserRefresh
    <2>1. PICK c \in Calls :
             IF search.word = "" THEN Sends(c, Load(pager.page - 1, ItemsPerPage), {})
                                 ELSE Sends(c, Search("undefined"), {"searching"})
      BY <1>6 DEF UserRefresh
    <2>2. CASE search.word = ""
      <3>1. Sends(c, Load(pager.page - 1, ItemsPerPage), {})
        BY <2>1, <2>2
      <3>. QED BY <1>0, <1>00, <3>1, AboutOpen, LoadSends
    <2>3. CASE search.word # ""
      <3>1. Sends(c, Search("undefined"), {"searching"})
        BY <2>1, <2>3
      <3>. QED BY <1>0, <1>00, <3>1, SearchSends
    <2>. QED BY <2>2, <2>3
  <1>7. CASE CodeRefresh
    <2>1. PICK c \in Calls : Sends(c, Load(pager.page - 1, ItemsPerPage), {})
      BY <1>7 DEF CodeRefresh
    <2>. QED BY <1>0, <1>00, <2>1, AboutOpen, LoadSends
  <1>8. CASE UserType \/ CodeType
    BY <1>8, TypeShaped DEF UserType, CodeType
  <1>. QED BY <1>2, <1>3, <1>4, <1>5, <1>6, <1>7, <1>8

LEMMA PushThrows ==
    ASSUME TableTypes, view \in {"users", "redemptions"}, NEW c \in Calls, Thrown(c, {})
    PROVE  Shaped
  BY ThrownShaped DEF Sure

LEMMA UserShaped ==
    ASSUME TableTypes, view = "users", UserStep
    PROVE  Shaped
  BY PushSends, PushLoads, PushFinds, PushManages, PushThrows DEF UserStep

LEMMA CodeShaped ==
    ASSUME TableTypes, view = "redemptions", CodeStep
    PROVE  Shaped
  <1>0. {"load", "drop"} \subseteq Ops(view) /\ ItemsPerPage \in Sizes /\ ItemsPerPage \in Nat /\ {} \in SUBSET Flags
    BY Smallest, SizesAssumption DEF Ops
  <1>1. CASE CodePick
    <2>1. PICK S \in SUBSET ToSet(FullRows) : Pick(S)
      BY <1>1 DEF CodePick
    <2>2. S \in SUBSET Row /\ IsFiniteSet(S)
      <3>1. ToSet(FullRows) \subseteq Row /\ IsFiniteSet(ToSet(FullRows))
        BY <1>0, AboutOpen, SliceIs DEF FullRows
      <3>. QED BY <3>1, FS_Subset
    <2>. QED BY <2>1, <2>2, PickShaped
  <1>2. CASE CodeBatch
    <2>1. PICK c \in Calls : Sends(c, Drop(picked), {})
      BY <1>2 DEF CodeBatch
    <2>. QED BY <1>0, <2>1, DropSends
  <1>3. ASSUME NEW c \in Calls, CodeDropped(c)
        PROVE  Shaped
    <2>. DEFINE q == Load(call[c].pager.page - 1, ItemsPerPage)
    <2>1. /\ call[c].pc = "answered" /\ call[c].req.op = "drop" /\ picked' = {} /\ GoOn(c, q) /\ Notes(c, {"deleted"})
          /\ Still /\ UNCHANGED <<list, pager, search, spin, knob>>
      BY <1>3 DEF CodeDropped, Answered
    <2>2. ~Idle(c) /\ Clears(view, call[c].req) \subseteq {"loading"}
      BY <2>1 DEF Idle, Clears
    <2>3. Fits(view, q) /\ q.op = "load" /\ q.page = call[c].pager.page - 1
      BY <1>0, <2>2, PageAgain
    <2>. HIDE DEF q
    <2>4. pager' \in Pagers /\ spin' \subseteq spin \cup {"loading"}
      BY <2>1, AboutOpen
    <2>. QED BY <2>1, <2>2, <2>3, <2>4, OnwardShaped
  <1>. QED BY <1>1, <1>2, <1>3, PushSends, PushLoads, PushFinds, PushManages, PushThrows DEF CodeStep

-----------------------------------------------------------------------------
(* The withdrawals, the top-ups and the Midjourney tasks                   *)

LEMMA FirstPageShaped ==
    ASSUME TableTypes, NEW c \in Calls, "load" \in Ops(view), NEW w \in Words, NEW p \in Pagers, NEW f \in Forms,
           AskBy(c, LoadOf(w, 0, ItemsPerPage), p, f), spin' = spin \cup {"loading"},
           pager' \in Pagers, search' \in Forms, UNCHANGED <<view, db, list, picked, knob>>
    PROVE  Shaped
  <1>. DEFINE q == LoadOf(w, 0, ItemsPerPage)
  <1>1. Fits(view, q)
    <2>1. 0 \in Nat /\ ItemsPerPage \in Sizes
      BY Smallest
    <2>. QED BY <2>1, Loadable
  <1>2. q.op = "load"
    BY DEF LoadOf, Load
  <1>. HIDE DEF q
  <1>3. q.op \in Reads /\ spin' \subseteq Flags /\ spin' \subseteq spin \cup Clears(view, q)
    BY <1>2, AboutOpen DEF Clears, Reads, Flags
  <1>. QED BY <1>1, <1>3, StartsShaped DEF q

LEMMA GrowingSends ==
    ASSUME TableTypes, view \in {"withdrawals", "topups", "mjlogs"},
           \/ \E c \in Calls : FirstPage(c)
           \/ \E q \in {"", "key"} : Type(q)
           \/ TurnPage(search.word, ItemsPerPage, {"loading"})
    PROVE  Shaped
  <1>0. "load" \in Ops(view) /\ ItemsPerPage \in Sizes /\ ItemsPerPage \in Nat
    BY Smallest, SizesAssumption DEF Ops
  <1>1. CASE \E c \in Calls : FirstPage(c)
    <2>1. PICK c \in Calls : FirstPage(c)
      BY <1>1
    <2>2. /\ pager' = [pager EXCEPT !.page = 1] /\ AskBy(c, LoadOf(search.word, 0, ItemsPerPage), pager, search)
          /\ spin' = spin \cup {"loading"} /\ UNCHANGED <<view, db, list, search, picked, knob>>
      BY <2>1 DEF FirstPage, Starts, Ask
    <2>3. pager' \in Pagers
      <3>1. pager' = [pager EXCEPT !.page = 1] /\ pager \in Pagers
        BY <2>2, AboutOpen
      <3>. QED BY <3>1, FirstIs DEF Pagers
    <2>. QED BY <1>0, <2>2, <2>3, AboutOpen, FirstPageShaped
  <1>2. CASE \E q \in {"", "key"} : Type(q)
    BY <1>2, TypeShaped
  <1>3. CASE TurnPage(search.word, ItemsPerPage, {"loading"})
    <2>1. search.word \in Words
      BY AboutOpen
    <2>2. {"loading"} \in SUBSET {"loading"}
      OBVIOUS
    <2>. QED BY <1>0, <1>3, <2>1, <2>2, TurnShaped
  <1>. QED BY <1>1, <1>2, <1>3

LEMMA WithdrawEdits ==
    ASSUME TableTypes, view = "withdrawals", WithdrawEdit
    PROVE  Shaped
  <1>1. ToSet(LogRows) \subseteq Row
    <2>1. ItemsPerPage \in Nat /\ ItemsPerPage \in Sizes
      BY Smallest, SizesAssumption
    <2>. QED BY <2>1, AboutOpen, SliceIs DEF LogRows
  <1>2. ASSUME NEW r \in Row, Pick({r})
        PROVE  Shaped
    <2>1. {r} \in SUBSET Row /\ IsFiniteSet({r})
      BY FS_Singleton
    <2>. QED BY <1>2, <2>1, PickShaped
  <1>3. CASE \E r \in ToSet(LogRows) : Pick({r})
    BY <1>1, <1>2, <1>3
  <1>4. CASE \E r \in picked, s \in {1, 2} : Pick({[r EXCEPT !.status = s]})
    <2>1. PICK r \in picked, s \in {1, 2} : Pick({[r EXCEPT !.status = s]})
      BY <1>4
    <2>2. r \in Row
      BY AboutOpen
    <2>3. [r EXCEPT !.status = s] \in Row
      BY <2>2 DEF Row
    <2>. QED BY <1>2, <2>1, <2>3
  <1>5. CASE Pick({})
    <2>1. {} \in SUBSET Row /\ IsFiniteSet({})
      BY FS_EmptySet
    <2>. QED BY <1>5, <2>1, PickShaped
  <1>. QED BY <1>3, <1>4, <1>5 DEF WithdrawEdit

LEMMA WithdrawSubmits ==
    ASSUME TableTypes, view = "withdrawals", WithdrawSubmit
    PROVE  Shaped
  <1>1. PICK c \in Calls, r \in picked : Sends(c, Switch(r, r.status), {})
    BY DEF WithdrawSubmit
  <1>2. r \in Row /\ r.status \in 1..3
    BY AboutOpen DEF Row
  <1>. DEFINE t == r.status
  <1>3. t \in 0..3 /\ t # 0 /\ {} \in SUBSET Row
    BY <1>2
  <1>4. "switch" \in Ops(view)
    BY DEF Ops
  <1>. HIDE DEF t
  <1>5. Fits(view, Switch(r, t))
    BY <1>2, <1>3, <1>4, Changeable
  <1>6. Rowed(Switch(r, t))
    BY DEF Rowed
  <1>7. {} \in SUBSET Flags /\ {} \subseteq Clears(view, Switch(r, t)) /\ Sends(c, Switch(r, t), {})
    BY <1>1 DEF t
  <1>. QED BY <1>5, <1>6, <1>7, SendsShaped

LEMMA WithdrawUpdates ==
    ASSUME TableTypes, view = "withdrawals", NEW c \in Calls, WithdrawUpdated(c)
    PROVE  Shaped
  <1>. DEFINE q == LoadOf(call[c].search.word, 0, ItemsPerPage)
  <1>1. /\ call[c].pc = "answered" /\ call[c].req.op = "switch" /\ ~Broken(c) /\ picked' = {} /\ Notes(c, {})
        /\ Still /\ UNCHANGED <<list, search, knob>>
    BY DEF WithdrawUpdated, Answered
  <1>2. ~Idle(c) /\ Clears(view, call[c].req) = {} /\ "load" \in Ops(view) /\ view # "tokens"
    BY <1>1 DEF Idle, Clears, Ops
  <1>3. CASE Good(c)
    <2>1. GoOn(c, q) /\ pager' = [pager EXCEPT !.page = 1] /\ spin' = spin \cup {"loading"} /\ call[c].answer = "ok"
      BY <1>3 DEF WithdrawUpdated, Good
    <2>2. Fits(view, q) /\ q.op = "load" /\ q.page = 0
      <3>1. 0 \in Nat /\ ItemsPerPage \in Sizes /\ call[c].search.word \in Words
        BY <1>2, Smallest, AnswerTypes
      <3>2. Fits(view, q)
        BY <1>2, <3>1, Loadable
      <3>. QED BY <3>2 DEF LoadOf, Load
    <2>3. pager' \in Pagers
      <3>1. 1 \in Nat \ {0}
        OBVIOUS
      <3>. QED BY <2>1, <3>1, AboutOpen DEF Pagers
    <2>. HIDE DEF q
    <2>. QED BY <1>1, <1>2, <2>1, <2>2, <2>3, OnwardShaped
  <1>4. CASE ~Good(c)
    <2>1. End(c) /\ UNCHANGED <<pager, spin>> /\ call[c].answer # "ok"
      BY <1>4 DEF WithdrawUpdated, Good
    <2>2. spin' \subseteq spin /\ spin' \cap Clears(view, call[c].req) = {}
      BY <1>2, <2>1
    <2>. QED BY <1>1, <2>1, <2>2, AboutOpen, EndShaped
  <1>. QED BY <1>3, <1>4

LEMMA WithdrawShaped ==
    ASSUME TableTypes, view = "withdrawals", WithdrawStep
    PROVE  Shaped
  <1>1. CASE WithdrawRefresh \/ WithdrawType \/ WithdrawTurn
    BY <1>1, GrowingSends DEF WithdrawRefresh, WithdrawType, WithdrawTurn
  <1>2. ASSUME NEW c \in Calls, WithdrawLoaded(c)
        PROVE  Shaped
    BY <1>2, GrowingShaped DEF Even
  <1>3. ASSUME NEW c \in Calls, Thrown(c, {"loading"}), call[c].req.op = "load"
        PROVE  Shaped
    <2>1. Clears(view, call[c].req) \subseteq {"loading"}
      BY <1>3 DEF Clears
    <2>. QED BY <1>3, <2>1, ThrownShaped
  <1>4. ASSUME NEW c \in Calls, Thrown(c, {}), call[c].req.op = "switch"
        PROVE  Shaped
    <2>1. Clears(view, call[c].req) \subseteq {}
      BY <1>4 DEF Clears
    <2>. QED BY <1>4, <2>1, ThrownShaped
  <1>. QED BY <1>1, <1>2, <1>3, <1>4, WithdrawEdits, WithdrawSubmits, WithdrawUpdates DEF WithdrawStep

LEMMA TopUpSends ==
    ASSUME TableTypes, view = "topups", TopUpType \/ TopUpResize \/ TopUpPurge
    PROVE  Shaped
  <1>0. {"load", "purge"} \subseteq Ops(view) /\ 1 \in Nat \ {0}
    BY DEF Ops
  <1>1. CASE TopUpType
    <2>1. PICK q \in {"", "key"} \ {search.word}, c \in Calls :
             /\ search' = [search EXCEPT !.word = q]
             /\ pager' = [pager EXCEPT !.page = 1]
             /\ AskWith(c, LoadOf(q, 0, ItemsPerPage), search')
             /\ spin' = spin \cup {"loading"}
             /\ UNCHANGED <<view, db, list, picked, knob>>
      BY <1>1 DEF TopUpType
    <2>2. search' \in Forms /\ q \in Words
      BY <2>1, AboutOpen DEF Forms, Words
    <2>3. pager' \in Pagers
      BY <1>0, <2>1, AboutOpen DEF Pagers
    <2>4. AskBy(c, LoadOf(q, 0, ItemsPerPage), pager, search')
      BY <2>1 DEF AskWith
    <2>. QED BY <1>0, <2>1, <2>2, <2>3, <2>4, AboutOpen, FirstPageShaped
  <1>2. CASE TopUpResize
    <2>1. PICK n \in Sizes \ {pager.size}, c \in Calls :
             /\ pager' = [pager EXCEPT !.size = n, !.page = 1]
             /\ Starts(c, LoadOf(search.word, 0, ItemsPerPage), {"loading"})
             /\ UNCHANGED <<view, db, list, search, picked, knob>>
      BY <1>2 DEF TopUpResize
    <2>2. pager' \in Pagers
      BY <1>0, <2>1, AboutOpen, PagerIs
    <2>3. AskBy(c, LoadOf(search.word, 0, ItemsPerPage), pager, search) /\ spin' = spin \cup {"loading"}
      BY <2>1 DEF Starts, Ask
    <2>. QED BY <1>0, <2>1, <2>2, <2>3, AboutOpen, FirstPageShaped
  <1>3. CASE TopUpPurge
    <2>1. PICK c \in Calls : Sends(c, Purge, {"loading"})
      BY <1>3 DEF TopUpPurge
    <2>2. Purge \in Requests /\ Purge.op = "purge"
      <3>1. "" \in Words /\ {} \in SUBSET Row
        BY DEF Words
      <3>. QED BY <3>1 DEF Purge, Load, Requests
    <2>3. Fits(view, Purge) /\ {"loading"} \subseteq Clears(view, Purge) /\ {"loading"} \in SUBSET Flags
      BY <1>0, <2>2 DEF Fits, Clears, Flags
    <2>. QED BY <2>1, <2>2, <2>3, ReadShaped
  <1>. QED BY <1>1, <1>2, <1>3

LEMMA TopUpPurges ==
    ASSUME TableTypes, view = "topups", NEW c \in Calls, TopUpPurged(c)
    PROVE  Shaped
  <1>. DEFINE q == LoadOf(call[c].search.word, 0, ItemsPerPage)
  <1>1. /\ call[c].pc = "answered" /\ call[c].req.op = "purge" /\ GoOn(c, q) /\ pager' = [pager EXCEPT !.page = 1]
        /\ spin' = spin \ {"loading"} /\ Notes(c, {"deleted"}) /\ Still /\ UNCHANGED <<list, search, picked, knob>>
    BY DEF TopUpPurged, Answered
  <1>2. ~Idle(c) /\ Clears(view, call[c].req) = {"loading"} /\ "load" \in Ops(view)
    BY <1>1 DEF Idle, Clears, Ops
  <1>3. Fits(view, q) /\ q.op = "load" /\ q.page = 0
    <2>1. 0 \in Nat /\ ItemsPerPage \in Sizes /\ call[c].search.word \in Words
      BY <1>2, Smallest, AnswerTypes
    <2>2. Fits(view, q)
      BY <1>2, <2>1, Loadable
    <2>. QED BY <2>2 DEF LoadOf, Load
  <1>4. pager' \in Pagers /\ spin' \subseteq spin \cup {"loading"}
    <2>1. 1 \in Nat \ {0}
      OBVIOUS
    <2>. QED BY <1>1, <2>1, AboutOpen DEF Pagers
  <1>. HIDE DEF q
  <1>. QED BY <1>1, <1>2, <1>3, <1>4, OnwardShaped

LEMMA TopUpShaped ==
    ASSUME TableTypes, view = "topups", TopUpStep
    PROVE  Shaped
  <1>1. CASE TopUpRefresh \/ TopUpTurn
    BY <1>1, GrowingSends DEF TopUpRefresh, TopUpTurn
  <1>2. ASSUME NEW c \in Calls, TopUpLoaded(c) \/ Thrown(c, {})
        PROVE  Shaped
    BY <1>2, GrowingShaped, ThrownShaped DEF Even, Sure
  <1>. QED BY <1>1, <1>2, TopUpSends, TopUpPurges DEF TopUpStep

LEMMA MjShaped ==
    ASSUME TableTypes, view = "mjlogs", MjStep
    PROVE  Shaped
  <1>1. CASE MjRefresh \/ MjType \/ MjTurn
    BY <1>1, GrowingSends DEF MjRefresh, MjType, MjTurn
  <1>2. ASSUME NEW c \in Calls, MjLoaded(c) \/ Thrown(c, {})
        PROVE  Shaped
    BY <1>2, GrowingShaped, ThrownShaped DEF Even, Sure
  <1>. QED BY <1>1, <1>2 DEF MjStep

-----------------------------------------------------------------------------
(* The logs, and the tables of the user                                    *)

LEMMA LogAsks ==
    ASSUME TableTypes, view = "logs", LogRefresh \/ LogInput \/ LogType \/ LogTurn \/ LogResize
    PROVE  Shaped
  <1>0. "load" \in Ops(view) /\ view \notin Even
    BY DEF Ops, Even
  <1>1. ASSUME NEW c \in Calls, NEW w \in Words, NEW n \in Sizes, NEW m \in Nat, NEW p \in Pagers, NEW f \in Forms,
               NEW q, q \in {LoadOf(w, m, n), Reload(w, n)}, AskBy(c, q, p, f),
               spin' = spin \cup {"loading"}, pager' \in Pagers, search' \in Forms, UNCHANGED <<view, db, list, picked, knob>>
        PROVE  Shaped
    <2>1. Fits(view, q)
      BY <1>0, <1>1, FirstIs, Loadable
    <2>2. q.op = "load"
      BY <1>1 DEF LoadOf, Reload, Load
    <2>3. q.op \in Reads /\ spin' \subseteq Flags /\ spin' \subseteq spin \cup Clears(view, q)
      BY <1>1, <2>2, AboutOpen DEF Clears, Reads, Flags
    <2>. QED BY <1>1, <2>1, <2>3, StartsShaped
  <1>2. CASE LogRefresh
    <2>1. PICK c \in Calls :
            /\ pager' = [pager EXCEPT !.page = 1]
            /\ Starts(c, Reload(search.word, pager.size), {"loading"})
            /\ UNCHANGED <<view, db, list, search, picked, knob>>
      BY <1>2 DEF LogRefresh
    <2>2. AskBy(c, Reload(search.word, pager.size), pager, search) /\ spin' = spin \cup {"loading"}
      BY <2>1 DEF Starts, Ask
    <2>3. pager' \in Pagers
      BY <2>1, AboutOpen, FirstIs, PagerIs
    <2>. QED BY <1>1, <2>1, <2>2, <2>3, AboutOpen, FirstIs
  <1>3. CASE LogInput
    BY <1>3, TypeShaped DEF LogInput
  <1>4. CASE LogType
    <2>1. PICK q \in {"", "key"} \ {search.word}, c \in Calls :
            /\ search' = [search EXCEPT !.word = q]
            /\ pager' = [pager EXCEPT !.page = 1]
            /\ AskWith(c, Reload(q, pager.size), search')
            /\ spin' = spin \cup {"loading"}
            /\ UNCHANGED <<view, db, list, picked, knob>>
      BY <1>4 DEF LogType
    <2>2. AskBy(c, Reload(q, pager.size), pager, search')
      BY <2>1 DEF AskWith
    <2>3. pager' \in Pagers
      BY <2>1, AboutOpen, FirstIs, PagerIs
    <2>4. search' \in Forms /\ q \in Words
      BY <2>1, AboutOpen DEF Forms, Words
    <2>. QED BY <1>1, <2>1, <2>2, <2>3, <2>4, AboutOpen, FirstIs
  <1>5. CASE LogTurn
    <2>1. PICK p \in 1..Ceil(pager.count, pager.size), c \in Calls :
            /\ p # pager.page
            /\ pager' = [pager EXCEPT !.page = p]
            /\ Starts(c, LoadOf(search.word, p - 1, pager.size), {"loading"})
            /\ UNCHANGED <<view, db, list, search, picked, knob>>
      BY <1>5 DEF LogTurn
    <2>2. AskBy(c, LoadOf(search.word, p - 1, pager.size), pager, search) /\ spin' = spin \cup {"loading"}
      BY <2>1 DEF Starts, Ask
    <2>3. p \in Nat \ {0} /\ p - 1 \in Nat
      <3>1. pager.count \in Nat /\ pager.size \in Nat \ {0}
        BY SizesAssumption, AboutOpen DEF Pagers
      <3>2. Ceil(pager.count, pager.size) \in Nat
        BY <3>1, CeilIs
      <3>. QED BY <3>2
    <2>4. pager' \in Pagers
      BY <2>1, <2>3, AboutOpen, FirstIs, PagerIs
    <2>. QED BY <1>1, <2>1, <2>2, <2>3, <2>4, AboutOpen, FirstIs
  <1>6. CASE LogResize
    <2>1. PICK n \in Sizes \ {pager.size}, c, d \in Calls :
            /\ pager' = [pager EXCEPT !.size = n, !.page = 1]
            /\ AskTwo(c, d, LoadOf(search.word, 0, pager.size), Reload(search.word, n), pager')
            /\ spin' = spin \cup {"loading"}
            /\ UNCHANGED <<view, db, list, search, picked, knob>>
      BY <1>6 DEF LogResize
    <2>. DEFINE q == LoadOf(search.word, 0, pager.size)
                o == Reload(search.word, n)
    <2>2. pager' \in Pagers
      BY <2>1, AboutOpen, FirstIs, PagerIs
    <2>3. Fits(view, q) /\ Fits(view, o)
      BY <1>0, AboutOpen, FirstIs, Loadable
    <2>4. q.op = "load" /\ o.op = "load" /\ q.page = 0
      BY DEF LoadOf, Reload, Load
    <2>. HIDE DEF q, o
    <2>5. q.op \in Reads /\ o.op \in Reads /\ spin' \subseteq Flags /\ spin' \subseteq spin \cup Clears(view, q) \cup Clears(view, o)
      BY <2>1, <2>4, AboutOpen DEF Clears, Reads, Flags
    <2>6. AskTwo(c, d, q, o, pager')
      BY <2>1 DEF q, o
    <2>. QED BY <2>1, <2>2, <2>3, <2>4, <2>5, <2>6, AboutOpen, AskTwoShaped
  <1>. QED BY <1>2, <1>3, <1>4, <1>5, <1>6

LEMMA LogAnswers ==
    ASSUME TableTypes, view = "logs", NEW c \in Calls, LogLoaded(c) \/ LogTotals(c)
    PROVE  Shaped
  <1>. DEFINE k == call[c]
  <1>1. CASE LogLoaded(c)
    <2>1. /\ k.pc = "answered" /\ k.req.op = "load" /\ spin' = spin \ {"loading"} /\ Still /\ UNCHANGED <<picked, knob>>
          /\ IF Good(c) THEN Show(Objects(k.data), k.req.query) /\ pager' = [pager EXCEPT !.count = k.total]
                        ELSE UNCHANGED <<list, pager>>
          /\ Notes(c, {}) \/ Notes(c, {"toggled"})
          /\ UNCHANGED search \/ search' = [search EXCEPT !.filtering = FALSE]
      BY <1>1 DEF LogLoaded, Answered
    <2>2. ~Idle(c)
      BY <2>1 DEF Idle
    <2>3. Handles(c)
      BY <2>1, HandlesIs DEF Still
    <2>4. list' \in Lists /\ pager' \in Pagers
      <3>1. Objects(k.data) \in Seq(Row) /\ k.req.query \in Words /\ k.total \in Nat /\ Fresh \in Nat
        BY <2>2, FirstIs, PlacedIs, AnswerTypes, FreshIs
      <3>2. list \in Lists /\ pager \in Pagers
        BY DEF TableTypes
      <3>3. Show(Objects(k.data), k.req.query) => list' \in Lists
        <4>1. Show(Objects(k.data), k.req.query) => list' = [arr |-> Fresh, rows |-> Objects(k.data), of |-> k.req.query]
          BY DEF Show
        <4>. QED BY <3>1, <4>1 DEF Lists
      <3>4. pager' = [pager EXCEPT !.count = k.total] => pager' \in Pagers
        BY <3>1, <3>2 DEF Pagers
      <3>. QED BY <2>1, <3>2, <3>3, <3>4
    <2>5. view' = view /\ search' \in Forms /\ spin' \subseteq Flags /\ picked' \in {picked, {}}
      BY <2>1, AboutOpen DEF Still, Forms
    <2>6. Spun(c)
      BY <2>1 DEF Spun, Clears
    <2>7. Handled(c)
      BY <1>1, <2>3, <2>4 DEF Handled, ShapeLog
    <2>. QED BY <2>1, <2>4, <2>5, <2>6, <2>7, HandledShaped
  <1>2. CASE LogTotals(c)
    <2>1. /\ k.pc = "answered" /\ k.req.op = "totals" /\ End(c) /\ Notes(c, {}) /\ Still
          /\ search' = [search EXCEPT !.filtering = TRUE, !.stat = IF Good(c) THEN k.req.query ELSE @]
          /\ UNCHANGED <<list, pager, spin, picked, knob>>
      BY <1>2 DEF LogTotals, Answered
    <2>2. ~Idle(c)
      BY <2>1 DEF Idle
    <2>3. search' \in Forms
      <3>1. k.req.query \in Words
        BY <2>2, AnswerTypes
      <3>. QED BY <2>1, <3>1, AboutOpen DEF Forms
    <2>4. spin' \subseteq spin /\ spin' \cap Clears(view, k.req) = {}
      BY <2>1 DEF Clears
    <2>. QED BY <2>1, <2>3, <2>4, AboutOpen, EndShaped
  <1>. QED BY <1>1, <1>2

LEMMA LogShaped ==
    ASSUME TableTypes, view = "logs", LogStep
    PROVE  Shaped
  <1>1. ASSUME NEW c \in Calls, Thrown(c, {}), call[c].req.op = "totals"
        PROVE  Shaped
    <2>1. Clears(view, call[c].req) \subseteq {}
      BY <1>1 DEF Clears
    <2>. QED BY <1>1, <2>1, ThrownShaped
  <1>. QED BY <1>1, LogAsks, LogAnswers DEF LogStep

\* The forms of the user's logs and of the Midjourney tasks.
LEMMA HistoryAsks ==
    ASSUME TableTypes, view \in {"minelogs", "minemj"}, view = "minemj" => pager.size = ItemsPerPage,
           HistoryInput \/ HistorySearch \/ HistoryReset
    PROVE  Shaped
  <1>0. "load" \in Ops(view) /\ (view \in Even => pager.size = ItemsPerPage)
    BY DEF Ops, Even
  <1>1. CASE HistoryInput
    BY <1>1, TypeShaped DEF HistoryInput
  <1>2. CASE HistorySearch
    <2>1. PICK c \in Calls : Sends(c, ThenPage(LoadOf(search.word, 0, pager.size), 1), {"loading"})
      BY <1>2 DEF HistorySearch
    <2>. QED BY <1>0, <2>1, FirstIs, AboutOpen, LoadSends
  <1>3. CASE HistoryReset
    <2>1. PICK c, d \in Calls :
            /\ pager' = [pager EXCEPT !.page = 1]
            /\ search' = [search EXCEPT !.word = ""]
            /\ AskTwo(c, d, LoadOf(search.word, 0, pager.size), Load(0, pager.size), pager')
            /\ spin' = spin \cup {"loading"}
            /\ UNCHANGED <<view, db, list, picked, knob>>
      BY <1>3 DEF HistoryReset
    <2>. DEFINE q == LoadOf(search.word, 0, pager.size)
                o == Load(0, pager.size)
    <2>2. pager' \in Pagers /\ search' \in Forms
      <3>1. search' \in Forms
        BY <2>1, AboutOpen DEF Forms
      <3>. QED BY <2>1, <3>1, AboutOpen, FirstIs, PagerIs
    <2>3. Fits(view, q) /\ Fits(view, o)
      BY <1>0, AboutOpen, FirstIs, Loadable
    <2>4. q.op = "load" /\ o.op = "load" /\ q.page = 0
      BY DEF LoadOf, Load
    <2>. HIDE DEF q, o
    <2>5. q.op \in Reads /\ o.op \in Reads /\ spin' \subseteq Flags /\ spin' \subseteq spin \cup Clears(view, q) \cup Clears(view, o)
      BY <2>1, <2>4, AboutOpen DEF Clears, Reads, Flags
    <2>6. AskTwo(c, d, q, o, pager')
      BY <2>1 DEF q, o
    <2>. QED BY <2>1, <2>2, <2>3, <2>4, <2>5, <2>6, AboutOpen, AskTwoShaped
  <1>. QED BY <1>1, <1>2, <1>3

LEMMA LogPageShaped ==
    ASSUME TableTypes, view = "minelogs", LogPageStep
    PROVE  Shaped
  <1>0. "load" \in Ops(view) /\ view \notin Even
    BY DEF Ops, Even
  <1>1. CASE HistoryInput \/ HistorySearch \/ HistoryReset
    BY <1>1, HistoryAsks
  <1>2. CASE LogPageTurn
    <2>1. PICK p \in {pager.page - 1, pager.page + 1} \cap 1..Ceil(pager.count, pager.size) :
            /\ pager' = [pager EXCEPT !.page = p]
            /\ IF p - 1 = Ceil(Len(list.rows), pager.size)
               THEN \E c \in Calls : Starts(c, LoadOf(search.word, p - 1, pager.size), {"loading"})
               ELSE Turned /\ UNCHANGED spin
            /\ UNCHANGED <<view, db, list, search, picked, knob>>
      BY <1>2 DEF LogPageTurn
    <2>2. p \in Nat \ {0} /\ p - 1 \in Nat
      <3>1. pager.count \in Nat /\ pager.size \in Nat \ {0}
        BY SizesAssumption, AboutOpen DEF Pagers
      <3>2. Ceil(pager.count, pager.size) \in Nat
        BY <3>1, CeilIs
      <3>. QED BY <3>2
    <2>3. pager' \in Pagers
      BY <2>1, <2>2, AboutOpen, FirstIs, PagerIs
    <2>4. CASE p - 1 = Ceil(Len(list.rows), pager.size)
      <3>. DEFINE q == LoadOf(search.word, p - 1, pager.size)
      <3>1. PICK c \in Calls : Starts(c, q, {"loading"})
        BY <2>1, <2>4
      <3>2. AskBy(c, q, pager, search) /\ spin' = spin \cup {"loading"}
        BY <3>1 DEF Starts, Ask
      <3>3. Fits(view, q) /\ q.op = "load"
        <4>1. Fits(view, q)
          BY <1>0, <2>2, AboutOpen, FirstIs, Loadable
        <4>. QED BY <4>1 DEF LoadOf, Load
      <3>. HIDE DEF q
      <3>4. q.op \in Reads /\ spin' \subseteq Flags /\ spin' \subseteq spin \cup Clears(view, q)
        BY <3>2, <3>3, AboutOpen DEF Clears, Reads, Flags
      <3>. QED BY <2>1, <2>3, <3>2, <3>3, <3>4, AboutOpen, StartsShaped
    <2>5. CASE p - 1 # Ceil(Len(list.rows), pager.size)
      <3>1. UNCHANGED <<bounds, call, spin>> /\ history' = history \cup Early
        BY <2>1, <2>5 DEF Turned
      <3>. QED BY <2>1, <2>3, <3>1, AboutOpen, LocalShaped DEF TableTypes
    <2>. QED BY <2>4, <2>5
  <1>3. CASE LogPageResize
    <2>1. PICK n \in Sizes \ {pager.size}, c, d \in Calls :
            /\ pager' = [pager EXCEPT !.size = n, !.page = 1]
            /\ search' = [search EXCEPT !.word = ""]
            /\ AskTwo(c, d, LoadOf(search.word, 0, pager.size), LoadOf(search.word, 0, n), pager')
            /\ spin' = spin \cup {"loading"}
            /\ UNCHANGED <<view, db, list, picked, knob>>
      BY <1>3 DEF LogPageResize
    <2>. DEFINE q == LoadOf(search.word, 0, pager.size)
                o == LoadOf(search.word, 0, n)
    <2>2. pager' \in Pagers /\ search' \in Forms
      <3>1. search' \in Forms
        BY <2>1, AboutOpen DEF Forms
      <3>. QED BY <2>1, <3>1, AboutOpen, FirstIs, PagerIs
    <2>3. Fits(view, q) /\ Fits(view, o)
      BY <1>0, AboutOpen, FirstIs, Loadable
    <2>4. q.op = "load" /\ o.op = "load" /\ q.page = 0
      BY DEF LoadOf, Load
    <2>. HIDE DEF q, o
    <2>5. q.op \in Reads /\ o.op \in Reads /\ spin' \subseteq Flags /\ spin' \subseteq spin \cup Clears(view, q) \cup Clears(view, o)
      BY <2>1, <2>4, AboutOpen DEF Clears, Reads, Flags
    <2>6. AskTwo(c, d, q, o, pager')
      BY <2>1 DEF q, o
    <2>. QED BY <2>1, <2>2, <2>3, <2>4, <2>5, <2>6, AboutOpen, AskTwoShaped
  <1>4. ASSUME NEW c \in Calls, LogPageLoaded(c)
        PROVE  Shaped
    <2>. DEFINE n == call[c].req.size
    <2>1. /\ Answered(c, "load") /\ spin' = spin \ {"loading"} /\ End(c) /\ Still /\ UNCHANGED <<search, picked, knob>>
          /\ IF Good(c) THEN Show(Placed(c, n), Of(c)) /\ Notes(c, Misfits(c, n)) ELSE UNCHANGED list /\ Notes(c, {})
          /\ IF Good(c) THEN pager' = [pager EXCEPT !.page = PageAfter(c), !.count = call[c].total]
                        ELSE pager' = [pager EXCEPT !.page = PageAfter(c)]
      BY <1>4 DEF LogPageLoaded
    <2>2. ~Idle(c)
      BY <2>1, LoadSize
    <2>3. PageAfter(c) \in Nat \ {0} /\ call[c].total \in Nat
      BY <2>2, FirstIs, PlacedIs, AnswerTypes
    <2>4. pager' \in Pagers
      BY <2>1, <2>3, AboutOpen DEF Pagers
    <2>. QED BY <2>1, <2>4, LoadedShaped
  <1>. QED BY <1>1, <1>2, <1>3, <1>4 DEF LogPageStep

LEMMA MjPageShaped ==
    ASSUME TableTypes, view = "minemj", pager.size = ItemsPerPage, MjPageStep
    PROVE  Shaped
  <1>0. "load" \in Ops(view) /\ ItemsPerPage \in Sizes /\ ItemsPerPage \in Nat \ {0} /\ ItemsPerPage \in Nat
    BY Smallest, SizesAssumption DEF Ops
  <1>1. CASE HistoryInput \/ HistorySearch \/ HistoryReset
    BY <1>1, HistoryAsks
  <1>2. CASE MjPageTurn
    <2>1. PICK p \in {pager.page - 1, pager.page + 1} \cap 1..Ceil(MjPageCount, ItemsPerPage) :
            IF p - 1 = Ceil(Len(list.rows), ItemsPerPage)
            THEN \E c \in Calls : Sends(c, ThenPage(LoadOf(search.word, p - 1, ItemsPerPage), p), {"loading"})
            ELSE /\ pager' = [pager EXCEPT !.page = p]
                 /\ Turned /\ UNCHANGED <<view, db, list, search, spin, picked, knob>>
      BY <1>2 DEF MjPageTurn
    <2>2. p \in Nat \ {0} /\ p - 1 \in Nat /\ p \in Nat
      <3>1. pager.page \in Nat \ {0} /\ p \in {pager.page - 1, pager.page + 1} /\ p \in 1..Ceil(MjPageCount, ItemsPerPage)
        BY AboutOpen
      <3>2. p \in Int /\ p >= 1
        BY <3>1
      <3>. QED BY <3>2
    <2>3. CASE p - 1 = Ceil(Len(list.rows), ItemsPerPage)
      <3>1. PICK c \in Calls : Sends(c, ThenPage(LoadOf(search.word, p - 1, ItemsPerPage), p), {"loading"})
        BY <2>1, <2>3
      <3>2. {"loading"} \in SUBSET {"loading"} /\ search.word \in Words
        BY AboutOpen
      <3>. QED BY <1>0, <2>2, <3>1, <3>2, LoadSends
    <2>4. CASE p - 1 # Ceil(Len(list.rows), ItemsPerPage)
      <3>1. /\ UNCHANGED <<view, db, list, search, spin, picked, knob>> /\ UNCHANGED <<bounds, call>>
            /\ history' = history \cup Early /\ pager' = [pager EXCEPT !.page = p]
        BY <2>1, <2>4 DEF Turned
      <3>2. pager' \in Pagers
        BY <2>2, <3>1, AboutOpen DEF Pagers
      <3>. QED BY <3>1, <3>2, AboutOpen, LocalShaped DEF TableTypes
    <2>. QED BY <2>3, <2>4
  <1>3. ASSUME NEW c \in Calls, MjPageLoaded(c)
        PROVE  Shaped
    <2>. DEFINE n == ItemsPerPage
    <2>1. /\ Answered(c, "load") /\ spin' = spin \ {"loading"} /\ End(c) /\ Still /\ UNCHANGED <<search, picked, knob>>
          /\ IF Good(c) THEN Show(Placed(c, n), Of(c)) /\ Notes(c, Misfits(c, n)) ELSE UNCHANGED list /\ Notes(c, {})
          /\ pager' = [pager EXCEPT !.page = PageAfter(c)]
      BY <1>3 DEF MjPageLoaded
    <2>2. ~Idle(c) /\ n = call[c].req.size
      BY <2>1, LoadSize DEF Even
    <2>3. PageAfter(c) \in Nat \ {0}
      BY <2>2, FirstIs, PlacedIs
    <2>4. pager' \in Pagers
      BY <2>1, <2>3, AboutOpen DEF Pagers
    <2>. HIDE DEF n
    <2>. QED BY <2>1, <2>2, <2>4, LoadedShaped
  <1>4. ASSUME NEW c \in Calls, Thrown(c, {})
        PROVE  Shaped
    BY <1>4, ThrownShaped DEF Sure
  <1>. QED BY <1>1, <1>2, <1>3, <1>4 DEF MjPageStep

LEMMA OrdersShaped ==
    ASSUME TableTypes, view = "minewd", OrdersStep
    PROVE  Shaped
  <1>1. CASE OrdersTurn
    <2>1. PICK p \in 1..Ceil(Len(list.rows), pager.size) :
            /\ p # pager.page /\ pager' = [pager EXCEPT !.page = p]
            /\ Turned /\ UNCHANGED <<view, db, list, search, spin, picked, knob>>
      BY <1>1 DEF OrdersTurn
    <2>2. p \in Nat \ {0}
      <3>1. Len(list.rows) \in Nat /\ pager.size \in Nat \ {0}
        BY SizesAssumption, AboutOpen, LenProperties
      <3>2. Ceil(Len(list.rows), pager.size) \in Nat
        BY <3>1, CeilIs
      <3>. QED BY <3>2
    <2>3. UNCHANGED <<bounds, call>> /\ history' = history \cup Early
      BY <2>1 DEF Turned
    <2>4. pager' \in Pagers
      BY <2>1, <2>2, AboutOpen DEF Pagers
    <2>. QED BY <2>1, <2>3, <2>4, AboutOpen, LocalShaped DEF TableTypes
  <1>2. ASSUME NEW c \in Calls, OrdersLoaded(c)
        PROVE  Shaped
    <2>1. /\ call[c].pc = "answered" /\ call[c].req.op = "search" /\ End(c) /\ Notes(c, {}) /\ Still
          /\ UNCHANGED <<pager, search, spin, picked, knob>>
          /\ IF Good(c) THEN Show(Objects(call[c].data), "") ELSE Show(<<>>, "")
      BY <1>2 DEF OrdersLoaded, Answered
    <2>2. ~Idle(c)
      BY <2>1 DEF Idle
    <2>3. view' = view /\ pager' \in Pagers /\ search' \in Forms /\ spin' \subseteq Flags /\ picked' \in {picked, {}}
      BY <2>1, AboutOpen DEF Still
    <2>4. Spun(c)
      BY <2>1 DEF Spun, Clears
    <2>5. CASE Good(c)
      <3>1. call[c].req.query = ""
        BY <2>1, <2>2, Under DEF Fits
      <3>2. Show(Objects(call[c].data), call[c].req.query) /\ Answered(c, "search")
        BY <2>1, <2>5, <3>1 DEF Answered
      <3>3. Handled(c)
        BY <2>1, <2>5, <3>2, SearchShaped
      <3>. QED BY <2>1, <2>3, <2>4, <3>3, HandledShaped
    <2>6. CASE ~Good(c)
      <3>1. list' = [arr |-> Fresh, rows |-> <<>>, of |-> ""]
        BY <2>1, <2>6 DEF Show
      <3>2. list' \in Lists /\ list'.rows = <<>>
        <4>1. <<>> \in Seq(Row) /\ "" \in Words
          BY EmptySeq DEF Words
        <4>. QED BY <3>1, <4>1, FreshIs DEF Lists
      <3>3. Handles(c)
        BY <2>1, HandlesIs DEF Still
      <3>4. Handled(c)
        BY <2>1, <3>2, <3>3 DEF Handled, ShapeBad
      <3>. QED BY <2>1, <2>3, <2>4, <3>4, HandledShaped
    <2>. QED BY <2>5, <2>6
  <1>. QED BY <1>1, <1>2 DEF OrdersStep

\* The rows that are mounted are rows of the list.
LEMMA MountedIs ==
    ASSUME NEW l \in Lists, NEW p \in Pagers
    PROVE  Mounted(l, p) \subseteq ToSet(l.rows) /\ Mounted(l, p) \subseteq Row /\ IsFiniteSet(Mounted(l, p))
  <1>1. l.rows \in Seq(Row) /\ Len(l.rows) \in Nat /\ p.page \in Nat \ {0} /\ p.size \in Nat
    <2>1. l.rows \in Seq(Row) /\ p.page \in Nat \ {0} /\ p.size \in Sizes
      BY DEF Lists, Pagers
    <2>. QED BY <2>1, LenProperties, SizesAssumption
  <1>. DEFINE f == (p.page - 1) * p.size + 1
              m == p.page * p.size
              t == IF m < Len(l.rows) THEN m ELSE Len(l.rows)
  <1>2. f \in Nat \ {0} /\ m \in Nat
    <2>1. (p.page - 1) * p.size \in Nat
      BY <1>1
    <2>. QED BY <1>1, <2>1
  <1>3. t \in Nat /\ t <= Len(l.rows)
    <2>. HIDE DEF m
    <2>. QED BY <1>1, <1>2
  <1>4. Mounted(l, p) = ToSet(SubSeq(l.rows, f, t))
    BY DEF Mounted
  <1>. HIDE DEF f, t
  <1>. DEFINE s == SubSeq(l.rows, f, t)
  <1>5. s \in Seq(Row) /\ ToSet(s) \subseteq ToSet(l.rows)
    BY <1>1, <1>2, <1>3, SubSeqRows
  <1>. HIDE DEF s
  <1>6. ToSet(s) \subseteq Row /\ IsFiniteSet(ToSet(s))
    BY <1>5, RowsOfSeq
  <1>. QED BY <1>4, <1>5, <1>6 DEF s

LEMMA MountKnobs ==
    ASSUME TableTypes, NEW f, Mount(f), list' \in Lists, pager' \in Pagers
    PROVE  knob' \in [Ids -> 0..3]
  <1>. DEFINE now == Mounted(list', pager')
  <1>1. now \subseteq Row
    BY MountedIs
  <1>2. knob' = [i \in Ids |-> IF i \notin NamesOf(now) THEN 0 ELSE IF knob[i] # 0 THEN knob[i] ELSE StatusIn(now, i)]
    BY DEF Mount
  <1>. HIDE DEF now
  <1>3. ASSUME NEW i \in NamesOf(now)
        PROVE  StatusIn(now, i) \in 0..3
    <2>1. \E r \in now : r.id = i
      BY DEF NamesOf
    <2>2. (CHOOSE r \in now : r.id = i) \in Row
      BY <1>1, <2>1
    <2>. QED BY <2>2 DEF StatusIn, Row
  <1>4. knob \in [Ids -> 0..3] /\ 0 \in 0..3
    BY DEF TableTypes
  <1>. QED BY <1>2, <1>3, <1>4

\* What a row of the page may ask, by its own switch.
LEMMA MineAsks ==
    ASSUME TableTypes, view = "mine", MineManage \/ MineRefresh \/ MineSearch \/ MineType \/ MineBatch
    PROVE  Shaped
  <1>0. {"load", "search", "switch", "delete", "drop"} \subseteq Ops(view) /\ view \notin Even /\ {} \in SUBSET Flags
    BY DEF Ops, Even
  <1>1. CASE MineManage
    <2>0. PICK c \in Calls, r \in Mounted(list, pager) : \E q \in MineControls(r) : Sends(c, q, {})
      BY <1>1 DEF MineManage
    <2>1. PICK q \in MineControls(r) : Sends(c, q, {})
      BY <2>0
    <2>2. r \in ToSet(list.rows) /\ r \in Row
      BY MountedIs, AboutOpen DEF TableTypes
    <2>3. q = Switch(r, 1) \/ q = Switch(r, 2) \/ q = Delete(r)
      BY DEF MineControls
    <2>4. 1 \in 0..3 /\ 2 \in 0..3 /\ {} \in SUBSET Row /\ 1 # 0 /\ 2 # 0 /\ 1 # 3 /\ 2 # 3
      OBVIOUS
    <2>5. Fits(view, q)
      <3>1. Fits(view, Switch(r, 1)) /\ Fits(view, Delete(r))
        BY <1>0, <2>2, <2>4, Changeable
      <3>2. Fits(view, Switch(r, 2))
        BY <1>0, <2>2, <2>4, Changeable
      <3>. QED BY <2>3, <3>1, <3>2
    <2>6. Rowed(q)
      BY <2>2, <2>3, RowRowed
    <2>. QED BY <1>0, <2>1, <2>5, <2>6, SendsShaped
  <1>2. CASE MineRefresh
    <2>1. PICK c \in Calls : Sends(c, ThenPage(Load(0, ItemsPerPage), 1), {"loading"})
      BY <1>2 DEF MineRefresh
    <2>. QED BY <1>0, <2>1, FirstIs, AboutOpen, Smallest, LoadSends
  <1>3. CASE MineSearch
    <2>1. PICK c \in Calls : Sends(c, ThenPage(Search(search.word), 1), {"loading"})
      BY <1>3 DEF MineSearch
    <2>. DEFINE q == ThenPage(Search(search.word), 1)
    <2>2. Fits(view, q) /\ q.op = "search"
      <3>1. Fits(view, q)
        BY <1>0, FirstIs, AboutOpen, Searchable
      <3>. QED BY <3>1 DEF ThenPage, Search, Load
    <2>. HIDE DEF q
    <2>3. {"loading"} \subseteq Clears(view, q) /\ {"loading"} \in SUBSET Flags
      BY <2>2 DEF Clears, Flags
    <2>. QED BY <2>1, <2>2, <2>3, ReadShaped DEF Reads, q
  <1>4. CASE MineType
    BY <1>4, TypeShaped DEF MineType
  <1>5. CASE MineBatch
    <2>1. PICK c \in Calls : Sends(c, Drop(picked), {})
      BY <1>5 DEF MineBatch
    <2>. QED BY <1>0, <2>1, DropSends
  <1>. QED BY <1>1, <1>2, <1>3, <1>4, <1>5

LEMMA MinePicks ==
    ASSUME TableTypes, view = "mine", MinePick
    PROVE  Shaped
  <1>0. picked \in SUBSET Row /\ IsFiniteSet(picked) /\ list.rows \in Seq(Row)
    BY AboutOpen DEF TableTypes
  <1>1. ASSUME NEW r \in Mounted(list, pager),
               Pick(IF r.id \in NamesOf(picked) THEN {p \in picked : p.id # r.id} ELSE picked \cup Keys({r}))
        PROVE  Shaped
    <2>1. r \in Row
      BY MountedIs, AboutOpen DEF TableTypes
    <2>. DEFINE A == {p \in picked : p.id # r.id}
                o == [id |-> r.id, arr |-> 0, status |-> 1]
    <2>2. Keys({r}) = {o} /\ o \in Row
      BY <2>1 DEF Keys, NamesOf, Row
    <2>3. A \in SUBSET Row /\ IsFiniteSet(A)
      BY <1>0, FS_Subset
    <2>. HIDE DEF A, o
    <2>4. picked \cup {o} \in SUBSET Row /\ IsFiniteSet(picked \cup {o})
      BY <1>0, <2>2, FS_AddElement
    <2>5. Pick(A) \/ Pick(picked \cup {o})
      BY <1>1, <2>2 DEF A
    <2>. QED BY <2>3, <2>4, <2>5, PickShaped
  <1>2. ASSUME NEW S \in {{}, Keys(ToSet(list.rows))}, Pick(S)
        PROVE  Shaped
    <2>1. S \in SUBSET Row /\ IsFiniteSet(S)
      BY <1>0, <1>2, RowsOfSeq, FS_EmptySet
    <2>. QED BY <1>2, <2>1, PickShaped
  <1>. QED BY <1>1, <1>2 DEF MinePick

LEMMA MineMounts ==
    ASSUME TableTypes, view = "mine", MineTurn \/ MineResize \/ \E c \in Calls : MineLoaded(c)
    PROVE  Shaped
  <1>0. list \in Lists /\ pager \in Pagers /\ search \in Forms /\ spin \subseteq Flags /\ picked \subseteq Row /\ IsFiniteSet(picked)
    BY DEF TableTypes
  <1>1. CASE MineTurn
    <2>1. PICK p \in {pager.page - 1, pager.page + 1} \ {0} :
            IF p - 1 >= Ceil(Len(list.rows), pager.size)
            THEN \E c \in Calls : Sends(c, ThenPage(Load(p - 1, ItemsPerPage), p), {"loading"})
            ELSE /\ pager' = [pager EXCEPT !.page = p]
                 /\ list' = list
                 /\ Mount(call) /\ history' = history \cup Forgotten \cup Early
                 /\ UNCHANGED <<view, db, search, spin, picked, bounds>>
      BY <1>1 DEF MineTurn
    <2>2. p \in Nat \ {0} /\ p - 1 \in Nat /\ p \in Nat
      <3>1. pager.page \in Nat \ {0} /\ p \in {pager.page - 1, pager.page + 1} \ {0}
        BY AboutOpen
      <3>. QED BY <3>1
    <2>3. CASE p - 1 >= Ceil(Len(list.rows), pager.size)
      <3>1. PICK c \in Calls : Sends(c, ThenPage(Load(p - 1, ItemsPerPage), p), {"loading"})
        BY <2>1, <2>3
      <3>2. "load" \in Ops(view) /\ view \notin Even /\ {"loading"} \in SUBSET {"loading"}
        BY DEF Ops, Even
      <3>. QED BY <2>2, <3>1, <3>2, AboutOpen, Smallest, LoadSends
    <2>4. CASE ~(p - 1 >= Ceil(Len(list.rows), pager.size))
      <3>1. /\ pager' = [pager EXCEPT !.page = p] /\ list' = list
            /\ Mount(call) /\ history' = history \cup Forgotten \cup Early
            /\ UNCHANGED <<view, db, search, spin, picked, bounds>>
        BY <2>1, <2>4
      <3>2. pager' \in Pagers
        BY <1>0, <2>2, <3>1 DEF Pagers
      <3>3. knob' \in [Ids -> 0..3]
        BY <1>0, <3>1, <3>2, MountKnobs
      <3>4. Around
        BY <1>0, <3>1, <3>2, <3>3 DEF Around
      <3>5. ShapeMine
        BY <3>1 DEF ShapeMine, ShapeFlip
      <3>. QED BY <3>4, <3>5 DEF Shaped
    <2>. QED BY <2>3, <2>4
  <1>2. CASE MineResize
    <2>1. PICK n \in Sizes : pager' = [pager EXCEPT !.size = n, !.page = 1]
      BY <1>2 DEF MineResize
    <2>2. PICK f \in [Calls -> Goods(view) \cup {NoCall}] : Mount(f)
      BY <1>2, MineResizes
    <2>3. UNCHANGED <<view, db, list, search, picked>> /\ spin' = spin \cup {"loading"}
      BY <1>2 DEF MineResize
    <2>4. pager' \in Pagers
      BY <1>0, <2>1, FirstIs, PagerIs
    <2>5. knob' \in [Ids -> 0..3]
      BY <1>0, <2>2, <2>3, <2>4, MountKnobs
    <2>6. Around
      BY <1>0, <2>3, <2>4, <2>5 DEF Around, Flags
    <2>. QED BY <1>2, <2>6 DEF Shaped, ShapeMine
  <1>3. ASSUME NEW c \in Calls, MineLoaded(c)
        PROVE  Shaped
    <2>. DEFINE k == call[c]
    <2>1. /\ k.pc = "answered" /\ Mount([call EXCEPT ![c] = NoCall]) /\ view' = view /\ UNCHANGED picked
          /\ spin' = spin \ {"loading"}
          /\ IF Good(c) THEN list' = [arr |-> Fresh, rows |-> Placed(c, k.req.size), of |-> Of(c)] ELSE list' = list
          /\ pager' = [pager EXCEPT !.page = IF k.req.op = "search" /\ ~Good(c) THEN pager.page ELSE PageAfter(c)]
          /\ search' = [search EXCEPT !.word = IF k.req.op = "load" /\ k.req.page = 0 /\ k.req.to = 1 THEN "" ELSE @]
      BY <1>3 DEF MineLoaded, Answered, Still
    <2>2. ~Idle(c)
      BY <2>1 DEF Idle
    <2>3. k.req.size \in Nat
      BY <2>2, Under DEF Requests
    <2>4. Placed(c, k.req.size) \in Seq(Row) /\ Of(c) \in Words /\ Fresh \in Nat /\ PageAfter(c) \in Nat \ {0}
      BY <2>2, <2>3, PlacedIs, FreshIs
    <2>5. list' \in Lists
      <3>1. CASE Good(c)
        <4>. DEFINE fresh == [arr |-> Fresh, rows |-> Placed(c, k.req.size), of |-> Of(c)]
        <4>1. fresh \in Lists
          BY <2>4 DEF Lists
        <4>. QED BY <2>1, <3>1, <4>1
      <3>2. CASE ~Good(c)
        BY <1>0, <2>1, <3>2
      <3>. QED BY <3>1, <3>2
    <2>6. pager' \in Pagers /\ search' \in Forms
      <3>1. pager' \in Pagers
        BY <1>0, <2>1, <2>4 DEF Pagers
      <3>. QED BY <1>0, <2>1, <3>1 DEF Forms
    <2>7. knob' \in [Ids -> 0..3]
      BY <2>1, <2>5, <2>6, MountKnobs
    <2>8. Around
      BY <1>0, <2>1, <2>6, <2>7 DEF Around
    <2>. QED BY <1>3, <2>8 DEF Shaped, ShapeMine
  <1>. QED BY <1>1, <1>2, <1>3

LEMMA MineManages ==
    ASSUME TableTypes, view = "mine", NEW c \in Calls, MineManaged(c)
    PROVE  Shaped
  <1>. DEFINE k == call[c]
              i == (CHOOSE r \in k.req.rows : TRUE).id
              q == Load(0, ItemsPerPage)
  <1>1. k.pc = "answered" /\ ~Broken(c) /\ Still /\ UNCHANGED <<list, pager, search, picked>>
    BY DEF MineManaged, Answered
  <1>2. ~Idle(c)
    BY <1>1 DEF Idle
  <1>3. view' = view /\ pager' \in Pagers /\ search' \in Forms /\ picked' \in {picked, {}}
    BY <1>1, AboutOpen DEF Still
  <1>4. CASE /\ Answered(c, "switch")
             /\ knob' = IF Good(c) /\ k.mounted THEN [knob EXCEPT ![i] = k.req.to] ELSE knob
             /\ End(c) /\ Notes(c, {}) /\ UNCHANGED spin
    <2>1. k.req.op = "switch"
      BY <1>4 DEF Answered
    <2>2. k.req.to \in 0..3 /\ knob \in [Ids -> 0..3]
      BY <1>2, <2>1, Under, FitsSwitch DEF TableTypes
    <2>3. knob' \in [Ids -> 0..3]
      BY <1>4, <2>2
    <2>4. Around
      BY <1>1, <1>4, <2>3 DEF Around, TableTypes, Still
    <2>5. Handles(c)
      BY <1>1, <1>4, HandlesIs DEF Still
    <2>6. ShapeEnd(c)
      BY <1>1, <1>4, <2>1, <2>5 DEF ShapeEnd
    <2>7. Spun(c)
      BY <1>4, <2>1 DEF Spun, Clears
    <2>. QED BY <2>4, <2>6, <2>7 DEF Shaped, Handled
  <1>5. CASE /\ Answered(c, "delete") /\ UNCHANGED knob /\ Notes(c, {"deleted"})
             /\ IF Good(c) THEN GoOn(c, q) /\ spin' = spin \cup {"loading"} ELSE End(c) /\ UNCHANGED spin
    <2>1. k.req.op = "delete" /\ Clears(view, k.req) = {}
      BY <1>5 DEF Answered, Clears
    <2>2. CASE Good(c)
      <3>1. GoOn(c, q) /\ spin' = spin \cup {"loading"} /\ k.answer = "ok"
        BY <1>5, <2>2 DEF Good
      <3>2. Fits(view, q) /\ q.op = "load" /\ q.page = 0
        <4>1. "load" \in Ops(view) /\ view \notin Even /\ "" \in Words
          BY DEF Ops, Even, Words
        <4>2. Fits(view, q)
          BY <4>1, FirstIs, Smallest, Loadable
        <4>. QED BY <4>2 DEF Load
      <3>. HIDE DEF q
      <3>. QED BY <1>1, <1>3, <1>5, <2>1, <3>1, <3>2, OnwardShaped
    <2>3. CASE ~Good(c)
      <3>1. End(c) /\ UNCHANGED spin /\ k.answer # "ok"
        BY <1>5, <2>3 DEF Good
      <3>2. spin' \subseteq spin /\ spin' \cap Clears(view, k.req) = {}
        BY <2>1, <3>1
      <3>. QED BY <1>1, <1>3, <1>5, <3>1, <3>2, EndShaped
    <2>. QED BY <2>2, <2>3
  <1>. QED BY <1>4, <1>5 DEF MineManaged

LEMMA MineDrops ==
    ASSUME TableTypes, view = "mine", NEW c \in Calls, MineDropped(c)
    PROVE  Shaped
  <1>. DEFINE q == Load(0, ItemsPerPage)
  <1>1. /\ call[c].pc = "answered" /\ call[c].req.op = "drop" /\ picked' = {} /\ GoOn(c, q) /\ spin' = spin \cup {"loading"}
        /\ Notes(c, {"deleted"}) /\ Still /\ UNCHANGED <<list, pager, search, knob>>
    BY DEF MineDropped, Answered
  <1>2. Clears(view, call[c].req) = {}
    BY <1>1 DEF Clears
  <1>3. Fits(view, q) /\ q.op = "load" /\ q.page = 0
    <2>1. "load" \in Ops(view) /\ view \notin Even /\ "" \in Words
      BY DEF Ops, Even, Words
    <2>2. Fits(view, q)
      BY <2>1, FirstIs, Smallest, Loadable
    <2>. QED BY <2>2 DEF Load
  <1>4. pager' \in Pagers
    BY <1>1, AboutOpen
  <1>. HIDE DEF q
  <1>. QED BY <1>1, <1>2, <1>3, <1>4, OnwardShaped

LEMMA MineShaped ==
    ASSUME TableTypes, view = "mine", MineStep
    PROVE  Shaped
  <1>1. ASSUME NEW c \in Calls, Thrown(c, {}), call[c].req.op \in {"switch", "delete"}
        PROVE  Shaped
    <2>1. Clears(view, call[c].req) \subseteq {}
      BY <1>1 DEF Clears
    <2>. QED BY <1>1, <2>1, ThrownShaped
  <1>. QED BY <1>1, MineAsks, MinePicks, MineMounts, MineManages, MineDrops DEF MineStep

-----------------------------------------------------------------------------
(* Every variable keeps its type                                           *)

\* The page size of the Midjourney tasks is the default.
PageTypes == TableTypes /\ (view = "minemj" => pager.size = ItemsPerPage)

LEMMA PageShaped ==
    ASSUME PageTypes, PageStep
    PROVE  Shaped
  BY ChannelShaped, TokenShaped, UserShaped, CodeShaped, WithdrawShaped, TopUpShaped, MjShaped, LogShaped, MineShaped,
     LogPageShaped, MjPageShaped, OrdersShaped DEF PageStep, PageTypes

LEMMA PageTypesStep ==
    ASSUME PageTypes, Next
    PROVE  PageTypes'
  <1>1. TableTypes'
    BY PageShaped, ShapedTypes, ServerTypes DEF PageTypes, Next
  <1>2. view' = view /\ (view = "minemj" => pager'.size = pager.size)
    <2>0. pager \in Pagers
      BY DEF PageTypes, TableTypes
    <2>1. ASSUME view = "minemj", MjPageStep
          PROVE  pager'.size = pager.size
      <3>1. CASE HistoryInput \/ HistorySearch
        BY <3>1 DEF HistoryInput, HistorySearch, Type, Sends
      <3>2. CASE HistoryReset
        BY <2>0, <3>2 DEF HistoryReset, Pagers
      <3>3. CASE MjPageTurn
        BY <2>0, <3>3 DEF MjPageTurn, Sends, Pagers
      <3>4. ASSUME NEW c \in Calls, MjPageLoaded(c)
            PROVE  pager'.size = pager.size
        BY <2>0, <3>4 DEF MjPageLoaded, Pagers
      <3>5. ASSUME NEW c \in Calls, Thrown(c, {})
            PROVE  pager'.size = pager.size
        BY <3>5 DEF Thrown
      <3>. QED BY <2>1, <3>1, <3>2, <3>3, <3>4, <3>5 DEF MjPageStep
    <2>2. CASE Server
      BY <2>2 DEF Server, Foreign, Serve, Refuse, Lose, Page
    <2>3. CASE PageStep
      <3>1. view' = view
        BY <2>3, PageShaped DEF Shaped, Around
      <3>. QED BY <2>1, <2>3, <3>1 DEF PageStep
    <2>. QED BY <2>2, <2>3 DEF Next
  <1>. QED BY <1>1, <1>2 DEF PageTypes

LEMMA PageTypesHold ==
    Spec => []PageTypes
  <1>1. Init => PageTypes
    BY InitTypes DEF Init, FirstPager, PageTypes
  <1>2. PageTypes /\ [Next]_listVars => PageTypes'
    <2>1. ASSUME PageTypes, UNCHANGED listVars
          PROVE  PageTypes'
      BY <2>1 DEF listVars, PageTypes, TableTypes, Goods
    <2>. QED BY <2>1, PageTypesStep
  <1>. QED BY <1>1, <1>2, PTL DEF Spec

\* The types of the page: a request refused, answered late or not at all, and
\* two handlers that overlap, leave no variable of a table out of its type.
THEOREM TableTypeOK ==
    Spec => []TypeOK
  <1>1. PageTypes => TypeOK
    <2>. SUFFICES ASSUME PageTypes PROVE TypeOK
      OBVIOUS
    <2>1. TableTypes
      BY DEF PageTypes
    <2>2. list.rows \in Seq(Row) /\ list.of \in {"", "key", "undefined"}
      BY <2>1 DEF TableTypes, Lists, Words
    <2>3. \A c \in Calls : call[c].pc \in {"idle", "sent", "answered"}
      BY <2>1, Under, NoCallIsNone
    <2>4. pager.page \in Nat \ {0} /\ pager.size \in Sizes /\ pager.count \in Nat /\ search.word \in {"", "key"}
      BY <2>1 DEF TableTypes, Pagers, Forms
    <2>5. view \in Views /\ db \in [Ids -> 0..3] /\ spin \subseteq {"loading", "searching"} /\ picked \subseteq Row
          /\ knob \in [Ids -> 0..3]
      BY <2>1 DEF TableTypes, Flags
    <2>. QED BY <2>2, <2>3, <2>4, <2>5 DEF TypeOK
  <1>. QED BY <1>1, PageTypesHold, PTL
-----------------------------------------------------------------------------
(* The indicators                                                          *)

\* What a step does to a call it is not about: nothing but to the rows of its
\* closure, and to whether its row is mounted.
Kept(d) ==
    /\ Idle(d) => call'[d] = NoCall
    /\ ~Idle(d) => /\ call'[d].pc = call[d].pc /\ call'[d].req = call[d].req /\ call'[d].no = call[d].no
                   /\ call'[d].data = call[d].data /\ call'[d].answer = call[d].answer
                   /\ call'[d].pager = call[d].pager /\ call'[d].second = call[d].second

LEMMA KeptIdle ==
    ASSUME NEW d \in Calls, Kept(d)
    PROVE  Idle(d) <=> Idle(d)'
  BY DEF Kept, Idle, NoCall

LEMMA SameKept ==
    ASSUME TableTypes, NEW d \in Calls, call'[d] = call[d]
    PROVE  Kept(d)
  BY Under DEF Kept

LEMMA SeenKept ==
    ASSUME TableTypes, NEW d \in Calls, ~Idle(d), NEW l, call'[d] = [call[d] EXCEPT !.seen = l]
    PROVE  Kept(d) /\ call'[d].seen = l
  <1>1. call[d] \in Actives
    BY Under
  <1>. QED BY <1>1 DEF Kept, Actives

\* An answer that is handled disturbs no other call.
LEMMA HandledKept ==
    ASSUME TableTypes, NEW c \in Calls, Handled(c)
    PROVE  \A d \in Calls \ {c} : Kept(d)
  <1>. SUFFICES ASSUME NEW d \in Calls \ {c} PROVE Kept(d)
    OBVIOUS
  <1>0. call \in [Calls -> Goods(view) \cup {NoCall}]
    BY DEF TableTypes
  <1>1. CASE End(c)
    BY <1>0, <1>1, SameKept DEF End
  <1>2. ASSUME NEW q, GoOn(c, q)
        PROVE  Kept(d)
    <2>1. call'[d] = call[d]
      BY <1>0, <1>2 DEF GoOn
    <2>. QED BY <2>1, SameKept
  <1>3. CASE Others(c)
    <2>1. CASE Idle(d)
      BY <1>3, <2>1 DEF Others, Kept
    <2>2. CASE ~Idle(d)
      <3>1. PICK l \in Lists : call'[d] = [call[d] EXCEPT !.seen = l]
        BY <1>3, <2>2 DEF Others
      <3>. QED BY <2>2, <3>1, SeenKept
    <2>. QED BY <2>1, <2>2
  <1>4. ASSUME NEW s \in 1..3, ShapeSet(c, s)
        PROVE  Kept(d)
    BY <1>3, <1>4, AssignOthers DEF ShapeSet
  <1>5. CASE ShapeLog(c)
    BY <1>1, <1>2, <1>5 DEF ShapeLog, LogLoaded
  <1>6. CASE ShapeGoOn(c)
    BY <1>2, <1>6 DEF ShapeGoOn
  <1>. QED BY <1>1, <1>3, <1>4, <1>5, <1>6 DEF Handled, ShapeEnd, ShapeReplace, ShapeSplice, ShapeRemove, ShapeBad

LEMMA RemountKept ==
    ASSUME TableTypes, NEW f, f \in [Calls -> Goods(view) \cup {NoCall}], Remounted(f), NEW d \in Calls, f[d] = call[d]
    PROVE  Kept(d)
  <1>1. CASE call'[d] = f[d]
    BY <1>1, SameKept
  <1>2. CASE f[d] # NoCall /\ call'[d] = [f[d] EXCEPT !.mounted = FALSE]
    <2>1. ~Idle(d) /\ call[d] \in Actives /\ call'[d] = [call[d] EXCEPT !.mounted = FALSE]
      BY <1>2, Under
    <2>. QED BY <2>1 DEF Kept, Actives
  <1>. QED BY <1>1, <1>2 DEF Remounted

\* The server leaves the request of a call as it is.
LEMMA ServerKept ==
    ASSUME TableTypes, Server
    PROVE  /\ history \subseteq history' /\ UNCHANGED <<view, list, pager, search, spin, picked, knob>>
           /\ \A d \in Calls : Idle(d) => call'[d] = call[d]
           /\ \A d \in Calls : ~Idle(d) =>
                /\ call'[d] \in Goods(view) /\ call'[d].pc # "idle"
                /\ call'[d].req = call[d].req /\ call'[d].no = call[d].no /\ call'[d].seen = call[d].seen
                /\ call'[d].pager = call[d].pager /\ call'[d].second = call[d].second
                /\ call'[d].pc = "answered" /\ call'[d].answer = "broken" =>
                      (call[d].pc = "answered" /\ call[d].answer = "broken") \/ history' \cap {"broken", "lost"} # {}
  <1>0. call \in [Calls -> Goods(view) \cup {NoCall}]
    BY DEF TableTypes
  <1>. DEFINE After(d) ==
                /\ call'[d] \in Goods(view) /\ call'[d].pc # "idle"
                /\ call'[d].req = call[d].req /\ call'[d].no = call[d].no /\ call'[d].seen = call[d].seen
                /\ call'[d].pager = call[d].pager /\ call'[d].second = call[d].second
                /\ call'[d].pc = "answered" /\ call'[d].answer = "broken" =>
                      (call[d].pc = "answered" /\ call[d].answer = "broken") \/ history' \cap {"broken", "lost"} # {}
  <1>1. CASE Foreign
    <2>1. call' = call
      BY <1>1, ForeignIs
    <2>. QED BY <1>1, <2>1, ForeignIs, Under
  <1>2. ASSUME NEW c \in Calls, Serve(c)
        PROVE  /\ history \subseteq history' /\ UNCHANGED <<view, list, pager, search, spin, picked, knob>>
               /\ \A d \in Calls : Idle(d) => call'[d] = call[d]
               /\ \A d \in Calls : ~Idle(d) => After(d)
    <2>1. PICK a \in Seq(Ids), ok \in BOOLEAN : Served(c, a, ok)
      BY <1>2, ServeIs
    <2>2. call[c] \in Goods(view) /\ call[c].pc = "sent" /\ history \subseteq history'
          /\ UNCHANGED <<view, list, pager, search, spin, picked, knob>>
      BY <1>2, ServeIs
    <2>3. call' = [call EXCEPT ![c] = Told(call[c], a, ok)]
      BY <2>1 DEF Served
    <2>. DEFINE o == Told(call[c], a, ok)
    <2>4. /\ o \in Goods(view) /\ o.pc = "answered" /\ o.answer # "broken"
          /\ o.req = call[c].req /\ o.no = call[c].no /\ o.seen = call[c].seen /\ o.second = call[c].second
          /\ o.pager = call[c].pager
      BY <2>1, <2>2, ToldIs DEF Served
    <2>. HIDE DEF o
    <2>5. call'[c] = o /\ \A d \in Calls : d # c => call'[d] = call[d]
      BY <1>0, <2>3 DEF o
    <2>6. ASSUME NEW d \in Calls, ~Idle(d) PROVE After(d)
      <3>1. CASE d = c
        BY <2>2, <2>4, <2>5, <3>1
      <3>2. CASE d # c
        BY <2>5, <2>6, <3>2, Under
      <3>. QED BY <3>1, <3>2
    <2>. QED BY <2>2, <2>5, <2>6 DEF Idle
  <1>3. ASSUME NEW c \in Calls, Refuse(c) \/ Lose(c)
        PROVE  /\ history \subseteq history' /\ UNCHANGED <<view, list, pager, search, spin, picked, knob>>
               /\ \A d \in Calls : Idle(d) => call'[d] = call[d]
               /\ \A d \in Calls : ~Idle(d) => After(d)
    <2>1. PICK a \in {"refused", "broken"} :
             /\ call' = [call EXCEPT ![c] = [call[c] EXCEPT !.pc = "answered", !.answer = a]]
             /\ a = "broken" => history' \cap {"broken", "lost"} # {}
             /\ [call[c] EXCEPT !.pc = "answered", !.answer = a] \in Goods(view)
      BY <1>3, UpsetIs
    <2>2. call[c] \in Goods(view) /\ call[c] \in Actives /\ history \subseteq history'
          /\ UNCHANGED <<view, list, pager, search, spin, picked, knob>>
      BY <1>3, UpsetIs DEF Goods
    <2>. DEFINE o == [call[c] EXCEPT !.pc = "answered", !.answer = a]
    <2>4. /\ o \in Goods(view) /\ o.pc = "answered" /\ o.answer = a
          /\ o.req = call[c].req /\ o.no = call[c].no /\ o.seen = call[c].seen /\ o.second = call[c].second
          /\ o.pager = call[c].pager
      BY <2>1, <2>2 DEF Actives
    <2>5. call'[c] = o /\ \A d \in Calls : d # c => call'[d] = call[d]
      BY <1>0, <2>1
    <2>. HIDE DEF o
    <2>6. ASSUME NEW d \in Calls, ~Idle(d) PROVE After(d)
      BY <2>1, <2>4, <2>5, <2>6, Under
    <2>7. ~Idle(c)
      BY <1>3 DEF Refuse, Lose, Idle
    <2>. QED BY <2>2, <2>5, <2>6, <2>7
  <1>. QED BY <1>1, <1>2, <1>3 DEF Server

\* An answer that is broken was noted, and an indicator that is on is for a
\* request under way, unless an error ended a handler that would have reset it.
Errors == history \cap {"broken", "lost"} # {}
SpinInv ==
    /\ \A c \in Calls : call[c].pc = "answered" /\ call[c].answer = "broken" => Errors
    /\ \A f \in spin : \/ Errors /\ view \notin Sure
                       \/ \E c \in Calls : ~Idle(c) /\ f \in Clears(view, call[c].req)

LEMMA ErrorsStay ==
    ASSUME history \subseteq history', Errors
    PROVE  Errors'
  BY DEF Errors

LEMMA SentHolds ==
    ASSUME NEW q, NEW n \in Nat, NEW p, NEW f
    PROVE  /\ Sent(q, n, p, f).pc = "sent" /\ Sent(q, n, p, f).req = q /\ Sent(q, n, p, f).no = n
           /\ Sent(q, n, p, f).seen = list /\ Sent(q, n, p, f).pager = p
           /\ ~Sent(q, n, p, f).second /\ Sent(q, n, p, f).answer = "ok"
  BY DEF Sent

LEMMA SpinInit ==
    ASSUME Init
    PROVE  SpinInv
  <1>. DEFINE m == Mounts(view)
  <1>1. /\ spin = {"loading"} \ {s \in {"loading"} : view = "minewd"} /\ view \in Views
        /\ call = [c \in Calls |-> IF c \in DOMAIN m THEN Sent(m[c], 0, pager, search) ELSE NoCall]
    BY DEF Init
  <1>2. \A c \in Calls : call[c] = IF c \in DOMAIN m THEN Sent(m[c], 0, pager, search) ELSE NoCall
    BY <1>1
  <1>3. \A c \in Calls : call[c].pc # "answered"
    <2>. HIDE DEF m
    <2>1. \A c \in Calls : Sent(m[c], 0, pager, search).pc = "sent"
      BY SentHolds, FirstIs
    <2>. QED BY <1>2, <2>1 DEF NoCall
  <1>4. ASSUME NEW f \in spin
        PROVE  \E c \in Calls : ~Idle(c) /\ f \in Clears(view, call[c].req)
    <2>1. f = "loading" /\ view # "minewd"
      BY <1>1
    <2>2. 1 \in DOMAIN m /\ m[1].op = "load"
      BY <2>1 DEF Mounts, Reload, LoadOf, Load
    <2>3. 1 \in Calls
      BY <1>1, <2>2, SlotsAssumption
    <2>. HIDE DEF m
    <2>4. call[1].pc = "sent" /\ call[1].req = m[1]
      <3>1. call[1] = Sent(m[1], 0, pager, search)
        BY <1>2, <2>2, <2>3
      <3>. QED BY <3>1, SentHolds, FirstIs
    <2>. QED BY <2>1, <2>2, <2>3, <2>4 DEF Idle, Clears
  <1>. QED BY <1>3, <1>4 DEF SpinInv

LEMMA SpinServer ==
    ASSUME TableTypes, SpinInv, Server
    PROVE  SpinInv'
  <1>1. history \subseteq history' /\ view' = view /\ spin' = spin
    BY ServerKept
  <1>2. ASSUME NEW c \in Calls, call'[c].pc = "answered", call'[c].answer = "broken"
        PROVE  Errors'
    <2>1. CASE Idle(c)
      BY <1>2, <2>1, ServerKept DEF Idle
    <2>2. CASE ~Idle(c)
      <3>1. (call[c].pc = "answered" /\ call[c].answer = "broken") \/ history' \cap {"broken", "lost"} # {}
        BY <1>2, <2>2, ServerKept
      <3>. QED BY <1>1, <3>1, ErrorsStay DEF SpinInv, Errors
    <2>. QED BY <2>1, <2>2
  <1>3. ASSUME NEW f \in spin'
        PROVE  \/ Errors' /\ view' \notin Sure
               \/ \E c \in Calls : ~Idle(c)' /\ f \in Clears(view', call'[c].req)
    <2>1. CASE Errors /\ view \notin Sure
      BY <1>1, <2>1, ErrorsStay
    <2>2. ASSUME NEW c \in Calls, ~Idle(c), f \in Clears(view, call[c].req)
          PROVE  ~Idle(c)' /\ f \in Clears(view', call'[c].req)
      BY <1>1, <2>2, ServerKept DEF Idle
    <2>. QED BY <1>1, <1>3, <2>1, <2>2 DEF SpinInv
  <1>. QED BY <1>2, <1>3 DEF SpinInv

\* Every other call is kept, and nothing is answered but by the server.
LEMMA SpinKept ==
    ASSUME TableTypes, SpinInv, history \subseteq history', view' = view, NEW c \in Calls,
           \A d \in Calls \ {c} : Kept(d), call'[c].pc # "answered"
    PROVE  /\ \A d \in Calls : call'[d].pc = "answered" /\ call'[d].answer = "broken" => Errors'
           /\ \A f \in spin : \/ Errors' /\ view' \notin Sure
                              \/ ~Idle(c) /\ f \in Clears(view, call[c].req)
                              \/ \E d \in Calls : ~Idle(d)' /\ f \in Clears(view', call'[d].req)
  <1>1. ASSUME NEW d \in Calls, call'[d].pc = "answered", call'[d].answer = "broken"
        PROVE  Errors'
    <2>1. d # c
      BY <1>1
    <2>2. ~Idle(d)
      BY <1>1, <2>1 DEF Kept, NoCall
    <2>3. call[d].pc = "answered" /\ call[d].answer = "broken"
      BY <1>1, <2>1, <2>2 DEF Kept
    <2>. QED BY <2>3, ErrorsStay DEF SpinInv
  <1>2. ASSUME NEW f \in spin
        PROVE  \/ Errors' /\ view' \notin Sure
               \/ ~Idle(c) /\ f \in Clears(view, call[c].req)
               \/ \E d \in Calls : ~Idle(d)' /\ f \in Clears(view', call'[d].req)
    <2>1. CASE Errors /\ view \notin Sure
      BY <2>1, ErrorsStay
    <2>2. ASSUME NEW d \in Calls, ~Idle(d), f \in Clears(view, call[d].req), d # c
          PROVE  ~Idle(d)' /\ f \in Clears(view', call'[d].req)
      BY <2>2 DEF Kept, Idle
    <2>. QED BY <2>1, <2>2 DEF SpinInv
  <1>. QED BY <1>1, <1>2

LEMMA SpinHandled ==
    ASSUME TableTypes, SpinInv, Around, NEW c \in Calls, Handled(c), Spun(c), TableTypes'
    PROVE  SpinInv'
  <1>1. Handles(c)
    BY DEF Handled, ShapeEnd, ShapeGoOn, ShapeReplace, ShapeSplice, ShapeSet, ShapeRemove, ShapeBad, ShapeLog
  <1>2. history \subseteq history' /\ view' = view /\ call[c].pc = "answered" /\ ~Idle(c)
    BY <1>1 DEF Handles, Around, Idle
  <1>3. call'[c].pc # "answered"
    <2>0. call \in [Calls -> Goods(view) \cup {NoCall}] /\ NoCall.pc # "answered"
      BY NoCallIsNone DEF TableTypes
    <2>1. CASE End(c)
      BY <2>0, <2>1 DEF End
    <2>2. ASSUME NEW q, GoOn(c, q) PROVE call'[c].pc # "answered"
      <3>1. call[c] \in Actives
        BY <1>2, Under
      <3>2. call' = [call EXCEPT ![c] = [call[c] EXCEPT !.pc = "sent", !.req = q, !.second = TRUE]]
        BY <2>2 DEF GoOn
      <3>3. call'[c] = [call[c] EXCEPT !.pc = "sent", !.req = q, !.second = TRUE]
        BY <2>0, <3>2
      <3>. QED BY <3>1, <3>3 DEF Actives
    <2>3. CASE Others(c)
      BY <2>0, <2>3 DEF Others
    <2>4. ASSUME NEW s \in 1..3, ShapeSet(c, s)
          PROVE  call'[c].pc # "answered"
      BY <2>3, <2>4, AssignOthers DEF ShapeSet
    <2>5. CASE ShapeLog(c)
      BY <2>1, <2>2, <2>5 DEF ShapeLog, LogLoaded
    <2>6. CASE ShapeGoOn(c)
      BY <2>2, <2>6 DEF ShapeGoOn
    <2>. QED BY <2>1, <2>3, <2>4, <2>5, <2>6 DEF Handled, ShapeEnd, ShapeReplace, ShapeSplice, ShapeRemove, ShapeBad
  <1>4. \A d \in Calls \ {c} : Kept(d)
    BY HandledKept
  <1>5. /\ \A d \in Calls : call'[d].pc = "answered" /\ call'[d].answer = "broken" => Errors'
        /\ \A f \in spin : \/ Errors' /\ view' \notin Sure
                           \/ ~Idle(c) /\ f \in Clears(view, call[c].req)
                           \/ \E d \in Calls : ~Idle(d)' /\ f \in Clears(view', call'[d].req)
    BY <1>2, <1>3, <1>4, SpinKept
  <1>6. ASSUME NEW f \in spin'
        PROVE  \/ Errors' /\ view' \notin Sure
               \/ \E d \in Calls : ~Idle(d)' /\ f \in Clears(view', call'[d].req)
    <2>1. CASE call'[c] # NoCall /\ f \in Clears(view, call'[c].req)
      <3>1. ~Idle(c)'
        <4>1. call'[c] \in Goods(view') \cup {NoCall} /\ \A k \in Goods(view') : k \in Actives
          BY DEF TableTypes, Goods
        <4>. QED BY <2>1, <4>1, NoCallIsNone DEF Idle
      <3>. QED BY <1>2, <2>1, <3>1
    <2>2. CASE f \in spin /\ (f \in Clears(view, call[c].req) => Broken(c) /\ view \notin Sure)
      <3>1. CASE f \in Clears(view, call[c].req)
        <4>1. Errors /\ view \notin Sure
          BY <1>2, <2>2, <3>1 DEF SpinInv, Broken
        <4>. QED BY <1>2, <4>1, ErrorsStay
      <3>. QED BY <1>5, <2>2, <3>1
    <2>. QED BY <1>6, <2>1, <2>2 DEF Spun
  <1>. QED BY <1>5, <1>6 DEF SpinInv

LEMMA NextIs ==
    ASSUME TableTypes
    PROVE  bounds.asked + 1 \in Nat /\ bounds.asked + 2 \in Nat
  BY DEF TableTypes

LEMMA AskedFree ==
    ASSUME TableTypes, NEW c \in Calls, NEW q, NEW p, NEW f, AskBy(c, q, p, f)
    PROVE  /\ Idle(c) /\ call[c] = NoCall /\ history \subseteq history'
           /\ call'[c] = Sent(q, bounds.asked + 1, p, f) /\ \A d \in Calls \ {c} : call'[d] = call[d]
           /\ history' = history \cup Clash(q) /\ bounds'.asked = bounds.asked + 1
  <1>1. /\ Free(c) /\ history' = history \cup Clash(q) /\ call' = [call EXCEPT ![c] = Sent(q, bounds.asked + 1, p, f)]
        /\ bounds' = [bounds EXCEPT !.asked = @ + 1]
    BY DEF AskBy
  <1>2. call \in [Calls -> Goods(view) \cup {NoCall}] /\ bounds \in [asked : Nat, upsets : Nat]
    BY DEF TableTypes
  <1>3. call'[c] = Sent(q, bounds.asked + 1, p, f) /\ \A d \in Calls \ {c} : call'[d] = call[d]
    BY <1>1, <1>2
  <1>4. bounds'.asked = bounds.asked + 1
    BY <1>1, <1>2
  <1>. QED BY <1>1, <1>3, <1>4, Under DEF Free

LEMMA AskedTwoFree ==
    ASSUME TableTypes, NEW c \in Calls, NEW d \in Calls, NEW q, NEW o, NEW p, AskTwo(c, d, q, o, p)
    PROVE  /\ Idle(c) /\ Idle(d) /\ c # d /\ history \subseteq history'
           /\ call'[c] = Sent(q, bounds.asked + 1, pager, search)
           /\ call'[d] = Sent(o, bounds.asked + 2, p, search)
           /\ \A e \in Calls \ {c, d} : call'[e] = call[e]
           /\ history' = history \cup Clash(q) \cup Clash(o) /\ bounds'.asked = bounds.asked + 2
  <1>1. /\ Free(c) /\ c < d /\ Idle(d) /\ history' = history \cup Clash(q) \cup Clash(o)
        /\ call' = [call EXCEPT ![c] = Sent(q, bounds.asked + 1, pager, search),
                                ![d] = Sent(o, bounds.asked + 2, p, search)]
        /\ bounds' = [bounds EXCEPT !.asked = @ + 2]
    BY DEF AskTwo
  <1>2. call \in [Calls -> Goods(view) \cup {NoCall}] /\ bounds \in [asked : Nat, upsets : Nat]
    BY DEF TableTypes
  <1>3. c # d
    BY <1>1, CallsAssumption
  <1>4. bounds'.asked = bounds.asked + 2
    BY <1>1, <1>2
  <1>5. /\ call'[c] = Sent(q, bounds.asked + 1, pager, search)
        /\ call'[d] = Sent(o, bounds.asked + 2, p, search)
        /\ \A e \in Calls \ {c, d} : call'[e] = call[e]
    BY <1>1, <1>2, <1>3
  <1>. QED BY <1>1, <1>3, <1>4, <1>5 DEF Free

LEMMA SpinShaped ==
    ASSUME TableTypes, SpinInv, Shaped
    PROVE  SpinInv'
  <1>0. Around /\ view' = view /\ TableTypes'
    BY ShapedTypes DEF Shaped, Around
  <1>1. CASE ShapeLocal
    BY <1>0, <1>1 DEF ShapeLocal, SpinInv, Errors, Idle
  <1>2. CASE ShapeAsk
    <2>1. PICK c \in Calls, q \in Requests, p \in Pagers, f \in Forms :
             AskBy(c, q, p, f) /\ spin' \subseteq spin \cup Clears(view, q)
      BY <1>2 DEF ShapeAsk
    <2>2. /\ Idle(c) /\ history \subseteq history' /\ \A d \in Calls \ {c} : call'[d] = call[d]
          /\ call'[c] = Sent(q, bounds.asked + 1, p, f)
      BY <2>1, AskedFree
    <2>3. call'[c].pc = "sent" /\ call'[c].req = q
      BY <2>2, SentHolds, NextIs
    <2>4. \A d \in Calls \ {c} : Kept(d)
      BY <2>2, SameKept
    <2>5. /\ \A d \in Calls : call'[d].pc = "answered" /\ call'[d].answer = "broken" => Errors'
          /\ \A g \in spin : \/ Errors' /\ view' \notin Sure
                             \/ ~Idle(c) /\ g \in Clears(view, call[c].req)
                             \/ \E d \in Calls : ~Idle(d)' /\ g \in Clears(view', call'[d].req)
      BY <1>0, <2>2, <2>3, <2>4, SpinKept
    <2>6. ~Idle(c)' /\ \A g \in Clears(view, q) : g \in Clears(view', call'[c].req)
      BY <1>0, <2>3 DEF Idle
    <2>. QED BY <2>1, <2>2, <2>5, <2>6 DEF SpinInv
  <1>3. CASE ShapeAskTwo
    <2>1. PICK c, d \in Calls, q, o \in Requests, p \in Pagers :
             AskTwo(c, d, q, o, p) /\ spin' \subseteq spin \cup Clears(view, q) \cup Clears(view, o)
      BY <1>3 DEF ShapeAskTwo
    <2>2. /\ Idle(c) /\ Idle(d) /\ c # d /\ history \subseteq history'
          /\ call'[c] = Sent(q, bounds.asked + 1, pager, search)
          /\ call'[d] = Sent(o, bounds.asked + 2, p, search)
          /\ \A e \in Calls \ {c, d} : call'[e] = call[e]
      BY <2>1, AskedTwoFree
    <2>3. call'[c].pc = "sent" /\ call'[c].req = q /\ call'[d].pc = "sent" /\ call'[d].req = o
      BY <2>2, SentHolds, NextIs
    <2>4. ASSUME NEW e \in Calls, call'[e].pc = "answered", call'[e].answer = "broken"
          PROVE  Errors'
      <3>1. call'[e] = call[e]
        BY <2>2, <2>3, <2>4
      <3>. QED BY <2>2, <2>4, <3>1, ErrorsStay DEF SpinInv
    <2>5. ASSUME NEW g \in spin'
          PROVE  (Errors' /\ view' \notin Sure) \/ \E e \in Calls : ~Idle(e)' /\ g \in Clears(view', call'[e].req)
      <3>1. CASE g \in Clears(view, q) \/ g \in Clears(view, o)
        BY <1>0, <2>3, <3>1 DEF Idle
      <3>2. CASE g \in spin
        <4>1. CASE Errors /\ view \notin Sure
          BY <1>0, <2>2, <4>1, ErrorsStay
        <4>2. ASSUME NEW e \in Calls, ~Idle(e), g \in Clears(view, call[e].req)
              PROVE  ~Idle(e)' /\ g \in Clears(view', call'[e].req)
          <5>1. call'[e] = call[e]
            BY <2>2, <4>2
          <5>. QED BY <1>0, <4>2, <5>1 DEF Idle
        <4>. QED BY <3>2, <4>1, <4>2 DEF SpinInv
      <3>. QED BY <2>1, <2>5, <3>1, <3>2
    <2>. QED BY <2>4, <2>5 DEF SpinInv
  <1>4. ASSUME NEW c \in Calls, Handled(c), Spun(c)
        PROVE  SpinInv'
    BY <1>0, <1>4, SpinHandled
  <1>5. CASE ShapeMine
    <2>0. view = "mine" /\ view' = view /\ view \in Sure /\ call \in [Calls -> Goods(view) \cup {NoCall}]
      BY <1>0, <1>5 DEF ShapeMine, Sure, TableTypes
    <2>1. ASSUME NEW f, f \in [Calls -> Goods(view) \cup {NoCall}], Mount(f), history \subseteq history',
                 \A d \in Calls : ~Idle(d) => f[d] = call[d] \/ (f[d] = NoCall /\ "loading" \notin spin'),
                 \A d \in Calls : Idle(d) => f[d] = NoCall \/ f[d].pc = "sent",
                 spin' \subseteq spin \cup {"loading"},
                 "loading" \in spin' => "loading" \in spin \/ \E d \in Calls : f[d] # NoCall /\ f[d].req.op = "load"
          PROVE  SpinInv'
      <3>1. Remounted(f)
        BY <2>1, RemountTypes
      <3>2. \A d \in Calls : \/ call'[d] = f[d]
                             \/ f[d] # NoCall /\ f[d].req.op = "switch" /\ call'[d] = [f[d] EXCEPT !.mounted = FALSE]
        BY <3>1 DEF Remounted
      <3>3. ASSUME NEW d \in Calls
            PROVE  /\ f[d] = NoCall => call'[d] = NoCall
                   /\ f[d] # NoCall => /\ call'[d].pc = f[d].pc /\ call'[d].req = f[d].req
                                       /\ call'[d].answer = f[d].answer /\ call'[d].pc # "idle"
        <4>1. f[d] # NoCall => f[d] \in Actives
          BY <2>1 DEF Goods
        <4>2. f[d] # NoCall => f[d].pc # "idle"
          BY <4>1 DEF Actives
        <4>3. CASE call'[d] = f[d]
          BY <4>2, <4>3
        <4>4. CASE f[d] # NoCall /\ call'[d] = [f[d] EXCEPT !.mounted = FALSE]
          BY <4>1, <4>2, <4>4 DEF Actives
        <4>. QED BY <3>2, <4>3, <4>4
      <3>4. ASSUME NEW d \in Calls, call'[d].pc = "answered", call'[d].answer = "broken"
            PROVE  Errors'
        <4>1. f[d] # NoCall /\ f[d].pc = "answered" /\ f[d].answer = "broken"
          BY <3>3, <3>4, NoCallIsNone
        <4>2. f[d] = call[d]
          BY <2>1, <4>1
        <4>. QED BY <2>1, <4>1, <4>2, ErrorsStay DEF SpinInv
      <3>5. ASSUME NEW g \in spin'
            PROVE  \E d \in Calls : ~Idle(d)' /\ g \in Clears(view', call'[d].req)
        <4>1. CASE g \in spin
          <5>1. PICK d \in Calls : ~Idle(d) /\ g \in Clears(view, call[d].req)
            BY <2>0, <4>1 DEF SpinInv
          <5>2. g = "loading"
            BY <2>0, <5>1 DEF Clears
          <5>3. f[d] = call[d] /\ f[d] # NoCall
            BY <2>1, <3>5, <5>1, <5>2, Under
          <5>4. call'[d].pc # "idle" /\ call'[d].req = call[d].req
            BY <3>3, <5>3
          <5>. QED BY <2>0, <5>1, <5>4 DEF Idle
        <4>2. CASE g = "loading" /\ g \notin spin
          <5>1. PICK d \in Calls : f[d] # NoCall /\ f[d].req.op = "load"
            BY <2>1, <3>5, <4>2
          <5>2. call'[d].pc # "idle" /\ call'[d].req.op = "load"
            BY <3>3, <5>1
          <5>. QED BY <4>2, <5>2 DEF Idle, Clears
        <4>. QED BY <2>1, <3>5, <4>1, <4>2
      <3>. QED BY <3>4, <3>5 DEF SpinInv
    <2>2. CASE ShapeFlip
      <3>1. \A d \in Calls : Idle(d) => call[d] = NoCall
        BY Under
      <3>2. Mount(call) /\ history \subseteq history' /\ spin' = spin
        BY <2>2 DEF ShapeFlip
      <3>. QED BY <2>0, <2>1, <3>1, <3>2
    <2>3. CASE MineResize
      <3>1. PICK n \in Sizes, c \in Calls, d \in Calls :
              LET f == [call EXCEPT ![c] = Sent(Load(0, n), bounds.asked + 1, pager, search),
                                    ![d] = Sent(Load(0, n), bounds.asked + 2, pager', search)]
              IN  /\ f \in [Calls -> Goods(view) \cup {NoCall}] /\ Mount(f) /\ Free(c) /\ c < d /\ Idle(d)
                  /\ history' = history \cup Forgotten \cup Clash(Load(0, n))
                  /\ spin' = spin \cup {"loading"}
        BY <2>0, <2>3, MineResizes
      <3>. DEFINE f == [call EXCEPT ![c] = Sent(Load(0, n), bounds.asked + 1, pager, search),
                                    ![d] = Sent(Load(0, n), bounds.asked + 2, pager', search)]
      <3>2. f \in [Calls -> Goods(view) \cup {NoCall}] /\ Mount(f) /\ Idle(c) /\ Idle(d) /\ history \subseteq history'
            /\ spin' = spin \cup {"loading"}
        BY <3>1 DEF Free
      <3>. DEFINE k == Sent(Load(0, n), bounds.asked + 2, pager', search)
                  l == Sent(Load(0, n), bounds.asked + 1, pager, search)
      <3>3. k.pc = "sent" /\ k.req = Load(0, n) /\ l.pc = "sent"
        BY SentHolds, NextIs
      <3>4. Load(0, n).op = "load"
        BY DEF Load
      <3>. HIDE DEF k, l
      <3>5. f[d] = k /\ (c # d => f[c] = l) /\ \A e \in Calls \ {c, d} : f[e] = call[e]
        BY <2>0 DEF k, l
      <3>. HIDE DEF f
      <3>6. f[d] # NoCall /\ f[d].req.op = "load"
        BY <3>3, <3>4, <3>5, NoCallIsNone
      <3>7. \A e \in Calls : ~Idle(e) => f[e] = call[e]
        BY <3>2, <3>5
      <3>8. \A e \in Calls : Idle(e) => f[e] = NoCall \/ f[e].pc = "sent"
        BY <3>2, <3>3, <3>5, Under
      <3>. QED BY <2>1, <3>2, <3>6, <3>7, <3>8
    <2>4. ASSUME NEW c \in Calls, MineLoaded(c)
          PROVE  SpinInv'
      <3>. DEFINE f == [call EXCEPT ![c] = NoCall]
      <3>1. f \in [Calls -> Goods(view) \cup {NoCall}] /\ Mount(f) /\ spin' = spin \ {"loading"}
        BY <2>0, <2>4, MineLoads
      <3>2. history \subseteq history'
        BY <2>4 DEF MineLoaded, Notes
      <3>3. \A d \in Calls : f[d] = IF d = c THEN NoCall ELSE call[d]
        BY <2>0
      <3>. HIDE DEF f
      <3>4. \A d \in Calls : Idle(d) => f[d] = NoCall \/ f[d].pc = "sent"
        BY <3>3, Under
      <3>. QED BY <2>1, <3>1, <3>2, <3>3, <3>4
    <2>. QED BY <1>5, <2>2, <2>3, <2>4 DEF ShapeMine
  <1>. QED BY <1>1, <1>2, <1>3, <1>4, <1>5 DEF Shaped

\* An indicator that stays on when nothing is under way was left by a request
\* that threw, in a table whose loads have no catch or finally.
THEOREM TableSpinnerExplained ==
    Spec => []SpinnerExplained
  <1>1. Init => SpinInv
    BY SpinInit
  <1>2. SpinInv /\ PageTypes /\ [Next]_listVars => SpinInv'
    <2>1. ASSUME SpinInv, PageTypes, UNCHANGED listVars
          PROVE  SpinInv'
      BY <2>1 DEF listVars, SpinInv, Errors, Idle
    <2>2. ASSUME SpinInv, PageTypes, PageStep
          PROVE  SpinInv'
      BY <2>2, PageShaped, SpinShaped DEF PageTypes
    <2>3. ASSUME SpinInv, PageTypes, Server
          PROVE  SpinInv'
      BY <2>3, SpinServer DEF PageTypes
    <2>. QED BY <2>1, <2>2, <2>3 DEF Next
  <1>3. SpinInv => SpinnerExplained
    BY DEF SpinInv, SpinnerExplained, Quiet, Errors, Sure
  <1>. QED BY <1>1, <1>2, <1>3, PageTypesHold, PTL DEF Spec

LEMMA FirstOf ==
    ASSUME NEW S, NEW s \in Seq(S), s # <<>>
    PROVE  1 \in 1..Len(s) /\ s[1] \in S
  <1>1. Len(s) \in Nat /\ s \in [1..Len(s) -> S]
    BY LenProperties
  <1>2. Len(s) # 0
    BY EmptySeq
  <1>. QED BY <1>1, <1>2

-----------------------------------------------------------------------------
(* Users and codes that are no longer to be switched                       *)

\* Who is known to have left, and which codes to be used, is shown so.
Known(at, rows) == \A j \in 1..Len(rows) : at[rows[j].id] = 3 => rows[j].status = 3
UsedParts ==
    /\ Known(db, list.rows)
    /\ \A c \in Calls : ~Idle(c) => Known(db, call[c].seen.rows)
    /\ \A c \in Calls : call[c].pc = "answered" /\ call[c].answer = "ok" => Known(db, call[c].data)
    /\ \A c \in Calls : ~Idle(c) /\ call[c].req.op = "switch" /\ call[c].req.to # 0 =>
          \A r \in call[c].req.rows : db[r.id] # 3
    /\ \A c \in Calls : call[c].pc = "answered" /\ call[c].answer = "ok" /\ call[c].req.op = "switch" =>
          \A r \in call[c].req.rows : call[c].data[1].id = r.id
Switched == view \in {"users", "redemptions"}
UsedInv == Switched /\ "foreign" \notin history => UsedParts

\* No status becomes 3 by a request of these views, and none is left.
LEMMA ServedUsed ==
    ASSUME TableTypes, Switched, UsedParts, NEW c \in Calls, call[c].pc = "sent", NEW a \in Seq(Ids), NEW ok \in BOOLEAN,
           Served(c, a, ok), db' \in [Ids -> 0..3]
    PROVE  /\ \A i \in Ids : db'[i] = 3 => db[i] = 3
           /\ \A i \in Ids : db[i] = 3 => db'[i] \in {0, 3}
           /\ ok /\ call[c].req.op = "switch" => \A r \in call[c].req.rows : a[1] = r.id
  <1>. DEFINE k == call[c]
              ids == NamesOf(k.req.rows)
              there == {i \in ids : Accepted(i, k.req.to)}
  <1>1. ~Idle(c) /\ Fits(view, k.req) /\ k.req \in Requests
    <2>1. ~Idle(c)
      BY DEF Idle
    <2>. QED BY <2>1, Under
  <1>2. ids \subseteq Ids
    BY <1>1 DEF NamesOf, Requests, Row
  <1>3. k.req.op \notin {"copy", "purge"}
    BY <1>1 DEF Fits, Ops, Switched
  <1>4. CASE k.req.op \in Reads
    BY <1>4 DEF Served, Reads
  <1>5. CASE k.req.op = "switch"
    <2>1. PICK o \in Row : k.req.rows = {o}
      BY <1>1, <1>5, FitsSwitch
    <2>2. k.req.to \in 0..2
      <3>1. view # "withdrawals"
        BY DEF Switched
      <3>. QED BY <1>1, <1>5, <3>1, FitsSwitch
    <2>3. /\ ok = (there # {}) /\ a = InOrder(there)
          /\ db' = [i \in Ids |-> IF i \in there /\ k.req.to # 0 THEN k.req.to ELSE db[i]]
      BY <1>5 DEF Served
    <2>4. \A i \in there : i = o.id
      BY <2>1 DEF NamesOf
    <2>5. k.req.to # 0 => db[o.id] # 3
      BY <1>1, <1>5, <2>1 DEF UsedParts
    <2>6. ASSUME NEW i \in Ids PROVE (db'[i] = 3 => db[i] = 3) /\ (db[i] = 3 => db'[i] \in {0, 3})
      <3>1. CASE i \in there /\ k.req.to # 0
        <4>1. db'[i] = k.req.to /\ i = o.id
          BY <2>3, <2>4, <3>1
        <4>. QED BY <2>2, <2>5, <3>1, <4>1
      <3>2. CASE ~(i \in there /\ k.req.to # 0)
        <4>1. db'[i] = db[i]
          BY <2>3, <3>2
        <4>. QED BY <4>1
      <3>. QED BY <3>1, <3>2
    <2>7. ok => a[1] = o.id
      <3>1. there \in SUBSET Ids /\ there \in SUBSET Nat /\ IsFiniteSet(there)
        <4>1. there \in SUBSET Ids
          BY <1>2
        <4>. HIDE DEF there
        <4>. QED BY <4>1, FoundFinite
      <3>. HIDE DEF there
      <3>2. a \in Seq(there) /\ (there # {} => a # <<>>)
        BY <2>3, <3>1, InOrderSeq
      <3>3. ASSUME ok PROVE a[1] \in there
        <4>1. a # <<>> /\ a \in Seq(there)
          BY <2>3, <3>2, <3>3
        <4>. QED BY <4>1, FirstOf
      <3>. QED BY <2>4, <3>3
    <2>. QED BY <2>1, <2>6, <2>7
  <1>6. CASE k.req.op \in {"delete", "drop"}
    <2>1. db' = [i \in Ids |-> IF i \in ids THEN 0 ELSE db[i]]
      BY <1>6 DEF Served
    <2>. HIDE DEF ids
    <2>. QED BY <1>6, <2>1
  <1>. QED BY <1>1, <1>3, <1>4, <1>5, <1>6 DEF Requests

LEMMA UsedServer ==
    ASSUME TableTypes, UsedInv, Server, TableTypes'
    PROVE  /\ UsedInv'
           /\ Switched /\ "foreign" \notin history' => \A i \in Ids : db[i] = 3 => db'[i] \in {0, 3}
  <1>. SUFFICES ASSUME Switched, "foreign" \notin history'
                PROVE  UsedParts' /\ \A i \in Ids : db[i] = 3 => db'[i] \in {0, 3}
    BY ServerKept DEF UsedInv, Switched
  <1>0. UsedParts /\ view' = view /\ list' = list /\ call \in [Calls -> Goods(view) \cup {NoCall}]
    BY ServerKept DEF UsedInv, TableTypes
  <1>1. ~Foreign
    BY ForeignIs
  <1>. DEFINE DataFits(d) ==
                call'[d].pc = "answered" /\ call'[d].answer = "ok" =>
                    /\ Known(db', call'[d].data)
                    /\ call'[d].req.op = "switch" => \A r \in call'[d].req.rows : call'[d].data[1].id = r.id
  <1>2. ASSUME \A i \in Ids : db'[i] = 3 => db[i] = 3, \A d \in Calls : DataFits(d)
        PROVE  UsedParts'
    <2>1. ASSUME NEW l \in Lists, Known(db, l.rows) PROVE Known(db', l.rows)
      <3>1. l.rows \in [1..Len(l.rows) -> Row]
        <4>1. l.rows \in Seq(Row)
          BY DEF Lists
        <4>. QED BY <4>1, LenProperties
      <3>. QED BY <1>2, <2>1, <3>1 DEF Known, Row
    <2>2. Known(db', list'.rows)
      BY <1>0, <2>1 DEF TableTypes, UsedParts
    <2>3. ASSUME NEW d \in Calls, ~Idle(d)' PROVE ~Idle(d) /\ call'[d].seen = call[d].seen /\ call'[d].req = call[d].req
      BY <2>3, ServerKept DEF Idle
    <2>4. ASSUME NEW d \in Calls, ~Idle(d)' PROVE Known(db', call'[d].seen.rows)
      <3>1. call[d].seen \in Lists /\ Known(db, call[d].seen.rows)
        BY <1>0, <2>3, <2>4, Under DEF UsedParts
      <3>. QED BY <2>1, <2>3, <2>4, <3>1
    <2>5. ASSUME NEW d \in Calls, ~Idle(d)', call'[d].req.op = "switch", call'[d].req.to # 0, NEW r \in call'[d].req.rows
          PROVE  db'[r.id] # 3
      <3>1. ~Idle(d) /\ call'[d].req = call[d].req
        BY <2>3, <2>5
      <3>2. db[r.id] # 3
        BY <1>0, <2>5, <3>1 DEF UsedParts
      <3>3. r.id \in Ids
        BY <2>5, <3>1, Under DEF Requests, Row
      <3>. QED BY <1>2, <3>2, <3>3
    <2>. QED BY <1>2, <2>2, <2>4, <2>5 DEF UsedParts
  <1>3. ASSUME NEW c \in Calls, Serve(c)
        PROVE  UsedParts' /\ \A i \in Ids : db[i] = 3 => db'[i] \in {0, 3}
    <2>1. PICK a \in Seq(Ids), ok \in BOOLEAN : Served(c, a, ok)
      BY <1>3, ServeIs
    <2>2. call[c] \in Goods(view) /\ call[c].pc = "sent" /\ db' \in [Ids -> 0..3]
      BY <1>3, ServeIs
    <2>3. /\ \A i \in Ids : db'[i] = 3 => db[i] = 3
          /\ \A i \in Ids : db[i] = 3 => db'[i] \in {0, 3}
          /\ ok /\ call[c].req.op = "switch" => \A r \in call[c].req.rows : a[1] = r.id
      BY <1>0, <2>1, <2>2, ServedUsed
    <2>4. call' = [call EXCEPT ![c] = Told(call[c], a, ok)]
      BY <2>1 DEF Served
    <2>. DEFINE o == Told(call[c], a, ok)
    <2>5. /\ o \in Goods(view) /\ o.pc = "answered" /\ o.answer = (IF ok THEN "ok" ELSE "refused")
          /\ o.req = call[c].req /\ o.data \in Seq(Item) /\ Len(o.data) = Len(a)
          /\ \A j \in 1..Len(a) : o.data[j].id = a[j] /\ o.data[j].status = db'[a[j]]
      BY <2>1, <2>2, ToldIs DEF Served
    <2>. HIDE DEF o
    <2>6. call'[c] = o /\ \A d \in Calls : d # c => call'[d] = call[d]
      BY <1>0, <2>4 DEF o
    <2>7. ASSUME NEW d \in Calls PROVE DataFits(d)
      <3>1. CASE d = c
        <4>1. Known(db', o.data)
          BY <2>5 DEF Known
        <4>2. ASSUME o.answer = "ok", o.req.op = "switch", NEW r \in o.req.rows
              PROVE  o.data[1].id = r.id
          <5>1. ok /\ o.data # <<>>
            BY <2>5, <4>2 DEF Goods
          <5>2. 1 \in 1..Len(o.data)
            BY <2>5, <5>1, FirstOf
          <5>3. a[1] = r.id
            BY <2>3, <2>5, <4>2, <5>1
          <5>. QED BY <2>5, <5>2, <5>3
        <4>. QED BY <2>6, <3>1, <4>1, <4>2
      <3>2. CASE d # c
        <4>1. call'[d] = call[d]
          BY <2>6, <3>2
        <4>2. ASSUME call[d].pc = "answered", call[d].answer = "ok"
              PROVE  Known(db', call[d].data) /\ Known(db, call[d].data)
          <5>1. call[d] \in Actives
            BY <4>2, Under DEF Idle
          <5>2. call[d].data \in Seq(Item)
            BY <5>1 DEF Actives
          <5>3. call[d].data \in [1..Len(call[d].data) -> Item]
            BY <5>2, LenProperties
          <5>4. Known(db, call[d].data)
            BY <1>0, <4>2 DEF UsedParts
          <5>. QED BY <2>3, <5>3, <5>4 DEF Known, Item
        <4>. QED BY <1>0, <4>1, <4>2 DEF UsedParts
      <3>. QED BY <3>1, <3>2
    <2>. HIDE DEF DataFits
    <2>. QED BY <1>2, <2>3, <2>7
  <1>4. ASSUME NEW c \in Calls, Refuse(c) \/ Lose(c)
        PROVE  UsedParts' /\ \A i \in Ids : db[i] = 3 => db'[i] \in {0, 3}
    <2>1. PICK a \in {"refused", "broken"} :
             /\ call' = [call EXCEPT ![c] = [call[c] EXCEPT !.pc = "answered", !.answer = a]]
             /\ [call[c] EXCEPT !.pc = "answered", !.answer = a] \in Goods(view)
      BY <1>4, UpsetIs
    <2>2. db' = db /\ call[c] \in Goods(view) /\ call[c] \in Actives
      BY <1>4, UpsetIs DEF Goods
    <2>3. call'[c].answer # "ok" /\ \A d \in Calls : d # c => call'[d] = call[d]
      BY <1>0, <2>1, <2>2 DEF Actives
    <2>4. ASSUME NEW d \in Calls PROVE DataFits(d)
      <3>1. CASE d = c
        BY <2>3, <3>1
      <3>2. CASE d # c
        BY <1>0, <2>2, <2>3, <3>2 DEF UsedParts, Known
      <3>. QED BY <3>1, <3>2
    <2>. HIDE DEF DataFits
    <2>5. \A i \in Ids : db[i] = 3 => db'[i] \in {0, 3}
      BY <2>2
    <2>. QED BY <1>2, <2>2, <2>4, <2>5
  <1>. QED BY <1>1, <1>3, <1>4 DEF Server

\* A row kept is a row of the list.
LEMMA AtSome ==
    ASSUME NEW rows \in Seq(Row), NEW P \in SUBSET DOMAIN rows
    PROVE  At(rows, P) \in Seq(Row) /\ \A j \in 1..Len(At(rows, P)) : \E p \in P : At(rows, P)[j] = rows[p]
  <1>1. PICK n \in 0..Len(rows) : \E h \in [1..n -> P] :
              /\ \A j, k \in 1..n : j < k => h[j] < h[k]
              /\ \A p \in P : \E k \in 1..n : h[k] = p
              /\ At(rows, P) \in Seq(Row) /\ Len(At(rows, P)) = n
              /\ \A k \in 1..n : At(rows, P)[k] = rows[h[k]]
    BY AtIs
  <1>2. PICK h \in [1..n -> P] :
              /\ At(rows, P) \in Seq(Row) /\ Len(At(rows, P)) = n
              /\ \A k \in 1..n : At(rows, P)[k] = rows[h[k]]
    BY <1>1
  <1>. QED BY <1>2

\* The status of a row is set in every closure that holds it.
LEMMA AssignIs ==
    ASSUME TableTypes, NEW c \in Calls, NEW o, NEW s, Assign(c, o, s)
    PROVE  /\ call'[c] = NoCall
           /\ \A d \in Calls : Idle(d) => call'[d] = NoCall
           /\ \A d \in Calls \ {c} : ~Idle(d) => /\ call[d].seen.rows \in Seq(Row)
                                                 /\ call'[d].seen.rows = Set(o, s, call[d].seen.rows)
                                                 /\ call'[d].seen.of = call[d].seen.of
  <1>1. \A d \in Calls : call'[d] = IF d = c \/ Idle(d) THEN NoCall
                                   ELSE [call[d] EXCEPT !.seen.rows = Set(o, s, @)]
    BY DEF Assign
  <1>2. ASSUME NEW d \in Calls \ {c}, ~Idle(d)
        PROVE  /\ call[d].seen.rows \in Seq(Row)
               /\ call'[d].seen.rows = Set(o, s, call[d].seen.rows) /\ call'[d].seen.of = call[d].seen.of
    <2>1. call[d] \in Actives /\ call[d].seen \in Lists
      BY <1>2, Under
    <2>. DEFINE x == Set(o, s, call[d].seen.rows)
    <2>2. call'[d] = [call[d] EXCEPT !.seen.rows = x]
      BY <1>1, <1>2
    <2>3. call[d].seen.rows \in Seq(Row)
      BY <2>1 DEF Lists
    <2>. HIDE DEF x
    <2>4. call'[d].seen = [call[d].seen EXCEPT !.rows = x]
      BY <2>1, <2>2 DEF Actives
    <2>5. call'[d].seen.rows = x /\ call'[d].seen.of = call[d].seen.of
      BY <2>1, <2>4 DEF Lists
    <2>. QED BY <2>3, <2>5 DEF x
  <1>. QED BY <1>1, <1>2

\* A row keeps its status, or is the one whose status is set.
\* Rows of which one status was set.
SetsRow(x, o, s, rows) ==
    /\ x \in Seq(Row) /\ Len(x) = Len(rows)
    /\ \A k \in 1..Len(rows) :
          /\ x[k].id = rows[k].id /\ x[k].arr = rows[k].arr
          /\ rows[k].id = o.id /\ rows[k].arr = o.arr => x[k].status = s
          /\ ~(rows[k].id = o.id /\ rows[k].arr = o.arr) => x[k].status = rows[k].status

LEMMA SetTells ==
    ASSUME NEW rows \in Seq(Row), NEW o \in Row, NEW s \in 1..3
    PROVE  SetsRow(Set(o, s, rows), o, s, rows)
  BY SetIs DEF SetsRow

LEMMA SetKeeps ==
    ASSUME NEW rows \in Seq(Row), NEW o \in Row, NEW s \in 1..3
    PROVE  /\ Len(Set(o, s, rows)) = Len(rows)
           /\ \A k \in 1..Len(rows) :
                /\ Set(o, s, rows)[k].id = rows[k].id
                /\ Set(o, s, rows)[k].status = rows[k].status \/ (rows[k].id = o.id /\ Set(o, s, rows)[k].status = s)
  <1>1. SetsRow(Set(o, s, rows), o, s, rows)
    BY SetTells
  <1>. QED BY <1>1 DEF SetsRow

LEMMA KnownSet ==
    ASSUME NEW rows \in Seq(Row), NEW o \in Row, NEW s \in 1..3, NEW at, Known(at, rows), at[o.id] = 3 => s = 3
    PROVE  Known(at, Set(o, s, rows))
  <1>. DEFINE x == Set(o, s, rows)
  <1>1. /\ Len(x) = Len(rows)
        /\ \A k \in 1..Len(rows) :
             /\ x[k].id = rows[k].id
             /\ x[k].status = rows[k].status \/ (rows[k].id = o.id /\ x[k].status = s)
    BY SetKeeps
  <1>. HIDE DEF x
  <1>2. Known(at, x)
    BY <1>1 DEF Known
  <1>. QED BY <1>2 DEF x

LEMMA KnownAt ==
    ASSUME NEW rows \in Seq(Row), NEW P \in SUBSET DOMAIN rows, NEW at, Known(at, rows)
    PROVE  Known(at, At(rows, P))
  <1>1. DOMAIN rows = 1..Len(rows)
    BY LenProperties
  <1>. QED BY <1>1, AtSome DEF Known

\* The rows of the page, and of the closures, after an answer was handled.
LEMMA UsedHandled ==
    ASSUME TableTypes, Switched, UsedParts, view' = view, NEW c \in Calls, Handled(c), TableTypes'
    PROVE  UsedParts'
  <1>0. Handles(c) /\ db' = db /\ call[c].pc = "answered" /\ ~Idle(c) /\ call[c] \in Goods(view) /\ call[c] \in Actives
    <2>1. Handles(c)
      BY DEF Handled, ShapeEnd, ShapeGoOn, ShapeReplace, ShapeSplice, ShapeSet, ShapeRemove, ShapeBad, ShapeLog
    <2>2. ~Idle(c)
      BY <2>1 DEF Handles, Idle
    <2>. QED BY <2>1, <2>2, Under DEF Handles
  <1>1. \A d \in Calls \ {c} : Kept(d)
    BY HandledKept
  <1>2. call \in [Calls -> Goods(view) \cup {NoCall}] /\ NoCall.pc = "idle"
    BY NoCallIsNone DEF TableTypes
  <1>3. /\ view \notin {"channels", "tokens", "withdrawals", "mine", "logs", "minewd"}
        /\ view \in {"users", "redemptions"}
    BY DEF Switched
  <1>. DEFINE k == call[c]
  <1>4. k.seen \in Lists /\ k.seen.rows \in Seq(Row) /\ Len(k.seen.rows) \in Nat
        /\ k.seen.rows \in [1..Len(k.seen.rows) -> Row] /\ Known(db, k.seen.rows)
    <2>1. k.seen \in Lists /\ k.seen.rows \in Seq(Row)
      BY <1>0 DEF Actives, Lists
    <2>. QED BY <1>0, <2>1, LenProperties DEF UsedParts
  <1>5. k.data \in Seq(Item) /\ Len(k.data) \in Nat /\ k.data \in [1..Len(k.data) -> Item]
        /\ (k.answer = "ok" => Known(db, k.data))
    <2>1. k.data \in Seq(Item)
      BY <1>0 DEF Actives
    <2>. QED BY <1>0, <2>1, LenProperties DEF UsedParts
  \* What is left to see: the rows, and the call itself.
  <1>6. ASSUME Known(db, list'.rows), \A d \in Calls \ {c} : ~Idle(d) => Known(db, call'[d].seen.rows),
               \/ call'[c] = NoCall
               \/ call'[c].pc = "sent" /\ call'[c].req.op # "switch" /\ call'[c].seen = k.seen
        PROVE  UsedParts'
    <2>1. ASSUME NEW d \in Calls, ~Idle(d)'
          PROVE  d = c \/ (~Idle(d) /\ call'[d].pc = call[d].pc /\ call'[d].req = call[d].req
                                    /\ call'[d].data = call[d].data /\ call'[d].answer = call[d].answer)
      BY <1>1, <1>2, <2>1 DEF Kept, Idle
    <2>2. \A d \in Calls : ~Idle(d)' => Known(db, call'[d].seen.rows)
      BY <1>2, <1>4, <1>6, <2>1 DEF Idle
    <2>3. ASSUME NEW d \in Calls, call'[d].pc = "answered"
          PROVE  d # c /\ ~Idle(d)'
      BY <1>2, <1>6, <2>3 DEF Idle
    <2>4. ASSUME NEW d \in Calls, call'[d].pc = "answered", call'[d].answer = "ok"
          PROVE  /\ Known(db, call'[d].data)
                 /\ call'[d].req.op = "switch" => \A r \in call'[d].req.rows : call'[d].data[1].id = r.id
      <3>1. call[d].pc = "answered" /\ call[d].answer = "ok" /\ call'[d].req = call[d].req /\ call'[d].data = call[d].data
        BY <2>1, <2>3, <2>4
      <3>. QED BY <3>1 DEF UsedParts
    <2>5. ASSUME NEW d \in Calls, ~Idle(d)', call'[d].req.op = "switch", call'[d].req.to # 0, NEW r \in call'[d].req.rows
          PROVE  db'[r.id] # 3
      <3>1. d # c
        BY <1>2, <1>6, <2>5 DEF Idle
      <3>2. ~Idle(d) /\ call'[d].req = call[d].req
        BY <2>1, <2>5, <3>1
      <3>. QED BY <1>0, <2>5, <3>2 DEF UsedParts
    <2>. QED BY <1>0, <1>6, <2>2, <2>4, <2>5 DEF UsedParts
  <1>7. ASSUME End(c)
        PROVE  call'[c] = NoCall /\ \A d \in Calls \ {c} : ~Idle(d) => Known(db, call'[d].seen.rows)
    <2>1. call'[c] = NoCall /\ \A d \in Calls \ {c} : call'[d] = call[d]
      BY <1>2, <1>7 DEF End
    <2>. QED BY <2>1 DEF UsedParts
  <1>8. CASE ShapeEnd(c)
    BY <1>6, <1>7, <1>8 DEF ShapeEnd, UsedParts
  <1>9. CASE ShapeGoOn(c)
    <2>1. PICK q \in Requests : GoOn(c, q) /\ list' = list /\ q.op = "load"
      BY <1>9 DEF ShapeGoOn
    <2>2. call' = [call EXCEPT ![c] = [k EXCEPT !.pc = "sent", !.req = q, !.second = TRUE]]
      BY <2>1 DEF GoOn
    <2>3. call'[c] = [k EXCEPT !.pc = "sent", !.req = q, !.second = TRUE] /\ \A d \in Calls \ {c} : call'[d] = call[d]
      BY <1>2, <2>2
    <2>4. call'[c].pc = "sent" /\ call'[c].req = q /\ call'[c].seen = k.seen
      BY <1>0, <2>3 DEF Actives
    <2>. QED BY <1>6, <2>1, <2>3, <2>4 DEF UsedParts
  <1>10. CASE ShapeReplace(c)
    <2>1. /\ End(c) /\ k.answer = "ok" /\ Len(list'.rows) = Len(k.data)
          /\ \A j \in 1..Len(k.data) : Alike(list'.rows[j], k.data[j])
      BY <1>10 DEF ShapeReplace
    <2>2. Known(db, list'.rows)
      BY <1>5, <2>1 DEF Known, Alike
    <2>. QED BY <1>6, <1>7, <2>1, <2>2
  <1>11. CASE ShapeSplice(c)
    <2>1. /\ k.answer = "ok" /\ Others(c) /\ list' \in Lists
          /\ \A r \in ToSet(list'.rows) :
                (\E o \in ToSet(k.seen.rows) : Alike(r, o)) \/ \E j \in 1..Len(k.data) : Alike(r, k.data[j])
          /\ \A d \in Calls : d # c /\ ~Idle(d) => call'[d].seen.rows \in {call[d].seen.rows, list'.rows}
      BY <1>3, <1>11 DEF ShapeSplice
    <2>2. Known(db, list'.rows)
      <3>0. DOMAIN list'.rows = 1..Len(list'.rows)
        <4>1. list'.rows \in Seq(Row)
          BY <2>1 DEF Lists
        <4>. QED BY <4>1, LenProperties
      <3>. SUFFICES ASSUME NEW j \in 1..Len(list'.rows), db[list'.rows[j].id] = 3
                    PROVE  list'.rows[j].status = 3
        BY DEF Known
      <3>. DEFINE r == list'.rows[j]
      <3>1. r \in ToSet(list'.rows)
        BY <3>0 DEF ToSet
      <3>2. ASSUME NEW o \in ToSet(k.seen.rows), Alike(r, o) PROVE r.status = 3
        <4>1. PICK i \in 1..Len(k.seen.rows) : o = k.seen.rows[i]
          BY <1>4, <3>2 DEF ToSet
        <4>. QED BY <1>4, <3>2, <4>1 DEF Known, Alike
      <3>3. ASSUME NEW i \in 1..Len(k.data), Alike(r, k.data[i]) PROVE r.status = 3
        BY <1>5, <2>1, <3>3 DEF Known, Alike
      <3>. HIDE DEF r
      <3>4. r.status = 3
        BY <2>1, <3>1, <3>2, <3>3
      <3>. QED BY <3>4 DEF r
    <2>3. call'[c] = NoCall
      BY <2>1 DEF Others
    <2>4. \A d \in Calls \ {c} : ~Idle(d) => Known(db, call'[d].seen.rows)
      <3>1. ASSUME NEW d \in Calls \ {c}, ~Idle(d) PROVE Known(db, call'[d].seen.rows)
        <4>1. call'[d].seen.rows = call[d].seen.rows \/ call'[d].seen.rows = list'.rows
          BY <2>1, <3>1
        <4>. QED BY <2>2, <3>1, <4>1 DEF UsedParts
      <3>. QED BY <3>1
    <2>. QED BY <1>6, <2>2, <2>3, <2>4
  <1>12. ASSUME NEW s \in 1..3, ShapeSet(c, s)
         PROVE  UsedParts'
    <2>. DEFINE o == CHOOSE r \in k.req.rows : TRUE
    <2>1. /\ k.answer = "ok" /\ k.req.op = "switch" /\ s = k.data[1].status /\ Assign(c, o, s)
          /\ list'.rows = Set(o, s, k.seen.rows)
      BY <1>3, <1>12 DEF ShapeSet
    <2>2. Fits(view, k.req) /\ k.data # <<>>
      BY <1>0, <2>1 DEF Goods
    <2>3. o \in k.req.rows /\ o \in Row
      <3>1. \E r \in Row : k.req.rows = {r}
        BY <2>1, <2>2, FitsSwitch
      <3>. QED BY <3>1
    <2>. HIDE DEF o
    <2>4. k.data[1].id = o.id
      BY <1>0, <2>1, <2>3 DEF UsedParts
    <2>5. db[o.id] = 3 => s = 3
      <3>1. 1 \in 1..Len(k.data)
        BY <1>5, <2>2, FirstOf
      <3>. QED BY <1>5, <2>1, <2>4, <3>1 DEF Known
    <2>6. Known(db, list'.rows)
      BY <1>4, <2>1, <2>3, <2>5, KnownSet
    <2>7. /\ call'[c] = NoCall
          /\ \A d \in Calls \ {c} : ~Idle(d) => /\ call[d].seen.rows \in Seq(Row)
                                               /\ call'[d].seen.rows = Set(o, s, call[d].seen.rows)
      BY <2>1, AssignIs
    <2>8. ASSUME NEW d \in Calls \ {c}, ~Idle(d) PROVE Known(db, call'[d].seen.rows)
      <3>1. Known(db, call[d].seen.rows)
        BY <2>8 DEF UsedParts
      <3>. QED BY <2>3, <2>5, <2>7, <2>8, <3>1, KnownSet
    <2>. QED BY <1>6, <2>6, <2>7, <2>8
  <1>13. CASE ShapeRemove(c)
    <2>1. PICK P \in SUBSET DOMAIN k.seen.rows : End(c) /\ list'.rows = At(k.seen.rows, P)
      BY <1>13 DEF ShapeRemove
    <2>2. Known(db, list'.rows)
      BY <1>4, <2>1, KnownAt
    <2>. QED BY <1>6, <1>7, <2>1, <2>2
  <1>. QED BY <1>3, <1>8, <1>9, <1>10, <1>11, <1>12, <1>13 DEF Handled, ShapeBad, ShapeLog

LEMMA UsedShaped ==
    ASSUME TableTypes, UsedInv, Shaped
    PROVE  UsedInv' /\ (Switched => db' = db)
  <1>0. Around /\ view' = view /\ TableTypes'
    BY ShapedTypes DEF Shaped, Around
  <1>1. CASE ShapeLocal
    BY <1>0, <1>1 DEF ShapeLocal, UsedInv, UsedParts, Switched, Idle
  <1>2. CASE ShapeAsk
    <2>1. PICK c \in Calls, q \in Requests, p \in Pagers, f \in Forms :
             AskBy(c, q, p, f) /\ Rowed(q) /\ UNCHANGED <<db, list>>
      BY <1>2 DEF ShapeAsk
    <2>2. /\ Idle(c) /\ history \subseteq history' /\ \A d \in Calls \ {c} : call'[d] = call[d]
          /\ call'[c] = Sent(q, bounds.asked + 1, p, f)
      BY <2>1, AskedFree
    <2>3. call'[c].pc = "sent" /\ call'[c].req = q /\ call'[c].seen = list
      BY <2>2, SentHolds, NextIs
    <2>4. ASSUME Switched, UsedParts, q.op = "switch", q.to # 0, NEW r \in q.rows
          PROVE  db[r.id] # 3
      <3>1. PICK o \in ToSet(list.rows) : q.rows = {o} /\ o.status # 3
        BY <2>1, <2>4 DEF Rowed, Switched
      <3>2. DOMAIN list.rows = 1..Len(list.rows)
        <4>1. list.rows \in Seq(Row)
          BY DEF TableTypes, Lists
        <4>. QED BY <4>1, LenProperties
      <3>3. PICK j \in 1..Len(list.rows) : o = list.rows[j]
        BY <3>1, <3>2 DEF ToSet
      <3>. QED BY <2>4, <3>1, <3>3 DEF UsedParts, Known
    <2>5. ASSUME Switched, UsedParts
          PROVE  UsedParts'
      <3>1. \A d \in Calls : ~Idle(d)' => Known(db', call'[d].seen.rows)
        BY <2>1, <2>2, <2>3, <2>5 DEF UsedParts, Idle
      <3>2. \A d \in Calls : call'[d].pc = "answered" => d # c /\ call'[d] = call[d]
        BY <2>2, <2>3
      <3>3. ASSUME NEW d \in Calls, ~Idle(d)', call'[d].req.op = "switch", call'[d].req.to # 0, NEW r \in call'[d].req.rows
            PROVE  db'[r.id] # 3
        <4>1. CASE d = c
          BY <2>1, <2>3, <2>4, <2>5, <3>3, <4>1
        <4>2. CASE d # c
          <5>1. call'[d] = call[d] /\ ~Idle(d)
            BY <2>2, <3>3, <4>2 DEF Idle
          <5>. QED BY <2>1, <2>5, <3>3, <5>1 DEF UsedParts
        <4>. QED BY <4>1, <4>2
      <3>. QED BY <2>1, <2>5, <3>1, <3>2, <3>3 DEF UsedParts
    <2>. QED BY <1>0, <2>1, <2>2, <2>5 DEF UsedInv, Switched
  <1>3. CASE ShapeAskTwo
    <2>1. PICK c, d \in Calls, q, o \in Requests, p \in Pagers :
             AskTwo(c, d, q, o, p) /\ q.op \in Reads /\ o.op \in Reads /\ UNCHANGED <<db, list>>
      BY <1>3 DEF ShapeAskTwo
    <2>2. /\ Idle(c) /\ Idle(d) /\ c # d /\ history \subseteq history'
          /\ call'[c] = Sent(q, bounds.asked + 1, pager, search)
          /\ call'[d] = Sent(o, bounds.asked + 2, p, search)
          /\ \A e \in Calls \ {c, d} : call'[e] = call[e]
      BY <2>1, AskedTwoFree
    <2>3. /\ call'[c].pc = "sent" /\ call'[c].req = q /\ call'[c].seen = list
          /\ call'[d].pc = "sent" /\ call'[d].req = o /\ call'[d].seen = list
      BY <2>2, SentHolds, NextIs
    <2>4. q.op # "switch" /\ o.op # "switch"
      BY <2>1 DEF Reads
    <2>5. ASSUME UsedParts
          PROVE  UsedParts'
      <3>1. \A e \in Calls : ~Idle(e)' => Known(db', call'[e].seen.rows)
        BY <2>1, <2>2, <2>3, <2>5 DEF UsedParts, Idle
      <3>2. \A e \in Calls : call'[e].pc = "answered" => call'[e] = call[e]
        BY <2>2, <2>3
      <3>3. \A e \in Calls : ~Idle(e)' /\ call'[e].req.op = "switch" => call'[e] = call[e] /\ ~Idle(e)
        BY <2>2, <2>3, <2>4 DEF Idle
      <3>. QED BY <2>1, <2>5, <3>1, <3>2, <3>3 DEF UsedParts
    <2>. QED BY <1>0, <2>1, <2>2, <2>5 DEF UsedInv, Switched
  <1>4. ASSUME NEW c \in Calls, Handled(c)
        PROVE  UsedInv' /\ (Switched => db' = db)
    <2>1. db' = db /\ history \subseteq history'
      BY <1>4 DEF Handled, ShapeEnd, ShapeGoOn, ShapeReplace, ShapeSplice, ShapeSet, ShapeRemove, ShapeBad, ShapeLog, Handles
    <2>2. Switched' = Switched
      BY <1>0 DEF Switched
    <2>. QED BY <1>0, <1>4, <2>1, <2>2, UsedHandled DEF UsedInv
  <1>5. CASE ShapeMine
    BY <1>0, <1>5 DEF ShapeMine, UsedInv, Switched
  <1>. QED BY <1>1, <1>2, <1>3, <1>4, <1>5 DEF Shaped, ShapeLocal, ShapeAsk, ShapeAskTwo

LEMMA UsedInit ==
    ASSUME Init
    PROVE  UsedInv
  <1>. DEFINE m == Mounts(view)
  <1>1. /\ list = EmptyList
        /\ call = [c \in Calls |-> IF c \in DOMAIN m THEN Sent(m[c], 0, pager, search) ELSE NoCall]
    BY DEF Init
  <1>2. Known(db, list.rows)
    <2>1. list.rows = <<>>
      BY <1>1 DEF EmptyList
    <2>2. Len(list.rows) = 0
      BY <2>1, EmptySeq
    <2>. QED BY <2>2 DEF Known
  <1>3. ASSUME Switched, NEW c \in Calls, ~Idle(c)
        PROVE  call[c].pc = "sent" /\ call[c].seen = list /\ call[c].req.op # "switch"
    <2>1. \A i \in DOMAIN m : m[i].op = "load"
      <3>1. m = <<Load(0, ItemsPerPage)>>
        BY <1>3 DEF Mounts, Switched
      <3>2. Load(0, ItemsPerPage).op = "load"
        BY DEF Load
      <3>. HIDE DEF m
      <3>. QED BY <3>1, <3>2
    <2>. HIDE DEF m
    <2>2. c \in DOMAIN m /\ call[c] = Sent(m[c], 0, pager, search)
      BY <1>1, <1>3 DEF Idle, NoCall
    <2>3. call[c].pc = "sent" /\ call[c].seen = list /\ call[c].req = m[c]
      BY <2>2, SentHolds, FirstIs
    <2>. QED BY <2>1, <2>2, <2>3
  <1>. QED BY <1>2, <1>3 DEF UsedInv, UsedParts, Idle

\* A code that was used, a user that left, stays so: from no page is one
\* switched on again, unless it was used after the page was loaded.
THEOREM TableUsedStays ==
    Spec => UsedStays
  <1>. DEFINE Stays == view \in {"users", "redemptions"} /\ "foreign" \notin history'
                          => \A i \in Ids : db[i] = 3 => db'[i] \in {0, 3}
  <1>1. Init => UsedInv
    BY UsedInit
  <1>2. UsedInv /\ PageTypes /\ [Next]_listVars => UsedInv' /\ [Stays]_listVars
    <2>1. ASSUME UsedInv, PageTypes, UNCHANGED listVars
          PROVE  UsedInv'
      BY <2>1 DEF listVars, UsedInv, UsedParts, Switched, Idle
    <2>2. ASSUME UsedInv, PageTypes, PageStep
          PROVE  UsedInv' /\ Stays
      BY <2>2, PageShaped, UsedShaped DEF PageTypes, Switched
    <2>3. ASSUME UsedInv, PageTypes, Server
          PROVE  UsedInv' /\ Stays
      BY <2>3, ServerTypes, UsedServer DEF PageTypes, Switched
    <2>. QED BY <2>1, <2>2, <2>3 DEF Next
  <1>. QED BY <1>1, <1>2, PageTypesHold, PTL DEF Spec, UsedStays
-----------------------------------------------------------------------------
(* Rows as the server has them                                             *)

\* What the server finds and sends, with the rows `at`.
Found(at, q) ==
    {i \in Ids : /\ at[i] # 0
                 /\ CASE q = "" -> TRUE [] q = "key" -> i \in Hits [] OTHER -> FALSE}
LinesOf(at, q, from, num) ==
    LET all == InOrder(Found(at, q))
    IN  SubSeq(all, from + 1, IF from + num < Len(all) THEN from + num ELSE Len(all))

\* The first rows found, with the status they have.
Exact(at, rows, of) ==
    /\ Len(rows) <= Cardinality(Found(at, of))
    /\ \A k \in 1..Len(rows) : rows[k].id = InOrder(Found(at, of))[k] /\ rows[k].status = at[rows[k].id]
\* The same, but for rows that are gone from the server, or change.
Tidy(at, rows, of, gone) ==
    /\ \A j, k \in 1..Len(rows) : j < k => rows[j].id > rows[k].id
    /\ \A k \in 1..Len(rows) : rows[k].id \in Found(at, of) \/ rows[k].id \in gone
    /\ \A x \in Found(at, of), k \in 1..Len(rows) : x > rows[k].id => \E j \in 1..Len(rows) : rows[j].id = x
Current(at, rows, moving) ==
    \A k \in 1..Len(rows) : rows[k].id \in moving \/ rows[k].status = at[rows[k].id]
\* What was fetched, of some ids.
Fetched(at, ids, data) ==
    Len(data) = Len(ids) /\ \A j \in 1..Len(ids) : data[j].id = ids[j] /\ data[j].status = at[ids[j]]

LEMMA FoundIs ==
    /\ \A q : Finds(q) = Found(db, q)
    /\ \A q, f, n : Lines(q, f, n) = LinesOf(db, q, f, n)
  BY DEF Finds, Found, Lines, LinesOf

LEMMA RowsAre ==
    ASSUME NEW rows \in Seq(Row)
    PROVE  /\ Len(rows) \in Nat /\ rows \in [1..Len(rows) -> Row] /\ DOMAIN rows = 1..Len(rows)
           /\ \A k \in 1..Len(rows) : rows[k] \in Row /\ rows[k].id \in Ids /\ rows[k].id \in Nat
  <1>1. Len(rows) \in Nat /\ rows \in [1..Len(rows) -> Row] /\ DOMAIN rows = 1..Len(rows)
    BY LenProperties
  <1>2. \A r \in Row : r.id \in Ids /\ r.id \in Nat
    BY IdsAssumption DEF Row
  <1>. QED BY <1>1, <1>2

LEMMA FoundSet ==
    ASSUME NEW at, NEW q
    PROVE  /\ Found(at, q) \in SUBSET Ids /\ Found(at, q) \in SUBSET Nat /\ IsFiniteSet(Found(at, q))
           /\ Cardinality(Found(at, q)) \in Nat
  <1>1. Found(at, q) \in SUBSET Ids
    BY DEF Found
  <1>. QED BY <1>1, FoundFinite

\* The rows that are tidy and of which nothing is gone are the first found.
LEMMA TidyExact ==
    ASSUME NEW at, NEW rows \in Seq(Row), NEW of, NEW gone,
           Tidy(at, rows, of, gone), Current(at, rows, gone),
           \A k \in 1..Len(rows) : rows[k].id \notin gone
    PROVE  Exact(at, rows, of)
  <1>. DEFINE S == Found(at, of)
              m == Len(rows)
              f == [k \in 1..m |-> rows[k].id]
  <1>1. m \in Nat /\ \A k \in 1..m : rows[k].id \in Nat
    BY RowsAre
  <1>2. S \in SUBSET Nat /\ IsFiniteSet(S)
    BY FoundSet
  <1>3. \A k \in 1..m : rows[k].id \in S
    BY DEF Tidy
  <1>4. Leads(f, m, S)
    <2>1. f \in [1..m -> S] /\ \A k \in 1..m : f[k] = rows[k].id
      BY <1>3
    <2>2. /\ \A j, k \in 1..m : j < k => rows[j].id > rows[k].id
          /\ \A x \in S, k \in 1..m : x > rows[k].id => \E j \in 1..m : rows[j].id = x
      BY DEF Tidy
    <2>. HIDE DEF f, m, S
    <2>. QED BY <2>1, <2>2 DEF Leads
  <1>5. \A k \in 1..m : f[k] = rows[k].id
    OBVIOUS
  <1>6. \A k \in 1..m : rows[k].status = at[rows[k].id]
    BY DEF Current
  <1>. HIDE DEF f, m, S
  <1>7. m <= Cardinality(S) /\ \A k \in 1..m : f[k] = InOrder(S)[k]
    BY <1>1, <1>2, <1>4, LeadsInOrder
  <1>8. \A k \in 1..m : rows[k].id = InOrder(S)[k]
    BY <1>5, <1>7
  <1>. QED BY <1>6, <1>7, <1>8 DEF Exact, m, S

\* The first found are tidy.
LEMMA ExactTidy ==
    ASSUME NEW at, NEW rows \in Seq(Row), NEW of, Exact(at, rows, of)
    PROVE  /\ Tidy(at, rows, of, {}) /\ Current(at, rows, {})
           /\ \A g : Tidy(at, rows, of, g) /\ Current(at, rows, g)
  <1>. DEFINE S == Found(at, of)
              m == Len(rows)
              n == Cardinality(S)
              f == InOrder(S)
  <1>1. m \in Nat /\ \A k \in 1..m : rows[k].id \in Nat
    BY RowsAre
  <1>2. S \in SUBSET Nat /\ IsFiniteSet(S) /\ n \in Nat
    BY FoundSet
  <1>3. Leads(f, n, S) /\ \A x \in S : \E k \in 1..n : f[k] = x
    BY <1>2, InOrderLeads, InOrderSeq
  <1>4. m <= n /\ \A k \in 1..m : rows[k].id = f[k] /\ rows[k].status = at[rows[k].id]
    BY DEF Exact
  <1>. HIDE DEF f, m, n, S
  <1>5. 1..m \subseteq 1..n
    BY <1>1, <1>2, <1>4
  <1>6. f \in [1..n -> S] /\ \A j, k \in 1..n : j < k => f[j] > f[k]
    BY <1>3 DEF Leads
  <1>7. \A j, k \in 1..m : j < k => rows[j].id > rows[k].id
    <2>1. ASSUME NEW j \in 1..m, NEW k \in 1..m, j < k PROVE rows[j].id > rows[k].id
      <3>1. j \in 1..n /\ k \in 1..n
        BY <1>5
      <3>2. f[j] > f[k]
        BY <1>6, <2>1, <3>1
      <3>. QED BY <1>4, <3>2
    <2>. QED BY <2>1
  <1>8. \A k \in 1..m : rows[k].id \in S
    BY <1>4, <1>5, <1>6
  <1>9. ASSUME NEW x \in S, NEW k \in 1..m, x > rows[k].id
        PROVE  \E j \in 1..m : rows[j].id = x
    <2>1. PICK i \in 1..n : f[i] = x
      BY <1>3
    <2>2. ~(k < i)
      <3>1. k < i => f[k] > f[i]
        BY <1>5, <1>6
      <3>2. x \in Nat /\ rows[k].id \in Nat /\ f[k] = rows[k].id
        BY <1>1, <1>2, <1>4
      <3>. QED BY <1>9, <2>1, <3>1, <3>2
    <2>3. i # k
      <3>1. i = k => x = rows[k].id
        BY <1>4, <2>1
      <3>2. x \in Nat /\ rows[k].id \in Nat
        BY <1>1, <1>2
      <3>. QED BY <1>9, <3>1, <3>2
    <2>4. i \in 1..m
      BY <1>1, <2>2
    <2>. QED BY <1>4, <2>1, <2>4
  <1>10. ASSUME NEW g PROVE Tidy(at, rows, of, g) /\ Current(at, rows, g)
    <2>1. Tidy(at, rows, of, g)
      BY <1>7, <1>8, <1>9 DEF Tidy, m, S
    <2>2. Current(at, rows, g)
      BY <1>4 DEF Current, m
    <2>. QED BY <2>1, <2>2
  <1>. QED BY <1>10

\* A page fetched holds lines from its place on; from the first, they are exact.
LEMMA FetchedLines ==
    ASSUME NEW at, NEW q, NEW from \in Nat, NEW num \in Nat, NEW data, Len(data) \in Nat,
           \/ Fetched(at, LinesOf(at, q, from, num), data)
           \/ from = 0 /\ Fetched(at, InOrder(Found(at, q)), data)
    PROVE  \A j \in 1..Len(data) : /\ from + j \in 1..Cardinality(Found(at, q))
                                   /\ data[j].id = InOrder(Found(at, q))[from + j]
                                   /\ data[j].status = at[data[j].id]
  <1>. DEFINE S == Found(at, q)
              n == Cardinality(S)
              all == InOrder(S)
  <1>1. S \in SUBSET Nat /\ IsFiniteSet(S) /\ n \in Nat
    BY FoundSet
  <1>2. all \in Seq(S) /\ Len(all) = n /\ all \in [1..n -> S]
    <2>1. all \in Seq(S) /\ Len(all) = n
      BY <1>1, InOrderSeq
    <2>. HIDE DEF all, n
    <2>. QED BY <2>1, LenProperties
  <1>3. CASE from = 0 /\ Fetched(at, all, data)
    <2>. HIDE DEF all, n, S
    <2>1. Len(data) = n /\ \A j \in 1..n : data[j].id = all[j] /\ data[j].status = at[all[j]]
      BY <1>2, <1>3 DEF Fetched
    <2>2. \A j \in 1..Len(data) : from + j \in 1..n /\ from + j = j
      BY <1>1, <1>3, <2>1
    <2>3. \A j \in 1..Len(data) : from + j \in 1..n /\ data[j].id = all[from + j] /\ data[j].status = at[data[j].id]
      BY <2>1, <2>2
    <2>. QED BY <2>3 DEF all, n, S
  <1>4. CASE Fetched(at, LinesOf(at, q, from, num), data)
    <2>. DEFINE to == IF from + num < n THEN from + num ELSE n
                s == SubSeq(all, from + 1, to)
    <2>1. LinesOf(at, q, from, num) = s
      <3>. HIDE DEF n
      <3>. QED BY <1>2 DEF LinesOf
    <2>. HIDE DEF all, S, n
    <2>2. to \in Nat /\ to <= n
      BY <1>1
    <2>. HIDE DEF to
    <2>3. \A i \in (from + 1)..to : all[i] \in S
      <3>1. \A i \in (from + 1)..to : i \in 1..n
        BY <1>1, <2>2
      <3>. QED BY <1>2, <3>1
    <2>4. /\ Len(s) = (IF from + 1 <= to THEN to - (from + 1) + 1 ELSE 0)
          /\ \A i \in 1..(to - (from + 1) + 1) : s[i] = all[from + 1 + i - 1]
      BY <2>2, <2>3, SubSeqProperties
    <2>. HIDE DEF s
    <2>5. Len(data) = Len(s) /\ \A j \in 1..Len(s) : data[j].id = s[j] /\ data[j].status = at[s[j]]
      BY <1>4, <2>1 DEF Fetched
    <2>6. ASSUME NEW j \in 1..Len(data)
          PROVE  from + j \in 1..n /\ data[j].id = all[from + j] /\ data[j].status = at[data[j].id]
      <3>1. j \in 1..Len(s) /\ j \in 1..(to - (from + 1) + 1) /\ from + j \in 1..n /\ from + 1 + j - 1 = from + j
        BY <1>1, <2>2, <2>4, <2>5
      <3>2. s[j] = all[from + j]
        BY <2>4, <3>1
      <3>. QED BY <2>5, <3>1, <3>2
    <2>. QED BY <2>6 DEF all, n, S
  <1>. QED BY <1>3, <1>4

\* The rows of a first page, or of a search.
LEMMA FetchedExact ==
    ASSUME NEW at, NEW q, NEW num \in Nat, NEW data \in Seq(Item), NEW rows \in Seq(Row),
           \/ Fetched(at, LinesOf(at, q, 0, num), data)
           \/ Fetched(at, InOrder(Found(at, q)), data),
           Len(rows) = Len(data), \A k \in 1..Len(data) : Alike(rows[k], data[k])
    PROVE  Exact(at, rows, q)
  <1>0. Len(data) \in Nat
    BY LenProperties
  <1>1. \A j \in 1..Len(data) : /\ 0 + j \in 1..Cardinality(Found(at, q))
                                /\ data[j].id = InOrder(Found(at, q))[0 + j]
                                /\ data[j].status = at[data[j].id]
    BY <1>0, FetchedLines
  <1>2. \A j \in 1..Len(data) : 0 + j = j
    BY <1>0
  <1>3. Len(rows) <= Cardinality(Found(at, q))
    <2>1. Cardinality(Found(at, q)) \in Nat
      BY FoundSet
    <2>2. Len(data) # 0 => Len(data) \in 1..Len(data)
      BY <1>0
    <2>. QED BY <1>0, <1>1, <1>2, <2>1, <2>2
  <1>. QED BY <1>1, <1>2, <1>3 DEF Exact, Alike

\* A later page put at its place, in rows that reach it.
LEMMA SplicedExact ==
    ASSUME NEW at, NEW q, NEW from \in Nat, NEW num \in Nat, NEW data \in Seq(Item),
           Fetched(at, LinesOf(at, q, from, num), data),
           NEW old \in Seq(Row), Exact(at, old, q), from <= Len(old),
           NEW rows \in Seq(Row),
           Len(rows) = IF from + Len(data) < Len(old) THEN Len(old) ELSE from + Len(data),
           \A j \in 1..Len(rows) : Alike(rows[j], Behind(old, from, data, j))
    PROVE  Exact(at, rows, q)
  <1>. DEFINE n == Cardinality(Found(at, q))
              all == InOrder(Found(at, q))
              m == Len(data)
              l == Len(old)
  <1>1. n \in Nat /\ m \in Nat /\ l \in Nat /\ Len(rows) \in Nat
    BY FoundSet, LenProperties
  <1>2. \A j \in 1..m : from + j \in 1..n /\ data[j].id = all[from + j] /\ data[j].status = at[data[j].id]
    BY <1>1, FetchedLines
  <1>3. l <= n /\ \A j \in 1..l : old[j].id = all[j] /\ old[j].status = at[old[j].id]
    BY DEF Exact
  <1>4. from + m <= n
    <2>1. CASE m = 0
      BY <1>1, <1>3, <2>1
    <2>2. CASE m # 0
      <3>1. m \in 1..m
        BY <1>1, <2>2
      <3>. HIDE DEF m, n
      <3>2. from + m \in 1..n
        BY <1>2, <3>1
      <3>. QED BY <1>1, <3>2
    <2>. QED BY <2>1, <2>2
  <1>. HIDE DEF n, all
  <1>5. Len(rows) <= n
    BY <1>1, <1>3, <1>4
  <1>6. ASSUME NEW j \in 1..Len(rows)
        PROVE  rows[j].id = all[j] /\ rows[j].status = at[rows[j].id]
    <2>. DEFINE b == Behind(old, from, data, j)
    <2>1. CASE j > from /\ j <= from + m
      <3>1. b = data[j - from]
        BY <2>1 DEF Behind
      <3>2. j - from \in 1..m /\ from + (j - from) = j
        BY <1>1, <2>1
      <3>. HIDE DEF b, m
      <3>3. b.id = all[j] /\ b.status = at[b.id]
        BY <1>2, <3>1, <3>2
      <3>. QED BY <3>3 DEF Alike, b
    <2>2. CASE ~(j > from /\ j <= from + m)
      <3>1. b = old[j]
        BY <2>2 DEF Behind
      <3>2. j \in 1..l
        <4>1. j <= from \/ j > from + m
          BY <1>1, <2>2
        <4>. QED BY <1>1, <4>1
      <3>. HIDE DEF b, l
      <3>3. b.id = all[j] /\ b.status = at[b.id]
        BY <1>3, <3>1, <3>2
      <3>. QED BY <3>3 DEF Alike, b
    <2>. QED BY <2>1, <2>2
  <1>. QED BY <1>5, <1>6 DEF Exact, n, all

-----------------------------------------------------------------------------
(* Requests under way together                                             *)

\* Nothing happened that a page does not cope with, in a table whose rows are
\* those sent and that shows the first of them.
Fine == history \cap Excuses = {}
Plainly == view \notin {"mine", "logs"}

On(k) == k.pc # "idle"
Yes(k) == k.pc = "answered" /\ k.answer = "ok"
Later(q) == q.op = "load" /\ q.page > 0
\* An order was changed, and the table is to be loaded for it.
Overtaken(v, k) == v = "withdrawals" /\ Yes(k) /\ k.req.op = "switch"
\* What the answer of a change tells is so.
Right(v, at, k) ==
    /\ k.req.op = "switch" /\ v # "withdrawals" /\ k.req.to # 0 => \A r \in k.req.rows : at[r.id] = k.req.to
    /\ k.req.op = "switch" /\ v \in {"users", "redemptions"} => \A r \in k.req.rows : k.data[1].status = at[r.id]
    /\ k.req.op \in {"delete", "drop"} => \A r \in k.req.rows : at[r.id] = 0
    /\ (k.req.op = "drop" /\ v # "tokens") \/ k.req.op = "copy" => k.pager.page = 1
    /\ k.req.op = "purge" => v # "channels"
Fetches(at, k) ==
    /\ k.req.op = "load" => Fetched(at, LinesOf(at, k.req.query, k.req.page * k.req.size, k.req.size), k.data)
    /\ k.req.op = "search" => Fetched(at, InOrder(Found(at, k.req.query)), k.data)
\* What there may be beside request k: o.
Together(v, k, o) ==
    /\ Changes(k.req) =>
          /\ o.no # k.no
          /\ Apart(k.req, o.req) \/ (v = "withdrawals" /\ o.req.op = "load" /\ o.req.page = 0 /\ o.no < k.no)
    /\ Later(k.req) => o.req.op \in Reads /\ ~Later(o.req)

Numbered(f, n) == \A c \in Calls : On(f[c]) => f[c].no <= n
Paired(v, f) == \A c, d \in Calls : c # d /\ On(f[c]) /\ On(f[d]) => Together(v, f[c], f[d])
Truthful(v, at, f) ==
    \A c \in Calls : Yes(f[c]) => Right(v, at, f[c]) /\ (Fetches(at, f[c]) \/ \E d \in Calls : Overtaken(v, f[d]))
\* What was asked for in the same closure.
Seconds(f) ==
    \A c \in Calls : On(f[c]) /\ f[c].second => f[c].req.op = "load" /\ (f[c].pc = "answered" => f[c].answer = "ok")
CallParts(v, at, f, n) == Numbered(f, n) /\ Paired(v, f) /\ Truthful(v, at, f) /\ Seconds(f)

-----------------------------------------------------------------------------
(* The rows of the page                                                    *)

\* Rows are to be loaded for what k did.
Owes(v, k) ==
    \/ On(k) /\ k.second /\ k.req.op = "load" /\ k.req.page = 0
    \/ Yes(k) /\ \/ k.req.op \in {"copy", "purge"}
                 \/ k.req.op = "drop" /\ v # "tokens"
                 \/ k.req.op = "switch" /\ v = "withdrawals"
Deletes(k) == Yes(k) /\ k.req.op \in {"delete", "drop"}
Switches(k) == Yes(k) /\ k.req.op = "switch" /\ k.req.to # 0
\* Rows removed at the server, or whose status is set there, that the page is to follow.
Gone(f) == {i \in Ids : \E c \in Calls : Deletes(f[c]) /\ i \in NamesOf(f[c].req.rows)}
Moved(f) == {i \in Ids : \E c \in Calls : Switches(f[c]) /\ i \in NamesOf(f[c].req.rows)}

\* A later page is put behind rows that are exact.
Ahead(at, f) == \A c \in Calls : On(f[c]) /\ Later(f[c].req) => Exact(at, f[c].seen.rows, f[c].seen.of)
\* A change works with the rows of the page.
Held(v, f, l) ==
    v # "withdrawals" => \A c \in Calls : On(f[c]) /\ Changes(f[c].req) =>
        /\ f[c].seen.rows = l.rows /\ f[c].seen.of = l.of
        /\ f[c].req.op = "switch" =>
              \A r \in f[c].req.rows : \E j \in 1..Len(l.rows) : l.rows[j].id = r.id /\ l.rows[j].arr = r.arr
\* The rows are those of the server, but for what is under way.
Settled(v, at, f, l) ==
    \/ \E c \in Calls : Owes(v, f[c])
    \/ Tidy(at, l.rows, l.of, Gone(f)) /\ Current(at, l.rows, Gone(f) \cup Moved(f))
ListParts(v, at, f, l) == Ahead(at, f) /\ Held(v, f, l) /\ Settled(v, at, f, l)

RowsInv ==
    Plainly /\ Fine => /\ CallParts(view, db, call, bounds.asked)
                       /\ ListParts(view, db, call, list)
                       /\ knob = [i \in Ids |-> 0]

-----------------------------------------------------------------------------
(* Calls that a step leaves as they are                                    *)

Like(k, l) ==
    \/ ~On(k) /\ ~On(l)
    \/ /\ On(k) /\ l.pc = k.pc /\ l.req = k.req /\ l.no = k.no /\ l.data = k.data /\ l.answer = k.answer
       /\ l.pager = k.pager /\ l.second = k.second

LEMMA LikeParts ==
    ASSUME NEW k, NEW l, Like(k, l)
    PROVE  /\ (On(l) <=> On(k)) /\ (Yes(l) <=> Yes(k)) /\ (Deletes(l) <=> Deletes(k)) /\ (Switches(l) <=> Switches(k))
           /\ On(k) => l.req = k.req /\ l.no = k.no /\ l.second = k.second /\ l.pc = k.pc /\ l.answer = k.answer
           /\ \A v : (Overtaken(v, l) <=> Overtaken(v, k)) /\ (Owes(v, l) <=> Owes(v, k))
           /\ On(k) => \A v, at : (Right(v, at, k) => Right(v, at, l)) /\ (Fetches(at, k) => Fetches(at, l))
  <1>1. CASE ~On(k) /\ ~On(l)
    BY <1>1 DEF On, Yes, Deletes, Switches, Overtaken, Owes
  <1>2. CASE On(k) /\ l.pc = k.pc /\ l.req = k.req /\ l.no = k.no /\ l.data = k.data /\ l.answer = k.answer
             /\ l.pager = k.pager /\ l.second = k.second
    <2>1. (On(l) <=> On(k)) /\ (Yes(l) <=> Yes(k)) /\ (Deletes(l) <=> Deletes(k)) /\ (Switches(l) <=> Switches(k))
      BY <1>2 DEF On, Yes, Deletes, Switches
    <2>2. \A v : (Overtaken(v, l) <=> Overtaken(v, k)) /\ (Owes(v, l) <=> Owes(v, k))
      BY <1>2 DEF On, Yes, Overtaken, Owes
    <2>3. \A v, at : Right(v, at, k) => Right(v, at, l)
      BY <1>2 DEF Right
    <2>4. \A at : Fetches(at, k) => Fetches(at, l)
      BY <1>2 DEF Fetches
    <2>. QED BY <1>2, <2>1, <2>2, <2>3, <2>4
  <1>. QED BY <1>1, <1>2 DEF Like

LEMMA TogetherLike ==
    ASSUME NEW v, NEW k, NEW l, NEW o, NEW p, On(k), On(o), Like(k, l), Like(o, p), Together(v, k, o)
    PROVE  Together(v, l, p)
  <1>1. l.req = k.req /\ l.no = k.no /\ p.req = o.req /\ p.no = o.no
    BY LikeParts
  <1>. QED BY <1>1 DEF Together

\* A request is over, or goes on as another that has not been answered.
LEMMA CallsEnd ==
    ASSUME NEW v, NEW at, NEW n, NEW f, NEW g, NEW c \in Calls, CallParts(v, at, f, n), ~Overtaken(v, f[c]),
           ~On(g[c]), \A d \in Calls \ {c} : Like(f[d], g[d])
    PROVE  CallParts(v, at, g, n)
  <1>1. \A d \in Calls : On(g[d]) => d # c /\ On(f[d]) /\ Like(f[d], g[d])
    BY LikeParts
  <1>2. Numbered(g, n)
    BY <1>1, LikeParts DEF CallParts, Numbered
  <1>3. Paired(v, g)
    BY <1>1, TogetherLike DEF CallParts, Paired
  <1>4. ASSUME NEW d \in Calls, Yes(g[d])
        PROVE  Right(v, at, g[d]) /\ (Fetches(at, g[d]) \/ \E e \in Calls : Overtaken(v, g[e]))
    <2>1. On(g[d])
      BY <1>4 DEF Yes, On
    <2>2. On(f[d]) /\ Like(f[d], g[d]) /\ Yes(f[d])
      BY <1>1, <1>4, <2>1, LikeParts
    <2>3. Right(v, at, g[d]) /\ (Fetches(at, f[d]) => Fetches(at, g[d]))
      BY <2>2, LikeParts DEF CallParts, Truthful
    <2>4. ASSUME NEW e \in Calls, Overtaken(v, f[e])
          PROVE  Overtaken(v, g[e])
      <3>1. e # c
        BY <2>4
      <3>. QED BY <2>4, <3>1, LikeParts
    <2>. QED BY <2>2, <2>3, <2>4 DEF CallParts, Truthful
  <1>5. Seconds(g)
    BY <1>1, LikeParts DEF CallParts, Seconds
  <1>. QED BY <1>2, <1>3, <1>4, <1>5 DEF CallParts, Truthful

LEMMA GoneGrows ==
    ASSUME NEW f, NEW g,
           \A d \in Calls : Deletes(f[d]) => Deletes(g[d]) /\ g[d].req = f[d].req,
           \A d \in Calls : Switches(f[d]) => Switches(g[d]) /\ g[d].req = f[d].req
    PROVE  Gone(f) \subseteq Gone(g) /\ Moved(f) \subseteq Moved(g)
  BY DEF Gone, Moved

\* Nothing was done that the page is to follow, but what it was.
LEMMA SettledMore ==
    ASSUME NEW v, NEW at, NEW l, NEW f, NEW g, Settled(v, at, f, l),
           \A d \in Calls : Owes(v, f[d]) => Owes(v, g[d]),
           \A d \in Calls : Deletes(f[d]) => Deletes(g[d]) /\ g[d].req = f[d].req,
           \A d \in Calls : Switches(f[d]) => Switches(g[d]) /\ g[d].req = f[d].req
    PROVE  Settled(v, at, g, l)
  <1>1. Gone(f) \subseteq Gone(g) /\ Moved(f) \subseteq Moved(g)
    BY GoneGrows
  <1>2. Tidy(at, l.rows, l.of, Gone(f)) => Tidy(at, l.rows, l.of, Gone(g))
    BY <1>1 DEF Tidy
  <1>3. Current(at, l.rows, Gone(f) \cup Moved(f)) => Current(at, l.rows, Gone(g) \cup Moved(g))
    BY <1>1 DEF Current
  <1>. QED BY <1>2, <1>3 DEF Settled

\* Nothing is to be followed: the rows are exact.
LEMMA SettledExact ==
    ASSUME NEW v, NEW at, NEW f, NEW l \in Lists, Settled(v, at, f, l),
           \A d \in Calls : ~Owes(v, f[d]) /\ ~Deletes(f[d]) /\ ~Switches(f[d])
    PROVE  Exact(at, l.rows, l.of)
  <1>1. Gone(f) = {} /\ Moved(f) = {}
    BY DEF Gone, Moved
  <1>2. Tidy(at, l.rows, l.of, {}) /\ Current(at, l.rows, {})
    <2>1. Tidy(at, l.rows, l.of, Gone(f)) /\ Current(at, l.rows, Gone(f) \cup Moved(f))
      BY DEF Settled
    <2>2. Gone(f) \cup Moved(f) = {}
      BY <1>1
    <2>. QED BY <1>1, <2>1, <2>2
  <1>3. l.rows \in Seq(Row)
    BY DEF Lists
  <1>. QED BY <1>2, <1>3, TidyExact

LEMMA ExactSettled ==
    ASSUME NEW v, NEW at, NEW f, NEW l \in Lists, Exact(at, l.rows, l.of)
    PROVE  Settled(v, at, f, l)
  <1>1. l.rows \in Seq(Row)
    BY DEF Lists
  <1>2. \A g : Tidy(at, l.rows, l.of, g) /\ Current(at, l.rows, g)
    BY <1>1, ExactTidy
  <1>. QED BY <1>2 DEF Settled

\* Requests are sent: N are their slots, m is the number of the last.
Joins(v, f, g, N, m) ==
    /\ N \in SUBSET Calls
    /\ \A d \in Calls : On(f[d]) => f[d].no \in Nat
    /\ \A d \in Calls \ N : g[d] = f[d]
    /\ \A d \in N : ~On(f[d]) /\ g[d].pc = "sent" /\ g[d].no <= m /\ ~g[d].second
    /\ \A d \in N, e \in Calls : e # d /\ On(g[e]) => Together(v, g[d], g[e]) /\ Together(v, g[e], g[d])

LEMMA CallsAsked ==
    ASSUME NEW v, NEW at, NEW n \in Nat, NEW m \in Nat, n <= m, NEW f, NEW g, NEW N,
           CallParts(v, at, f, n), Joins(v, f, g, N, m)
    PROVE  CallParts(v, at, g, m)
  <1>0. /\ N \in SUBSET Calls /\ \A d \in Calls : On(f[d]) => f[d].no \in Nat
        /\ \A d \in N : ~On(f[d]) /\ g[d].pc = "sent" /\ g[d].no <= m /\ ~g[d].second
        /\ \A d \in N, e \in Calls : e # d /\ On(g[e]) => Together(v, g[d], g[e]) /\ Together(v, g[e], g[d])
    BY DEF Joins
  <1>1. \A d \in Calls : d \notin N => g[d] = f[d]
    BY DEF Joins
  <1>2. Numbered(g, m)
    <2>1. ASSUME NEW d \in Calls, On(g[d]) PROVE g[d].no <= m
      <3>1. CASE d \in N
        BY <1>0, <3>1
      <3>2. CASE d \notin N
        <4>1. f[d].no <= n /\ f[d].no \in Nat /\ g[d].no = f[d].no
          BY <1>0, <1>1, <2>1, <3>2 DEF CallParts, Numbered
        <4>. QED BY <4>1
      <3>. QED BY <3>1, <3>2
    <2>. QED BY <2>1 DEF Numbered
  <1>3. Paired(v, g)
    <2>1. ASSUME NEW c \in Calls, NEW d \in Calls, c # d, On(g[c]), On(g[d]) PROVE Together(v, g[c], g[d])
      <3>1. CASE c \in N \/ d \in N
        BY <1>0, <2>1, <3>1
      <3>2. CASE c \notin N /\ d \notin N
        BY <1>1, <2>1, <3>2 DEF CallParts, Paired
      <3>. QED BY <3>1, <3>2
    <2>. QED BY <2>1 DEF Paired
  <1>4. ASSUME NEW d \in Calls, Yes(g[d])
        PROVE  Right(v, at, g[d]) /\ (Fetches(at, g[d]) \/ \E e \in Calls : Overtaken(v, g[e]))
    <2>1. d \notin N
      BY <1>0, <1>4 DEF Yes
    <2>2. g[d] = f[d]
      BY <1>1, <2>1
    <2>3. ASSUME NEW e \in Calls, Overtaken(v, f[e]) PROVE Overtaken(v, g[e])
      <3>1. e \notin N
        BY <1>0, <2>3 DEF Overtaken, Yes, On
      <3>. QED BY <1>1, <2>3, <3>1
    <2>. QED BY <1>4, <2>2, <2>3 DEF CallParts, Truthful
  <1>5. Seconds(g)
    <2>1. ASSUME NEW d \in Calls, On(g[d]), g[d].second
          PROVE  g[d].req.op = "load" /\ (g[d].pc = "answered" => g[d].answer = "ok")
      <3>1. d \notin N
        BY <1>0, <2>1
      <3>. QED BY <1>1, <2>1, <3>1 DEF CallParts, Seconds
    <2>. QED BY <2>1 DEF Seconds
  <1>. QED BY <1>2, <1>3, <1>4, <1>5 DEF CallParts, Truthful

LEMMA ListAsked ==
    ASSUME NEW v, NEW at, NEW f, NEW g, NEW N \in SUBSET Calls, NEW l, ListParts(v, at, f, l),
           \A d \in Calls \ N : g[d] = f[d],
           \A d \in N : ~On(f[d]) /\ g[d].seen = l,
           \A d \in N : Later(g[d].req) => Exact(at, l.rows, l.of),
           \A d \in N : g[d].req.op = "switch" /\ v # "withdrawals" =>
               \A r \in g[d].req.rows : \E j \in 1..Len(l.rows) : l.rows[j].id = r.id /\ l.rows[j].arr = r.arr
    PROVE  ListParts(v, at, g, l)
  <1>1. \A d \in Calls : d \notin N => g[d] = f[d]
    OBVIOUS
  <1>2. Ahead(at, g)
    BY <1>1 DEF ListParts, Ahead
  <1>3. Held(v, g, l)
    <2>1. ASSUME v # "withdrawals", NEW d \in Calls, On(g[d]), Changes(g[d].req)
          PROVE  /\ g[d].seen.rows = l.rows /\ g[d].seen.of = l.of
                 /\ g[d].req.op = "switch" =>
                      \A r \in g[d].req.rows : \E j \in 1..Len(l.rows) : l.rows[j].id = r.id /\ l.rows[j].arr = r.arr
      <3>1. CASE d \in N
        BY <2>1, <3>1
      <3>2. CASE d \notin N
        BY <1>1, <2>1, <3>2 DEF ListParts, Held
      <3>. QED BY <3>1, <3>2
    <2>. QED BY <2>1 DEF Held
  <1>4. \A d \in Calls : On(f[d]) => g[d] = f[d]
    BY <1>1
  <1>5. Settled(v, at, g, l)
    <2>1. \A d \in Calls : (Owes(v, f[d]) \/ Deletes(f[d]) \/ Switches(f[d])) => g[d] = f[d]
      BY <1>4 DEF Owes, Deletes, Switches, Yes, On
    <2>. QED BY <2>1, SettledMore DEF ListParts
  <1>. QED BY <1>2, <1>3, <1>5 DEF ListParts

\* A request that clashes with none under way.
LEMMA NoClash ==
    ASSUME NEW q, Clash(q) \subseteq history', Fine'
    PROVE  \A d \in Calls : On(call[d]) =>
              \/ Apart(q, call[d].req)
              \/ ~Changes(q) /\ ~Changes(call[d].req) /\ ~(q.page > 0)
  <1>1. "clash" \notin history'
    BY DEF Fine, Excuses
  <1>2. "clash" \notin Clash(q)
    BY <1>1
  <1>. QED BY <1>2 DEF Clash, On, Idle

LEMMA AskedTogether ==
    ASSUME NEW v, NEW k, NEW o, k.req \in Requests, o.req \in Requests, k.no \in Nat, o.no \in Nat, o.no < k.no,
           Apart(k.req, o.req) \/ (~Changes(k.req) /\ ~Changes(o.req) /\ ~(k.req.page > 0))
    PROVE  Together(v, k, o) /\ Together(v, o, k) /\ ~Later(k.req)
  <1>1. o.no # k.no
    OBVIOUS
  <1>2. CASE Apart(k.req, o.req)
    <2>1. Apart(o.req, k.req) /\ k.req.op = "switch" /\ o.req.op = "switch"
      BY <1>2 DEF Apart
    <2>2. ~Later(k.req) /\ ~Later(o.req)
      BY <2>1 DEF Later
    <2>. QED BY <1>1, <1>2, <2>1, <2>2 DEF Together
  <1>3. CASE ~Changes(k.req) /\ ~Changes(o.req) /\ ~(k.req.page > 0)
    <2>1. k.req.op \in Reads
      BY <1>3 DEF Requests, Changes
    <2>. QED BY <1>3, <2>1 DEF Together, Later
  <1>. QED BY <1>2, <1>3

LEMMA RowsLocal ==
    ASSUME RowsInv, view' = view, ShapeLocal
    PROVE  RowsInv'
  <1>1. UNCHANGED <<db, list, knob, call, bounds>> /\ (Fine' => Fine) /\ (Plainly' => Plainly)
    BY DEF ShapeLocal, Fine, Plainly
  <1>. QED BY <1>1 DEF RowsInv

\* Who is under way, and how it is numbered.
LEMMA OnIs ==
    ASSUME TableTypes
    PROVE  /\ \A d \in Calls : (On(call[d]) <=> ~Idle(d))
           /\ \A d \in Calls : On(call[d]) => call[d].no \in Nat /\ call[d].req \in Requests /\ call[d].seen \in Lists
                                              /\ call[d] \in Actives /\ Fits(view, call[d].req)
           /\ bounds.asked \in Nat /\ list \in Lists /\ list.rows \in Seq(Row)
  <1>1. \A d \in Calls : (On(call[d]) <=> ~Idle(d))
    BY DEF On, Idle
  <1>2. ASSUME NEW d \in Calls, On(call[d])
        PROVE  call[d].no \in Nat /\ call[d].req \in Requests /\ call[d].seen \in Lists /\ call[d] \in Actives
               /\ Fits(view, call[d].req)
    <2>1. call[d] \in Actives /\ Fits(view, call[d].req)
      BY <1>1, <1>2, Under
    <2>. QED BY <2>1 DEF Actives
  <1>3. bounds.asked \in Nat /\ list \in Lists
    BY DEF TableTypes
  <1>. QED BY <1>1, <1>2, <1>3 DEF Lists

LEMMA RowsAsk ==
    ASSUME TableTypes, RowsInv, Around, ShapeAsk
    PROVE  RowsInv'
  <1>. SUFFICES ASSUME Plainly', Fine'
                PROVE  /\ CallParts(view, db, call', bounds'.asked) /\ ListParts(view, db, call', list)
                       /\ UNCHANGED <<view, db, list, knob>> /\ knob = [i \in Ids |-> 0]
    BY DEF RowsInv
  <1>1. PICK c \in Calls, q \in Requests, p \in Pagers, f \in Forms :
           AskBy(c, q, p, f) /\ Rowed(q) /\ UNCHANGED <<db, list, knob>>
    BY DEF ShapeAsk
  <1>2. /\ Idle(c) /\ history' = history \cup Clash(q) /\ \A d \in Calls \ {c} : call'[d] = call[d]
        /\ call'[c] = Sent(q, bounds.asked + 1, p, f) /\ bounds'.asked = bounds.asked + 1
    BY <1>1, AskedFree
  <1>3. call'[c].pc = "sent" /\ call'[c].req = q /\ call'[c].seen = list /\ call'[c].no = bounds.asked + 1
        /\ ~call'[c].second
    BY <1>2, SentHolds, NextIs
  <1>4. /\ CallParts(view, db, call, bounds.asked) /\ ListParts(view, db, call, list)
        /\ view' = view /\ knob = [i \in Ids |-> 0]
    BY <1>2 DEF RowsInv, Plainly, Fine, Around
  <1>5. \A d \in Calls : On(call[d]) =>
            Apart(q, call[d].req) \/ (~Changes(q) /\ ~Changes(call[d].req) /\ ~(q.page > 0))
    BY <1>2, NoClash
  <1>6. ~On(call[c]) /\ bounds.asked \in Nat /\ list \in Lists /\ bounds.asked <= bounds.asked + 1
    BY <1>2, OnIs
  <1>7. ASSUME NEW d \in Calls, On(call[d])
        PROVE  Together(view, call'[c], call[d]) /\ Together(view, call[d], call'[c]) /\ ~Later(q)
    <2>1. call[d].no \in Nat /\ call[d].req \in Requests /\ call[d].no <= bounds.asked
      BY <1>4, <1>7, OnIs DEF CallParts, Numbered
    <2>2. call[d].no < call'[c].no /\ call'[c].no \in Nat
      BY <1>3, <1>6, <2>1
    <2>. QED BY <1>3, <1>5, <1>7, <2>1, <2>2, AskedTogether
  <1>8. CallParts(view, db, call', bounds.asked + 1)
    <2>1. \A d \in {c} : ~On(call[d]) /\ call'[d].pc = "sent" /\ call'[d].no <= bounds.asked + 1 /\ ~call'[d].second
      BY <1>3, <1>6
    <2>2. \A d \in {c}, e \in Calls : e # d /\ On(call'[e]) =>
              Together(view, call'[d], call'[e]) /\ Together(view, call'[e], call'[d])
      BY <1>2, <1>7
    <2>3. \A d \in Calls : On(call[d]) => call[d].no \in Nat
      BY OnIs
    <2>4. {c} \in SUBSET Calls /\ bounds.asked + 1 \in Nat
      BY <1>6
    <2>5. \A d \in Calls \ {c} : call'[d] = call[d]
      BY <1>2
    <2>. DEFINE N == {c}
                g == call'
                m == bounds.asked + 1
                n == bounds.asked
    <2>6. m \in Nat /\ n \in Nat /\ n <= m /\ CallParts(view, db, call, n) /\ Joins(view, call, g, N, m)
      BY <1>4, <1>6, <2>1, <2>2, <2>3, <2>4, <2>5 DEF Joins
    <2>. HIDE DEF N, g, m, n
    <2>7. CallParts(view, db, g, m)
      BY <2>6, CallsAsked
    <2>. QED BY <2>7 DEF g, m
  <1>9. Later(q) => Exact(db, list.rows, list.of)
    <2>1. ASSUME Later(q) PROVE \A d \in Calls : ~On(call[d])
      BY <1>7, <2>1
    <2>2. ASSUME Later(q) PROVE \A d \in Calls : ~Owes(view, call[d]) /\ ~Deletes(call[d]) /\ ~Switches(call[d])
      BY <2>1, <2>2 DEF Owes, Deletes, Switches, Yes, On
    <2>. QED BY <1>4, <1>6, <2>2, SettledExact DEF ListParts
  <1>10. q.op = "switch" /\ view # "withdrawals" =>
            \A r \in q.rows : \E j \in 1..Len(list.rows) : list.rows[j].id = r.id /\ list.rows[j].arr = r.arr
    <2>1. ASSUME q.op = "switch", view # "withdrawals", NEW r \in q.rows
          PROVE  \E j \in 1..Len(list.rows) : list.rows[j].id = r.id /\ list.rows[j].arr = r.arr
      <3>1. PICK o \in ToSet(list.rows) : q.rows = {o}
        BY <1>1, <2>1 DEF Rowed
      <3>2. DOMAIN list.rows = 1..Len(list.rows)
        BY OnIs, LenProperties
      <3>3. PICK j \in 1..Len(list.rows) : o = list.rows[j]
        BY <3>1, <3>2 DEF ToSet
      <3>. QED BY <2>1, <3>1, <3>3
    <2>. QED BY <2>1
  <1>11. ListParts(view, db, call', list)
    <2>1. {c} \in SUBSET Calls /\ \A d \in {c} : ~On(call[d]) /\ call'[d].seen = list
      BY <1>3, <1>6
    <2>2. \A d \in {c} : Later(call'[d].req) => Exact(db, list.rows, list.of)
      BY <1>3, <1>9
    <2>3. \A d \in {c} : call'[d].req.op = "switch" /\ view # "withdrawals" =>
              \A r \in call'[d].req.rows : \E j \in 1..Len(list.rows) : list.rows[j].id = r.id /\ list.rows[j].arr = r.arr
      BY <1>3, <1>10
    <2>. QED BY <1>2, <1>4, <2>1, <2>2, <2>3, ListAsked
  <1>. QED BY <1>1, <1>2, <1>4, <1>8, <1>11

LEMMA RowsAskTwo ==
    ASSUME TableTypes, RowsInv, Around, ShapeAskTwo
    PROVE  RowsInv'
  <1>. SUFFICES ASSUME Plainly', Fine'
                PROVE  /\ CallParts(view, db, call', bounds'.asked) /\ ListParts(view, db, call', list)
                       /\ UNCHANGED <<view, db, list, knob>> /\ knob = [i \in Ids |-> 0]
    BY DEF RowsInv
  <1>1. PICK c, d \in Calls, q, o \in Requests, p \in Pagers :
           AskTwo(c, d, q, o, p) /\ q.op \in Reads /\ o.op \in Reads /\ q.page = 0 /\ UNCHANGED <<db, list, knob>>
    BY DEF ShapeAskTwo
  <1>. DEFINE N == {c, d}
              g == call'
              n == bounds.asked
              m == bounds.asked + 2
  <1>2. /\ Idle(c) /\ Idle(d) /\ c # d /\ history' = history \cup Clash(q) \cup Clash(o)
        /\ \A e \in Calls \ {c, d} : call'[e] = call[e]
        /\ call'[c] = Sent(q, bounds.asked + 1, pager, search) /\ call'[d] = Sent(o, bounds.asked + 2, p, search)
        /\ bounds'.asked = bounds.asked + 2
    BY <1>1, AskedTwoFree
  <1>3. /\ call'[c].pc = "sent" /\ call'[c].req = q /\ call'[c].seen = list /\ call'[c].no = bounds.asked + 1
        /\ ~call'[c].second
        /\ call'[d].pc = "sent" /\ call'[d].req = o /\ call'[d].seen = list /\ call'[d].no = bounds.asked + 2
        /\ ~call'[d].second
    BY <1>2, SentHolds, NextIs
  <1>4. /\ CallParts(view, db, call, bounds.asked) /\ ListParts(view, db, call, list)
        /\ view' = view /\ knob = [i \in Ids |-> 0]
    BY <1>2 DEF RowsInv, Plainly, Fine, Around
  <1>5. /\ \A e \in Calls : On(call[e]) =>
              Apart(q, call[e].req) \/ (~Changes(q) /\ ~Changes(call[e].req) /\ ~(q.page > 0))
        /\ \A e \in Calls : On(call[e]) =>
              Apart(o, call[e].req) \/ (~Changes(o) /\ ~Changes(call[e].req) /\ ~(o.page > 0))
    <2>1. Clash(q) \subseteq history' /\ Clash(o) \subseteq history'
      BY <1>2
    <2>. QED BY <2>1, NoClash
  <1>6. ~On(call[c]) /\ ~On(call[d]) /\ bounds.asked \in Nat /\ list \in Lists /\ bounds.asked <= bounds.asked + 2
        /\ bounds.asked + 2 \in Nat
    BY <1>2, OnIs
  <1>7. ASSUME NEW e \in Calls, On(call[e])
        PROVE  /\ Together(view, call'[c], call[e]) /\ Together(view, call[e], call'[c])
               /\ Together(view, call'[d], call[e]) /\ Together(view, call[e], call'[d]) /\ ~Later(o)
    <2>1. call[e].no \in Nat /\ call[e].req \in Requests /\ call[e].no <= bounds.asked
      BY <1>4, <1>7, OnIs DEF CallParts, Numbered
    <2>2. call[e].no < call'[c].no /\ call'[c].no \in Nat /\ call[e].no < call'[d].no /\ call'[d].no \in Nat
      BY <1>3, <1>6, <2>1
    <2>3. Together(view, call'[c], call[e]) /\ Together(view, call[e], call'[c])
      BY <1>3, <1>5, <1>7, <2>1, <2>2, AskedTogether
    <2>4. Together(view, call'[d], call[e]) /\ Together(view, call[e], call'[d]) /\ ~Later(o)
      BY <1>3, <1>5, <1>7, <2>1, <2>2, AskedTogether
    <2>. QED BY <2>3, <2>4
  <1>8. Together(view, call'[c], call'[d]) /\ Together(view, call'[d], call'[c])
    BY <1>1, <1>3 DEF Together, Changes, Later, Reads
  <1>9. CallParts(view, db, call', bounds.asked + 2)
    <2>1. \A e \in N : ~On(call[e]) /\ g[e].pc = "sent" /\ g[e].no <= m /\ ~g[e].second
      BY <1>3, <1>6
    <2>2. ASSUME NEW a \in N, NEW e \in Calls, e # a, On(g[e])
          PROVE  Together(view, g[a], g[e]) /\ Together(view, g[e], g[a])
      <3>1. CASE e \in N
        <4>1. (a = c /\ e = d) \/ (a = d /\ e = c)
          BY <2>2, <3>1
        <4>. QED BY <1>8, <4>1
      <3>2. CASE e \notin N
        <4>1. g[e] = call[e] /\ On(call[e])
          BY <1>2, <2>2, <3>2
        <4>2. a = c \/ a = d
          OBVIOUS
        <4>. QED BY <1>7, <4>1, <4>2
      <3>. QED BY <3>1, <3>2
    <2>3. \A e \in Calls : On(call[e]) => call[e].no \in Nat
      BY OnIs
    <2>4. N \in SUBSET Calls /\ m \in Nat /\ n \in Nat /\ n <= m /\ \A e \in Calls \ N : g[e] = call[e]
      BY <1>2, <1>6
    <2>5. CallParts(view, db, call, n)
      BY <1>4
    <2>. HIDE DEF N, g, m, n
    <2>6. Joins(view, call, g, N, m)
      BY <2>1, <2>2, <2>3, <2>4 DEF Joins
    <2>7. CallParts(view, db, g, m)
      BY <2>4, <2>5, <2>6, CallsAsked
    <2>. QED BY <2>7 DEF g, m
  <1>10. Later(o) => Exact(db, list.rows, list.of)
    <2>1. ASSUME Later(o) PROVE \A e \in Calls : ~On(call[e])
      BY <1>7, <2>1
    <2>2. ASSUME Later(o) PROVE \A e \in Calls : ~Owes(view, call[e]) /\ ~Deletes(call[e]) /\ ~Switches(call[e])
      BY <2>1, <2>2 DEF Owes, Deletes, Switches, Yes, On
    <2>. QED BY <1>4, <1>6, <2>2, SettledExact DEF ListParts
  <1>11. ListParts(view, db, call', list)
    <2>1. N \in SUBSET Calls /\ \A e \in N : ~On(call[e]) /\ g[e].seen = list
      BY <1>3, <1>6
    <2>2. \A e \in N : Later(g[e].req) => Exact(db, list.rows, list.of)
      BY <1>1, <1>3, <1>10 DEF Later
    <2>3. \A e \in N : g[e].req.op # "switch"
      BY <1>1, <1>3 DEF Reads
    <2>4. \A e \in Calls \ N : g[e] = call[e]
      BY <1>2
    <2>. HIDE DEF N, g
    <2>5. ListParts(view, db, g, list)
      BY <1>4, <2>1, <2>2, <2>3, <2>4, ListAsked
    <2>. QED BY <2>5 DEF g
  <1>. QED BY <1>1, <1>2, <1>4, <1>9, <1>11

-----------------------------------------------------------------------------
(* An answer is handled                                                    *)

LEMMA AnswerOf ==
    ASSUME TableTypes, Fine', NEW c \in Calls, Handled(c)
    PROVE  /\ call[c].pc = "answered" /\ On(call[c]) /\ call[c] \in Goods(view) /\ call[c] \in Actives
           /\ Fits(view, call[c].req) /\ call[c].req \in Requests /\ db' = db /\ bounds' = bounds
           /\ history \subseteq history'
           /\ \A d \in Calls \ {c} : Like(call[d], call'[d])
           /\ \A d \in Calls : On(call[d]) => ~(call[d].no < call[c].no)
  <1>1. Handles(c)
    BY DEF Handled, ShapeEnd, ShapeGoOn, ShapeReplace, ShapeSplice, ShapeSet, ShapeRemove, ShapeBad, ShapeLog
  <1>2. call[c].pc = "answered" /\ db' = db /\ bounds' = bounds /\ history \subseteq history'
    BY <1>1 DEF Handles
  <1>3. On(call[c]) /\ ~Idle(c)
    BY <1>2 DEF On, Idle
  <1>4. call[c] \in Goods(view) /\ call[c] \in Actives /\ Fits(view, call[c].req) /\ call[c].req \in Requests
    BY <1>3, Under
  <1>5. ASSUME NEW d \in Calls \ {c} PROVE Like(call[d], call'[d])
    <2>1. Kept(d)
      BY HandledKept
    <2>. QED BY <2>1 DEF Kept, Like, On, Idle, NoCall
  <1>6. ASSUME NEW d \in Calls, On(call[d]) PROVE ~(call[d].no < call[c].no)
    <2>1. "reordered" \notin history'
      BY DEF Fine, Excuses
    <2>. QED BY <1>1, <1>6, <2>1 DEF Handles, On, Idle
  <1>. QED BY <1>2, <1>3, <1>4, <1>5, <1>6

\* The other calls are under way as before.
LEMMA LikeOf ==
    ASSUME NEW v, NEW f, NEW g, NEW c, \A d \in Calls \ {c} : Like(f[d], g[d])
    PROVE  \A d \in Calls \ {c} :
              /\ On(g[d]) <=> On(f[d])
              /\ On(f[d]) => g[d].req = f[d].req /\ g[d].no = f[d].no
              /\ Owes(v, f[d]) => Owes(v, g[d])
              /\ Deletes(f[d]) => Deletes(g[d]) /\ g[d].req = f[d].req
              /\ Switches(f[d]) => Switches(g[d]) /\ g[d].req = f[d].req
  <1>. SUFFICES ASSUME NEW d \in Calls \ {c}
                PROVE  /\ On(g[d]) <=> On(f[d])
                       /\ On(f[d]) => g[d].req = f[d].req /\ g[d].no = f[d].no
                       /\ Owes(v, f[d]) => Owes(v, g[d])
                       /\ Deletes(f[d]) => Deletes(g[d]) /\ g[d].req = f[d].req
                       /\ Switches(f[d]) => Switches(g[d]) /\ g[d].req = f[d].req
    OBVIOUS
  <1>1. Like(f[d], g[d])
    OBVIOUS
  <1>2. (Deletes(f[d]) => On(f[d])) /\ (Switches(f[d]) => On(f[d]))
    BY DEF Deletes, Switches, Yes, On
  <1>. QED BY <1>1, <1>2, LikeParts

\* A request is over of which nothing was to be followed.
LEMMA ListEnd ==
    ASSUME NEW v, NEW at, NEW f, NEW g, NEW l, ListParts(v, at, f, l), NEW c \in Calls, ~On(g[c]),
           \A d \in Calls \ {c} : g[d] = f[d], ~Owes(v, f[c]), ~Deletes(f[c]), ~Switches(f[c])
    PROVE  ListParts(v, at, g, l)
  <1>1. \A d \in Calls : On(g[d]) => g[d] = f[d]
    OBVIOUS
  <1>2. Ahead(at, g)
    BY <1>1 DEF ListParts, Ahead
  <1>3. Held(v, g, l)
    BY <1>1 DEF ListParts, Held
  <1>4. \A d \in Calls : (Owes(v, f[d]) \/ Deletes(f[d]) \/ Switches(f[d])) => g[d] = f[d]
    OBVIOUS
  <1>5. Settled(v, at, g, l)
    BY <1>4, SettledMore DEF ListParts
  <1>. QED BY <1>2, <1>3, <1>5 DEF ListParts

LEMMA EndedIs ==
    ASSUME TableTypes, NEW c \in Calls, End(c)
    PROVE  call'[c] = NoCall /\ ~On(call'[c]) /\ \A d \in Calls \ {c} : call'[d] = call[d]
  <1>1. call'[c] = NoCall /\ \A d \in Calls \ {c} : call'[d] = call[d]
    BY DEF End, TableTypes
  <1>. QED BY <1>1 DEF On, NoCall

\* What holds of the requests under way and of the rows.
RowsParts == CallParts(view, db, call, bounds.asked) /\ ListParts(view, db, call, list)

LEMMA RowsOver ==
    ASSUME TableTypes, RowsParts, Fine', NEW c \in Calls, Handled(c), ~On(call'[c]), ~Overtaken(view, call[c])
    PROVE  CallParts(view, db, call', bounds.asked)
  BY AnswerOf, CallsEnd DEF RowsParts

LEMMA RowsEnd ==
    ASSUME TableTypes, Plainly, RowsParts, Fine', NEW c \in Calls, ShapeEnd(c)
    PROVE  CallParts(view, db, call', bounds.asked) /\ ListParts(view, db, call', list')
  <1>0. Handled(c)
    BY DEF Handled
  <1>1. End(c) /\ list' = list
    BY DEF ShapeEnd
  <1>2. call[c].pc = "answered" /\ On(call[c]) /\ Fits(view, call[c].req)
    BY <1>0, AnswerOf
  <1>3. ~Yes(call[c])
    <2>1. view \notin {"mine", "logs"}
      BY DEF Plainly
    <2>2. call[c].req.op # "totals"
      BY <1>2, <2>1 DEF Fits, Ops
    <2>3. Yes(call[c]) => Right(view, db, call[c])
      BY DEF RowsParts, CallParts, Truthful
    <2>4. ~(Yes(call[c]) /\ view = "channels" /\ call[c].req.op = "purge")
      BY <2>3 DEF Right
    <2>5. Yes(call[c]) => call[c].answer = "ok"
      BY DEF Yes
    <2>. QED BY <2>1, <2>2, <2>4, <2>5 DEF ShapeEnd
  <1>4. ~Owes(view, call[c]) /\ ~Deletes(call[c]) /\ ~Switches(call[c]) /\ ~Overtaken(view, call[c])
    <2>1. call[c].second => call[c].answer = "ok"
      BY <1>2 DEF RowsParts, CallParts, Seconds
    <2>2. ~call[c].second
      BY <1>2, <1>3, <2>1 DEF Yes
    <2>. QED BY <1>3, <2>2 DEF Owes, Deletes, Switches, Overtaken
  <1>5. ~On(call'[c]) /\ \A d \in Calls \ {c} : call'[d] = call[d]
    BY <1>1, EndedIs
  <1>6. CallParts(view, db, call', bounds.asked)
    BY <1>0, <1>4, <1>5, RowsOver
  <1>7. ListParts(view, db, call', list)
    BY <1>4, <1>5, ListEnd DEF RowsParts
  <1>. QED BY <1>1, <1>6, <1>7

LEMMA RowsReplace ==
    ASSUME TableTypes, RowsParts, Fine', NEW c \in Calls, ShapeReplace(c)
    PROVE  CallParts(view, db, call', bounds.asked) /\ ListParts(view, db, call', list')
  <1>. DEFINE k == call[c]
  <1>0. Handled(c)
    BY DEF Handled
  <1>1. /\ End(c) /\ k.answer = "ok" /\ k.req.op \in {"load", "search"} /\ (k.req.op = "load" => k.req.page = 0)
        /\ list' \in Lists /\ list'.of = k.req.query
        /\ Len(list'.rows) = Len(k.data) /\ \A j \in 1..Len(k.data) : Alike(list'.rows[j], k.data[j])
    BY DEF ShapeReplace
  <1>2. k.pc = "answered" /\ On(k) /\ k \in Actives /\ k.req \in Requests
    BY <1>0, AnswerOf
  <1>3. Yes(k) /\ ~Overtaken(view, k)
    BY <1>1, <1>2 DEF Yes, Overtaken
  <1>4. ~On(call'[c]) /\ \A d \in Calls \ {c} : call'[d] = call[d]
    BY <1>1, EndedIs
  <1>5. CallParts(view, db, call', bounds.asked)
    BY <1>0, <1>3, <1>4, RowsOver
  <1>6. Ahead(db, call')
    <2>1. \A d \in Calls : On(call'[d]) => call'[d] = call[d]
      BY <1>4
    <2>. QED BY <2>1 DEF RowsParts, ListParts, Ahead
  <1>7. Held(view, call', list')
    <2>1. ASSUME view # "withdrawals", NEW d \in Calls, On(call'[d]), Changes(call'[d].req) PROVE FALSE
      <3>1. d # c /\ call'[d] = call[d]
        BY <1>4, <2>1
      <3>2. Together(view, call[d], k)
        BY <1>2, <2>1, <3>1 DEF RowsParts, CallParts, Paired
      <3>3. Apart(call[d].req, k.req)
        BY <2>1, <3>1, <3>2 DEF Together
      <3>. QED BY <1>1, <3>3 DEF Apart
    <2>. QED BY <2>1 DEF Held
  <1>8. Settled(view, db, call', list')
    <2>1. CASE Fetches(db, k)
      <3>1. k.data \in Seq(Item) /\ list'.rows \in Seq(Row) /\ k.req.size \in Nat
        BY <1>1, <1>2 DEF Actives, Lists, Requests
      <3>2. \/ Fetched(db, LinesOf(db, k.req.query, 0, k.req.size), k.data)
            \/ Fetched(db, InOrder(Found(db, k.req.query)), k.data)
        <4>1. k.req.op = "load" => k.req.page * k.req.size = 0
          BY <1>1, <3>1
        <4>. QED BY <1>1, <2>1, <4>1 DEF Fetches
      <3>3. Exact(db, list'.rows, k.req.query)
        BY <1>1, <3>1, <3>2, FetchedExact
      <3>4. Exact(db, list'.rows, list'.of)
        BY <1>1, <3>3
      <3>. QED BY <1>1, <3>4, ExactSettled
    <2>2. ASSUME NEW d \in Calls, Overtaken(view, call[d])
          PROVE  Settled(view, db, call', list')
      <3>1. d # c
        BY <1>3, <2>2
      <3>2. Owes(view, call'[d])
        BY <1>4, <2>2, <3>1 DEF Overtaken, Owes
      <3>. QED BY <3>2 DEF Settled
    <2>. QED BY <1>3, <2>1, <2>2 DEF RowsParts, CallParts, Truthful
  <1>. QED BY <1>5, <1>6, <1>7, <1>8 DEF ListParts

LEMMA OthersLike ==
    ASSUME TableTypes, Fine', NEW c \in Calls, Handled(c), NEW d \in Calls, d # c
    PROVE  /\ On(call'[d]) <=> On(call[d])
           /\ On(call[d]) => call'[d].req = call[d].req /\ call'[d].no = call[d].no
           /\ Owes(view, call[d]) => Owes(view, call'[d])
           /\ Deletes(call[d]) => Deletes(call'[d]) /\ call'[d].req = call[d].req
           /\ Switches(call[d]) => Switches(call'[d]) /\ call'[d].req = call[d].req
  <1>1. Like(call[d], call'[d])
    BY AnswerOf
  <1>2. (Deletes(call[d]) => On(call[d])) /\ (Switches(call[d]) => On(call[d]))
    BY DEF Deletes, Switches, Yes, On
  <1>. QED BY <1>1, <1>2, LikeParts

LEMMA RowsSplice ==
    ASSUME TableTypes, RowsParts, Fine', NEW c \in Calls, ShapeSplice(c)
    PROVE  CallParts(view, db, call', bounds.asked) /\ ListParts(view, db, call', list')
  <1>. DEFINE k == call[c]
              from == k.req.page * k.req.size
              old == k.seen.rows
  <1>0. Handled(c)
    BY DEF Handled
  <1>1. /\ k.answer = "ok" /\ k.req.op = "load" /\ k.req.page > 0 /\ Others(c)
        /\ list' \in Lists /\ list'.of = k.seen.of
        /\ Len(old) < from => "gap" \in history'
        /\ k.req.query # k.seen.of => "mixed" \in history'
        /\ view \in {"users", "redemptions"} => (Len(old) > from => "pushed" \in history')
        /\ from = Len(old) \/ (view \notin {"users", "redemptions"} /\ from < Len(old)) =>
              /\ Len(list'.rows) = IF from + Len(k.data) < Len(old) THEN Len(old) ELSE from + Len(k.data)
              /\ \A j \in 1..Len(list'.rows) : Alike(list'.rows[j], Behind(old, from, k.data, j))
    BY DEF ShapeSplice
  <1>2. /\ k.pc = "answered" /\ On(k) /\ k \in Actives /\ k.req \in Requests
        /\ \A d \in Calls \ {c} : Like(call[d], call'[d])
    BY <1>0, AnswerOf
  <1>3. Yes(k) /\ ~Overtaken(view, k) /\ Later(k.req)
    BY <1>1, <1>2 DEF Yes, Overtaken, Later
  <1>4. call'[c] = NoCall /\ ~On(call'[c])
    BY <1>1 DEF Others, On, NoCall
  <1>5. CallParts(view, db, call', bounds.asked)
    BY <1>0, <1>3, <1>4, RowsOver
  <1>6. ASSUME NEW d \in Calls, d # c, On(call[d])
        PROVE  call[d].req.op \in Reads /\ ~Later(call[d].req)
    <2>1. Together(view, k, call[d])
      BY <1>2, <1>6 DEF RowsParts, CallParts, Paired
    <2>. QED BY <1>3, <2>1 DEF Together
  <1>7. ASSUME NEW d \in Calls, On(call'[d])
        PROVE  call'[d].req.op \in Reads /\ ~Later(call'[d].req)
    <2>1. d \in Calls \ {c}
      BY <1>4, <1>7
    <2>2. On(call[d]) /\ call'[d].req = call[d].req
      BY <1>0, <1>7, <2>1, OthersLike
    <2>. QED BY <1>6, <2>1, <2>2
  <1>8. Ahead(db, call') /\ Held(view, call', list')
    BY <1>7 DEF Ahead, Held, Changes, Reads
  <1>9. Fetched(db, LinesOf(db, k.req.query, from, k.req.size), k.data)
    <2>1. \A d \in Calls : ~Overtaken(view, call[d])
      <3>1. ASSUME NEW d \in Calls, Overtaken(view, call[d]) PROVE FALSE
        <4>1. On(call[d]) /\ call[d].req.op = "switch"
          BY <3>1 DEF Overtaken, Yes, On
        <4>2. d # c
          BY <1>1, <4>1
        <4>. QED BY <1>6, <4>1, <4>2 DEF Reads
      <3>. QED BY <3>1
    <2>2. Fetches(db, k)
      BY <1>3, <2>1 DEF RowsParts, CallParts, Truthful
    <2>. QED BY <1>1, <2>2 DEF Fetches
  <1>10. Exact(db, old, k.seen.of)
    BY <1>2, <1>3 DEF RowsParts, ListParts, Ahead
  <1>11. from \in Nat /\ k.req.size \in Nat
    <2>1. k.req.page \in Nat /\ k.req.size \in Nat
      BY <1>2 DEF Requests
    <2>. QED BY <2>1
  <1>12. k.data \in Seq(Item) /\ old \in Seq(Row) /\ list'.rows \in Seq(Row) /\ Len(old) \in Nat
    <2>1. k.data \in Seq(Item) /\ old \in Seq(Row) /\ list'.rows \in Seq(Row)
      BY <1>1, <1>2 DEF Actives, Lists
    <2>. QED BY <2>1, LenProperties
  <1>13. "gap" \notin history' /\ "mixed" \notin history' /\ "pushed" \notin history'
    BY DEF Fine, Excuses
  <1>. HIDE DEF from, old
  <1>14. ~(Len(old) < from) /\ k.req.query = k.seen.of /\ (view \in {"users", "redemptions"} => ~(Len(old) > from))
    BY <1>1, <1>13
  <1>15. from <= Len(old) /\ (from = Len(old) \/ (view \notin {"users", "redemptions"} /\ from < Len(old)))
    BY <1>11, <1>12, <1>14
  <1>16. Exact(db, list'.rows, k.seen.of)
    <2>1. Exact(db, old, k.req.query) /\ Fetched(db, LinesOf(db, k.req.query, from, k.req.size), k.data)
      BY <1>9, <1>10, <1>14
    <2>2. /\ Len(list'.rows) = IF from + Len(k.data) < Len(old) THEN Len(old) ELSE from + Len(k.data)
          /\ \A j \in 1..Len(list'.rows) : Alike(list'.rows[j], Behind(old, from, k.data, j))
      BY <1>1, <1>15
    <2>3. Exact(db, list'.rows, k.req.query)
      BY <1>11, <1>12, <1>15, <2>1, <2>2, SplicedExact
    <2>. QED BY <1>14, <2>3
  <1>17. Settled(view, db, call', list')
    BY <1>1, <1>16, ExactSettled
  <1>. QED BY <1>5, <1>8, <1>17 DEF ListParts

LEMMA NoRows ==
    ASSUME NEW at, NEW of
    PROVE  Exact(at, <<>>, of)
  <1>1. Len(<<>>) = 0 /\ Cardinality(Found(at, of)) \in Nat
    BY FoundSet, EmptySeq
  <1>. QED BY <1>1 DEF Exact

LEMMA RowsBad ==
    ASSUME TableTypes, RowsParts, Fine', NEW c \in Calls, ShapeBad(c)
    PROVE  CallParts(view, db, call', bounds.asked) /\ ListParts(view, db, call', list')
  <1>0. Handled(c)
    BY DEF Handled
  <1>1. End(c) /\ view = "minewd" /\ list' \in Lists /\ list'.rows = <<>>
    BY DEF ShapeBad
  <1>2. ~On(call'[c]) /\ \A d \in Calls \ {c} : call'[d] = call[d]
    BY <1>1, EndedIs
  <1>3. \A d \in Calls : On(call[d]) => call[d].req.op = "search"
    BY <1>1, OnIs DEF Fits, Ops
  <1>4. CallParts(view, db, call', bounds.asked)
    BY <1>0, <1>1, <1>2, RowsOver DEF Overtaken
  <1>5. \A d \in Calls : On(call'[d]) => call'[d].req.op = "search"
    BY <1>2, <1>3
  <1>6. Ahead(db, call') /\ Held(view, call', list')
    BY <1>5 DEF Ahead, Held, Changes, Later
  <1>7. Exact(db, list'.rows, list'.of)
    BY <1>1, NoRows
  <1>8. Settled(view, db, call', list')
    BY <1>1, <1>7, ExactSettled
  <1>. QED BY <1>4, <1>6, <1>8 DEF ListParts

LEMMA SetSame ==
    ASSUME NEW rows \in Seq(Row), NEW o \in Row, NEW s \in 1..3, NEW x, x = Set(o, s, rows)
    PROVE  Len(x) = Len(rows) /\ \A k \in 1..Len(rows) : x[k].id = rows[k].id /\ x[k].arr = rows[k].arr
  <1>1. SetsRow(x, o, s, rows)
    BY SetTells
  <1>. QED BY <1>1 DEF SetsRow

\* What is set in tidy rows is the status of one.
LEMMA SetTidy ==
    ASSUME NEW at, NEW rows \in Seq(Row), NEW of, NEW gone, NEW moving, Tidy(at, rows, of, gone), Current(at, rows, moving),
           NEW o \in Row, NEW s \in 1..3, NEW still, \A x \in moving : x = o.id \/ x \in still,
           at[o.id] = s, \E j \in 1..Len(rows) : rows[j].id = o.id /\ rows[j].arr = o.arr
    PROVE  Tidy(at, Set(o, s, rows), of, gone) /\ Current(at, Set(o, s, rows), still)
  <1>. DEFINE x == Set(o, s, rows)
  <1>0. SetsRow(x, o, s, rows)
    BY SetTells
  <1>1. /\ Len(x) = Len(rows)
        /\ \A j \in 1..Len(rows) :
             /\ x[j].id = rows[j].id
             /\ rows[j].id = o.id /\ rows[j].arr = o.arr => x[j].status = s
             /\ ~(rows[j].id = o.id /\ rows[j].arr = o.arr) => x[j].status = rows[j].status
    <2>. HIDE DEF x
    <2>. QED BY <1>0 DEF SetsRow
  <1>. HIDE DEF x
  <1>2. Len(rows) \in Nat /\ \A j \in 1..Len(rows) : rows[j].id \in Nat
    BY RowsAre
  <1>3. Tidy(at, x, of, gone)
    <2>1. \A j, k \in 1..Len(x) : j < k => x[j].id > x[k].id
      BY <1>1 DEF Tidy
    <2>2. \A k \in 1..Len(x) : x[k].id \in Found(at, of) \/ x[k].id \in gone
      BY <1>1 DEF Tidy
    <2>3. \A y \in Found(at, of), k \in 1..Len(x) : y > x[k].id => \E j \in 1..Len(x) : x[j].id = y
      BY <1>1 DEF Tidy
    <2>. QED BY <2>1, <2>2, <2>3 DEF Tidy
  <1>4. Current(at, x, still)
    <2>. SUFFICES ASSUME NEW k \in 1..Len(rows) PROVE x[k].id \in still \/ x[k].status = at[x[k].id]
      BY <1>1 DEF Current
    <2>1. PICK j \in 1..Len(rows) : rows[j].id = o.id /\ rows[j].arr = o.arr
      OBVIOUS
    <2>2. CASE rows[k].id = o.id
      <3>1. ~(j < k) /\ ~(k < j)
        <4>1. (j < k => rows[j].id > rows[k].id) /\ (k < j => rows[k].id > rows[j].id)
          BY DEF Tidy
        <4>2. rows[j].id = rows[k].id /\ rows[j].id \in Nat
          BY <1>2, <2>1, <2>2
        <4>. QED BY <4>1, <4>2
      <3>2. j = k
        BY <1>2, <3>1
      <3>. QED BY <1>1, <2>1, <2>2, <3>2
    <2>3. CASE rows[k].id # o.id
      BY <1>1, <2>3 DEF Current
    <2>. QED BY <2>2, <2>3
  <1>. QED BY <1>3, <1>4 DEF x

LEMMA RowsSet ==
    ASSUME TableTypes, RowsParts, Fine', NEW c \in Calls, NEW s \in 1..3, ShapeSet(c, s)
    PROVE  CallParts(view, db, call', bounds.asked) /\ ListParts(view, db, call', list')
  <1>. DEFINE k == call[c]
              o == CHOOSE r \in k.req.rows : TRUE
  <1>0. Handled(c)
    BY DEF Handled
  <1>1. /\ k.answer = "ok" /\ k.req.op = "switch"
        /\ \/ view \in {"channels", "tokens"} /\ s = k.req.to
           \/ view \in {"users", "redemptions"} /\ s = k.data[1].status
        /\ Assign(c, o, s) /\ list' \in Lists /\ list'.rows = Set(o, s, k.seen.rows) /\ list'.of = k.seen.of
    BY DEF ShapeSet
  <1>2. /\ k.pc = "answered" /\ On(k) /\ k \in Actives /\ Fits(view, k.req)
        /\ \A d \in Calls \ {c} : Like(call[d], call'[d])
    BY <1>0, AnswerOf
  <1>3. Yes(k) /\ ~Overtaken(view, k) /\ Changes(k.req) /\ view # "withdrawals"
    BY <1>1, <1>2 DEF Yes, Overtaken, Changes
  <1>4. k.req.rows = {o} /\ o \in Row /\ o \in k.req.rows
    <2>1. \E r \in Row : k.req.rows = {r}
      BY <1>1, <1>2, FitsSwitch
    <2>. QED BY <2>1
  <1>. HIDE DEF o
  <1>5. call'[c] = NoCall /\ ~On(call'[c])
    BY <1>1, AssignIs DEF On, NoCall
  <1>6. CallParts(view, db, call', bounds.asked)
    BY <1>0, <1>3, <1>5, RowsOver
  <1>7. db[o.id] = s
    <2>1. Right(view, db, k)
      BY <1>3 DEF RowsParts, CallParts, Truthful
    <2>2. CASE view \in {"channels", "tokens"} /\ s = k.req.to
      <3>1. k.req.to # 0
        BY <2>2
      <3>. QED BY <1>1, <1>3, <1>4, <2>1, <2>2, <3>1 DEF Right
    <2>3. CASE view \in {"users", "redemptions"} /\ s = k.data[1].status
      BY <1>1, <1>4, <2>1, <2>3 DEF Right
    <2>. QED BY <1>1, <2>2, <2>3
  <1>8. /\ k.seen.rows = list.rows /\ k.seen.of = list.of
        /\ \E j \in 1..Len(list.rows) : list.rows[j].id = o.id /\ list.rows[j].arr = o.arr
    BY <1>1, <1>2, <1>3, <1>4 DEF RowsParts, ListParts, Held
  <1>9. list.rows \in Seq(Row) /\ list'.rows = Set(o, s, list.rows) /\ list'.of = list.of
    BY <1>1, <1>8, OnIs
  <1>10. ASSUME NEW d \in Calls, On(call'[d])
         PROVE  d # c /\ On(call[d]) /\ call'[d].req = call[d].req /\ Apart(k.req, call[d].req) /\ call[d].req.op = "switch"
    <2>1. d \in Calls \ {c}
      BY <1>5, <1>10
    <2>2. On(call[d]) /\ call'[d].req = call[d].req
      BY <1>0, <1>10, <2>1, OthersLike
    <2>3. Together(view, k, call[d])
      BY <1>2, <2>1, <2>2 DEF RowsParts, CallParts, Paired
    <2>4. Apart(k.req, call[d].req)
      BY <1>3, <2>3 DEF Together
    <2>. QED BY <2>1, <2>2, <2>4 DEF Apart
  <1>11. Ahead(db, call')
    BY <1>10 DEF Ahead, Later
  <1>12. /\ Len(list'.rows) = Len(list.rows)
         /\ \A j \in 1..Len(list.rows) : list'.rows[j].id = list.rows[j].id /\ list'.rows[j].arr = list.rows[j].arr
    <2>. DEFINE x == list'.rows
                rows == list.rows
    <2>1. o \in Row /\ s \in 1..3 /\ rows \in Seq(Row) /\ x = Set(o, s, rows)
      BY <1>4, <1>9
    <2>. HIDE DEF x, rows
    <2>2. Len(x) = Len(rows) /\ \A j \in 1..Len(rows) : x[j].id = rows[j].id /\ x[j].arr = rows[j].arr
      BY <2>1, SetSame
    <2>. QED BY <2>2 DEF x, rows
  <1>13. Held(view, call', list')
    <2>. SUFFICES ASSUME NEW d \in Calls, On(call'[d]), Changes(call'[d].req)
                  PROVE  /\ call'[d].seen.rows = list'.rows /\ call'[d].seen.of = list'.of
                         /\ call'[d].req.op = "switch" => \A r \in call'[d].req.rows :
                               \E j \in 1..Len(list'.rows) : list'.rows[j].id = r.id /\ list'.rows[j].arr = r.arr
      BY DEF Held
    <2>1. d # c /\ On(call[d]) /\ call'[d].req = call[d].req
      BY <1>10
    <2>2. /\ call[d].seen.rows = list.rows /\ call[d].seen.of = list.of
          /\ call[d].req.op = "switch" => \A r \in call[d].req.rows :
                \E j \in 1..Len(list.rows) : list.rows[j].id = r.id /\ list.rows[j].arr = r.arr
      BY <1>3, <2>1 DEF RowsParts, ListParts, Held
    <2>3. call'[d].seen.rows = Set(o, s, call[d].seen.rows) /\ call'[d].seen.of = call[d].seen.of
      BY <1>1, <2>1, OnIs, AssignIs
    <2>4. call'[d].seen.rows = list'.rows /\ call'[d].seen.of = list'.of
      BY <1>9, <2>2, <2>3
    <2>. QED BY <1>12, <2>1, <2>2, <2>4
  <1>14. Settled(view, db, call', list')
    <2>1. /\ ~Owes(view, k) /\ ~Deletes(k)
      BY <1>1, <1>3 DEF Owes, Deletes
    <2>2. ASSUME NEW d \in Calls, Owes(view, call[d]) PROVE Settled(view, db, call', list')
      <3>1. d \in Calls \ {c}
        BY <2>1, <2>2
      <3>2. Owes(view, call'[d])
        BY <1>0, <2>2, <3>1, OthersLike
      <3>. QED BY <3>2 DEF Settled
    <2>3. CASE Tidy(db, list.rows, list.of, Gone(call)) /\ Current(db, list.rows, Gone(call) \cup Moved(call))
      <3>1. Gone(call) \subseteq Gone(call')
        <4>1. \A d \in Calls : Deletes(call[d]) => Deletes(call'[d]) /\ call'[d].req = call[d].req
          BY <1>0, <2>1, OthersLike
        <4>. QED BY <4>1 DEF Gone
      <3>2. \A x \in Moved(call) : x = o.id \/ x \in Moved(call')
        <4>. SUFFICES ASSUME NEW x \in Moved(call) PROVE x = o.id \/ x \in Moved(call')
          OBVIOUS
        <4>1. PICK d \in Calls : Switches(call[d]) /\ x \in NamesOf(call[d].req.rows)
          BY DEF Moved
        <4>2. d = c => x = o.id
          BY <1>4, <4>1 DEF NamesOf
        <4>3. d # c => Switches(call'[d]) /\ call'[d].req = call[d].req
          BY <1>0, <4>1, OthersLike
        <4>. QED BY <4>1, <4>2, <4>3 DEF Moved
      <3>3. \A x \in Gone(call) \cup Moved(call) : x = o.id \/ x \in Gone(call') \cup Moved(call')
        BY <3>1, <3>2
      <3>. DEFINE rows == list.rows
                  of == list.of
                  gone == Gone(call)
                  moving == Gone(call) \cup Moved(call)
                  still == Gone(call') \cup Moved(call')
      <3>40. rows \in Seq(Row) /\ Tidy(db, rows, of, gone) /\ Current(db, rows, moving)
             /\ (\A x \in moving : x = o.id \/ x \in still)
             /\ \E j \in 1..Len(rows) : rows[j].id = o.id /\ rows[j].arr = o.arr
        BY <1>8, <1>9, <2>3, <3>3
      <3>. HIDE DEF rows, of, gone, moving, still
      <3>41. Tidy(db, Set(o, s, rows), of, gone) /\ Current(db, Set(o, s, rows), still)
        BY <1>4, <1>7, <3>40, SetTidy
      <3>4. Tidy(db, list'.rows, list.of, Gone(call)) /\ Current(db, list'.rows, Gone(call') \cup Moved(call'))
        BY <1>9, <3>41 DEF rows, of, gone, still
      <3>5. Tidy(db, list'.rows, list'.of, Gone(call'))
        BY <1>9, <3>1, <3>4 DEF Tidy
      <3>. QED BY <3>4, <3>5 DEF Settled
    <2>. QED BY <2>2, <2>3 DEF RowsParts, ListParts, Settled
  <1>. QED BY <1>6, <1>11, <1>13, <1>14 DEF ListParts

\* Rows whose ids are gone are left out.
LEMMA WithoutGone ==
    ASSUME NEW at, NEW rows \in Seq(Row), NEW of, NEW gone, Tidy(at, rows, of, gone), Current(at, rows, gone),
           NEW P \in SUBSET DOMAIN rows, \A p \in 1..Len(rows) : p \in P <=> rows[p].id \notin gone,
           \A x \in gone : at[x] = 0
    PROVE  At(rows, P) \in Seq(Row) /\ Exact(at, At(rows, P), of)
  <1>. DEFINE x == At(rows, P)
  <1>1. PICK n \in 0..Len(rows) : \E h \in [1..n -> P] :
              /\ \A j, k \in 1..n : j < k => h[j] < h[k]
              /\ \A p \in P : \E k \in 1..n : h[k] = p
              /\ x \in Seq(Row) /\ Len(x) = n
              /\ \A k \in 1..n : x[k] = rows[h[k]]
    BY AtIs
  <1>2. PICK h \in [1..n -> P] :
              /\ \A j, k \in 1..n : j < k => h[j] < h[k]
              /\ \A p \in P : \E k \in 1..n : h[k] = p
              /\ x \in Seq(Row) /\ Len(x) = n
              /\ \A k \in 1..n : x[k] = rows[h[k]]
    BY <1>1
  <1>. HIDE DEF x
  <1>3. P \subseteq 1..Len(rows) /\ Len(rows) \in Nat
    BY RowsAre
  <1>4. \A k \in 1..n : h[k] \in P /\ h[k] \in 1..Len(rows) /\ x[k].id = rows[h[k]].id /\ x[k].status = rows[h[k]].status
    BY <1>2, <1>3
  <1>5. \A k \in 1..n : x[k].id \notin gone
    BY <1>4
  <1>6. Tidy(at, x, of, {})
    <2>1. ASSUME NEW j \in 1..n, NEW k \in 1..n, j < k PROVE x[j].id > x[k].id
      <3>1. h[j] < h[k] /\ h[j] \in 1..Len(rows) /\ h[k] \in 1..Len(rows)
        BY <1>2, <1>4, <2>1
      <3>2. rows[h[j]].id > rows[h[k]].id
        BY <3>1 DEF Tidy
      <3>. QED BY <1>4, <3>2
    <2>2. \A k \in 1..n : x[k].id \in Found(at, of)
      <3>1. ASSUME NEW k \in 1..n PROVE x[k].id \in Found(at, of)
        <4>1. h[k] \in 1..Len(rows) /\ x[k].id = rows[h[k]].id
          BY <1>4
        <4>2. x[k].id \in Found(at, of) \/ x[k].id \in gone
          BY <4>1 DEF Tidy
        <4>. QED BY <1>5, <4>2
      <3>. QED BY <3>1
    <2>3. ASSUME NEW y \in Found(at, of), NEW k \in 1..n, y > x[k].id
          PROVE  \E j \in 1..n : x[j].id = y
      <3>1. h[k] \in 1..Len(rows) /\ y > rows[h[k]].id
        BY <1>4, <2>3
      <3>2. PICK p \in 1..Len(rows) : rows[p].id = y
        BY <3>1 DEF Tidy
      <3>3. y \notin gone
        BY DEF Found
      <3>4. PICK j \in 1..n : h[j] = p
        BY <1>2, <3>2, <3>3
      <3>. QED BY <1>4, <3>2, <3>4
    <2>. QED BY <1>2, <2>1, <2>2, <2>3 DEF Tidy
  <1>7. Current(at, x, {})
    <2>1. ASSUME NEW k \in 1..n PROVE x[k].status = at[x[k].id]
      <3>1. h[k] \in 1..Len(rows) /\ x[k].id = rows[h[k]].id /\ x[k].status = rows[h[k]].status
        BY <1>4
      <3>2. rows[h[k]].id \in gone \/ rows[h[k]].status = at[rows[h[k]].id]
        BY <3>1 DEF Current
      <3>. QED BY <1>5, <3>1, <3>2
    <2>. QED BY <1>2, <2>1 DEF Current
  <1>8. Exact(at, x, of)
    BY <1>2, <1>6, <1>7, TidyExact
  <1>. QED BY <1>2, <1>8 DEF x

LEMMA RowsRemove ==
    ASSUME TableTypes, Plainly, RowsParts, Fine', NEW c \in Calls, ShapeRemove(c)
    PROVE  CallParts(view, db, call', bounds.asked) /\ ListParts(view, db, call', list')
  <1>. DEFINE k == call[c]
              rows == list.rows
              gone == NamesOf(k.req.rows)
  <1>0. Handled(c)
    BY DEF Handled
  <1>1. PICK P \in SUBSET DOMAIN k.seen.rows :
        /\ End(c) /\ (k.answer # "ok" => "denied" \in history')
        /\ list' \in Lists /\ list'.rows = At(k.seen.rows, P) /\ list'.of = k.seen.of
        /\ \/ /\ k.req.op = "delete"
              /\ P = {p \in DOMAIN k.seen.rows : k.seen.rows[p].id # (CHOOSE r \in k.req.rows : TRUE).id}
           \/ /\ view = "tokens" /\ k.req.op = "drop"
              /\ P = {p \in DOMAIN k.seen.rows : ~Same(k.seen.rows[p], k.req.rows)}
              /\ (\E r \in k.req.rows : ~Same(r, ToSet(k.seen.rows))) => "stale" \in history'
    BY DEF ShapeRemove
  <1>2. k.pc = "answered" /\ On(k) /\ k \in Actives /\ Fits(view, k.req) /\ k.req \in Requests
    BY <1>0, AnswerOf
  <1>3. Yes(k) /\ ~Overtaken(view, k) /\ Changes(k.req) /\ view # "withdrawals" /\ "stale" \notin history'
    <2>1. "denied" \notin history' /\ "stale" \notin history'
      BY DEF Fine, Excuses
    <2>2. k.req.op = "delete" => view # "withdrawals"
      BY <1>2 DEF Fits, Ops
    <2>. QED BY <1>1, <1>2, <2>1, <2>2 DEF Yes, Overtaken, Changes
  <1>4. \A d \in Calls : On(call[d]) => d = c
    <2>1. ASSUME NEW d \in Calls, On(call[d]), d # c PROVE FALSE
      <3>1. Together(view, k, call[d])
        BY <1>2, <2>1 DEF RowsParts, CallParts, Paired
      <3>2. Apart(k.req, call[d].req)
        BY <1>3, <3>1 DEF Together
      <3>. QED BY <1>1, <3>2 DEF Apart
    <2>. QED BY <2>1
  <1>5. ~On(call'[c]) /\ \A d \in Calls \ {c} : call'[d] = call[d]
    BY <1>1, EndedIs
  <1>6. CallParts(view, db, call', bounds.asked)
    BY <1>0, <1>3, <1>5, RowsOver
  <1>7. \A d \in Calls : ~On(call'[d])
    BY <1>4, <1>5
  <1>8. Ahead(db, call') /\ Held(view, call', list')
    BY <1>7 DEF Ahead, Held
  <1>9. k.seen.rows = rows /\ k.seen.of = list.of
    BY <1>2, <1>3 DEF RowsParts, ListParts, Held
  <1>10. Tidy(db, rows, list.of, gone) /\ Current(db, rows, gone)
    <2>1. \A d \in Calls : ~Owes(view, call[d])
      <3>1. ~Owes(view, k)
        BY <1>1, <1>3 DEF Owes
      <3>2. \A d \in Calls : d # c => ~Owes(view, call[d])
        BY <1>4 DEF Owes, Yes, On
      <3>. QED BY <3>1, <3>2
    <2>2. Gone(call) \subseteq gone /\ Moved(call) \subseteq gone
      <3>1. \A d \in Calls : Deletes(call[d]) \/ Switches(call[d]) => d = c
        BY <1>4 DEF Deletes, Switches, Yes, On
      <3>. QED BY <3>1 DEF Gone, Moved
    <2>3. Tidy(db, rows, list.of, Gone(call)) /\ Current(db, rows, Gone(call) \cup Moved(call))
      BY <2>1 DEF RowsParts, ListParts, Settled
    <2>. QED BY <2>2, <2>3 DEF Tidy, Current
  <1>11. rows \in Seq(Row) /\ DOMAIN rows = 1..Len(rows) /\ Len(rows) \in Nat
    <2>1. rows \in Seq(Row)
      BY OnIs
    <2>. QED BY <2>1, LenProperties
  <1>12. \A p \in 1..Len(rows) : p \in P <=> rows[p].id \notin gone
    <2>1. CASE k.req.op = "delete"
      <3>1. PICK o \in Row : k.req.rows = {o}
        BY <1>2, <2>1 DEF Fits
      <3>2. gone = {o.id} /\ (CHOOSE r \in k.req.rows : TRUE) = o
        BY <3>1 DEF NamesOf
      <3>. QED BY <1>1, <1>9, <1>11, <2>1, <3>2
    <2>2. CASE view = "tokens" /\ k.req.op = "drop"
      <3>1. P = {p \in 1..Len(rows) : ~Same(rows[p], k.req.rows)} /\ \A r \in k.req.rows : Same(r, ToSet(rows))
        BY <1>1, <1>3, <1>9, <1>11, <2>2
      <3>2. ASSUME NEW p \in 1..Len(rows), rows[p].id \in gone PROVE Same(rows[p], k.req.rows)
        <4>1. PICK r \in k.req.rows : r.id = rows[p].id
          BY <3>2 DEF NamesOf
        <4>2. PICK q \in 1..Len(rows) : rows[q].id = r.id /\ rows[q].arr = r.arr
          BY <1>11, <3>1 DEF Same, ToSet
        <4>3. ~(p < q) /\ ~(q < p)
          <5>1. (p < q => rows[p].id > rows[q].id) /\ (q < p => rows[q].id > rows[p].id)
            BY <1>10 DEF Tidy
          <5>2. rows[p].id = rows[q].id /\ rows[p].id \in Nat
            BY <1>11, <4>1, <4>2, RowsAre
          <5>. QED BY <5>1, <5>2
        <4>4. p = q
          BY <1>11, <4>3
        <4>. QED BY <4>1, <4>2, <4>4 DEF Same
      <3>3. ASSUME NEW p \in 1..Len(rows), Same(rows[p], k.req.rows) PROVE rows[p].id \in gone
        BY <3>3 DEF Same, NamesOf
      <3>. QED BY <3>1, <3>2, <3>3
    <2>. QED BY <1>1, <2>1, <2>2
  <1>13. \A x \in gone : db[x] = 0
    <2>1. Right(view, db, k)
      BY <1>3 DEF RowsParts, CallParts, Truthful
    <2>. QED BY <1>1, <2>1 DEF Right, NamesOf
  <1>14. Exact(db, list'.rows, list'.of)
    <2>. DEFINE of == list.of
    <2>1. list'.rows = At(rows, P) /\ P \in SUBSET DOMAIN rows /\ list'.of = of
      BY <1>1, <1>9
    <2>2. Tidy(db, rows, of, gone) /\ Current(db, rows, gone) /\ \A x \in gone : db[x] = 0
      BY <1>10, <1>13
    <2>. HIDE DEF rows, gone, of
    <2>3. Exact(db, At(rows, P), of)
      BY <1>11, <1>12, <2>1, <2>2, WithoutGone
    <2>. QED BY <2>1, <2>3
  <1>15. Settled(view, db, call', list')
    BY <1>1, <1>14, ExactSettled
  <1>. QED BY <1>6, <1>8, <1>15 DEF ListParts

\* A change goes on with a load.
LEMMA CallsGoOn ==
    ASSUME NEW v, NEW at, NEW n, NEW f, NEW g, NEW c \in Calls, CallParts(v, at, f, n), On(f[c]), Changes(f[c].req),
           \A d \in Calls : On(f[d]) => f[d].no \in Nat /\ ~(f[d].no < f[c].no),
           g[c].pc = "sent", g[c].no = f[c].no, g[c].second, g[c].req.op = "load",
           \A d \in Calls \ {c} : g[d] = f[d],
           (\E d \in Calls \ {c} : On(f[d])) => v = "withdrawals" /\ g[c].req.page = 0
    PROVE  CallParts(v, at, g, n)
  <1>1. \A d \in Calls : d # c => g[d] = f[d]
    OBVIOUS
  <1>2. ASSUME NEW d \in Calls, d # c, On(f[d])
        PROVE  f[d].req.op = "switch" /\ g[c].no < f[d].no /\ v = "withdrawals" /\ g[c].req.page = 0
    <2>1. Together(v, f[c], f[d])
      BY <1>2 DEF CallParts, Paired
    <2>2. f[d].no # f[c].no /\ f[d].no \in Nat /\ f[c].no \in Nat /\ ~(f[d].no < f[c].no)
      BY <1>2, <2>1 DEF Together
    <2>3. f[c].no < f[d].no
      BY <2>2
    <2>4. Apart(f[c].req, f[d].req)
      BY <2>1, <2>2 DEF Together
    <2>. QED BY <1>2, <2>3, <2>4 DEF Apart
  <1>3. Numbered(g, n)
    BY <1>1 DEF CallParts, Numbered
  <1>4. Paired(v, g)
    <2>. SUFFICES ASSUME NEW d \in Calls, NEW e \in Calls, d # e, On(g[d]), On(g[e]) PROVE Together(v, g[d], g[e])
      BY DEF Paired
    <2>1. CASE d = c
      <3>1. ~Changes(g[d].req)
        BY <2>1 DEF Changes
      <3>2. ~Later(g[d].req)
        BY <1>1, <1>2, <2>1 DEF Later
      <3>. QED BY <3>1, <3>2 DEF Together
    <2>2. CASE e = c
      <3>1. g[d] = f[d] /\ f[d].req.op = "switch" /\ g[e].no < f[d].no /\ v = "withdrawals" /\ g[e].req.page = 0
        BY <1>1, <1>2, <2>2
      <3>2. g[e].no # g[d].no
        <4>1. f[d].no \in Nat /\ g[e].no \in Nat
          BY <1>1, <2>2
        <4>. QED BY <3>1, <4>1
      <3>. QED BY <2>2, <3>1, <3>2 DEF Together, Later
    <2>3. CASE d # c /\ e # c
      BY <1>1, <2>3 DEF CallParts, Paired
    <2>. QED BY <2>1, <2>2, <2>3
  <1>5. ASSUME NEW d \in Calls, Yes(g[d])
        PROVE  Right(v, at, g[d]) /\ Fetches(at, g[d])
    <2>1. d # c /\ g[d] = f[d] /\ Yes(f[d]) /\ On(f[d])
      BY <1>1, <1>5 DEF Yes, On
    <2>2. f[d].req.op = "switch"
      BY <1>2, <2>1
    <2>3. Fetches(at, f[d])
      BY <2>2 DEF Fetches
    <2>4. Right(v, at, f[d])
      BY <2>1 DEF CallParts, Truthful
    <2>. QED BY <2>1, <2>3, <2>4
  <1>6. Seconds(g)
    <2>1. ASSUME NEW d \in Calls, On(g[d]), g[d].second
          PROVE  g[d].req.op = "load" /\ (g[d].pc = "answered" => g[d].answer = "ok")
      <3>1. CASE d = c
        BY <3>1
      <3>2. CASE d # c
        BY <1>1, <2>1, <3>2 DEF CallParts, Seconds
      <3>. QED BY <3>1, <3>2
    <2>. QED BY <2>1 DEF Seconds
  <1>. QED BY <1>3, <1>4, <1>5, <1>6 DEF CallParts, Truthful

LEMMA RowsGoOn ==
    ASSUME TableTypes, Plainly, RowsParts, Fine', NEW c \in Calls, ShapeGoOn(c)
    PROVE  CallParts(view, db, call', bounds.asked) /\ ListParts(view, db, call', list')
  <1>. DEFINE k == call[c]
  <1>0. Handled(c)
    BY DEF Handled
  <1>1. PICK q \in Requests :
        /\ GoOn(c, q) /\ list' = list /\ q.op = "load"
        /\ q.page = 0 \/ q.page = k.pager.page - 1
        /\ \/ k.req.op \in {"drop", "purge"}
           \/ k.answer = "ok" /\ \/ view = "channels" /\ k.req.op = "copy"
                                 \/ view = "mine" /\ k.req.op = "delete" /\ q.page = 0
                                 \/ view = "withdrawals" /\ k.req.op = "switch" /\ q.page = 0
                                 \/ /\ view = "tokens" /\ k.req.op = "switch" /\ k.req.to = 0
                                    /\ (\E d \in Calls \ {c} : ~Idle(d)) => "clash" \in history'
        /\ k.req.op = "drop" => view # "tokens" /\ (view = "mine" => q.page = 0)
        /\ k.req.op = "purge" => view = "topups" /\ q.page = 0
    BY DEF ShapeGoOn
  <1>2. /\ k.pc = "answered" /\ On(k) /\ k \in Actives /\ k.pager \in Pagers
        /\ \A d \in Calls : On(call[d]) => call[d].no \in Nat /\ ~(call[d].no < k.no)
    <2>1. k.pc = "answered" /\ On(k) /\ k \in Actives /\ \A d \in Calls : On(call[d]) => ~(call[d].no < k.no)
      BY <1>0, AnswerOf
    <2>. QED BY <2>1, OnIs DEF Actives
  <1>3. /\ call'[c].pc = "sent" /\ call'[c].req = q /\ call'[c].second /\ call'[c].seen = k.seen /\ call'[c].no = k.no
        /\ \A d \in Calls \ {c} : call'[d] = call[d]
    <2>1. call' = [call EXCEPT ![c] = [k EXCEPT !.pc = "sent", !.req = q, !.second = TRUE]]
      BY <1>1 DEF GoOn
    <2>2. call'[c] = [k EXCEPT !.pc = "sent", !.req = q, !.second = TRUE] /\ \A d \in Calls \ {c} : call'[d] = call[d]
      BY <2>1 DEF TableTypes
    <2>. QED BY <1>2, <2>2 DEF Actives
  <1>4. Changes(k.req) /\ view # "mine" /\ "clash" \notin history'
    BY <1>1 DEF Changes, Plainly, Fine, Excuses
  <1>5. ASSUME NEW d \in Calls \ {c}, On(call[d])
        PROVE  view = "withdrawals" /\ q.page = 0
    <2>1. Together(view, k, call[d]) /\ ~(call[d].no < k.no) /\ ~Idle(d)
      BY <1>2, <1>5, OnIs DEF RowsParts, CallParts, Paired
    <2>2. Apart(k.req, call[d].req)
      BY <1>4, <2>1 DEF Together
    <2>3. k.req.op = "switch"
      BY <2>2 DEF Apart
    <2>. QED BY <1>1, <1>4, <2>1, <2>3
  <1>6. CallParts(view, db, call', bounds.asked)
    <2>. DEFINE g == call'
                n == bounds.asked
    <2>1. /\ g[c].pc = "sent" /\ g[c].no = k.no /\ g[c].second /\ g[c].req.op = "load"
          /\ \A d \in Calls \ {c} : g[d] = call[d]
          /\ (\E d \in Calls \ {c} : On(call[d])) => view = "withdrawals" /\ g[c].req.page = 0
      BY <1>1, <1>3, <1>5
    <2>2. CallParts(view, db, call, n)
      BY DEF RowsParts
    <2>. HIDE DEF g, n
    <2>3. CallParts(view, db, g, n)
      BY <1>2, <1>4, <2>1, <2>2, CallsGoOn
    <2>. QED BY <2>3 DEF g, n
  <1>7. ASSUME q.page # 0
        PROVE  Exact(db, list.rows, list.of) /\ k.seen.rows = list.rows /\ k.seen.of = list.of
    <2>1. \A d \in Calls \ {c} : ~On(call[d])
      BY <1>5, <1>7
    <2>2. k.pager.page # 1
      <3>1. k.pager.page = 1 => k.pager.page - 1 = 0
        OBVIOUS
      <3>. QED BY <1>1, <1>7, <3>1
    <2>3. Yes(k) => Right(view, db, k)
      BY DEF RowsParts, CallParts, Truthful
    <2>4. ~(Yes(k) /\ k.req.op \in {"drop", "copy"}) /\ view # "withdrawals" /\ k.req.op # "purge"
      <3>1. k.req.op = "drop" => view # "tokens"
        BY <1>1
      <3>2. ~(Yes(k) /\ k.req.op \in {"drop", "copy"}) /\ k.req.op # "purge"
        BY <1>1, <1>7, <2>2, <2>3, <3>1 DEF Right
      <3>3. view # "withdrawals"
        <4>1. Fits(view, k.req)
          BY <1>0, AnswerOf
        <4>2. view = "withdrawals" => k.req.op = "switch"
          BY <1>4, <4>1 DEF Fits, Ops, Changes
        <4>. QED BY <1>1, <1>7, <4>2
      <3>. QED BY <3>2, <3>3
    <2>5. ~Owes(view, k) /\ ~Deletes(k) /\ ~Switches(k)
      <3>1. ~Switches(k)
        BY <1>1, <1>4, <1>7, <2>4 DEF Switches
      <3>2. ~Deletes(k)
        BY <1>1, <1>4, <2>4 DEF Deletes
      <3>3. ~Owes(view, k)
        BY <1>4, <2>4 DEF Owes, Changes
      <3>. QED BY <3>1, <3>2, <3>3
    <2>6. \A d \in Calls : ~Owes(view, call[d]) /\ ~Deletes(call[d]) /\ ~Switches(call[d])
      BY <2>1, <2>5 DEF Owes, Deletes, Switches, Yes, On
    <2>7. Settled(view, db, call, list) /\ list \in Lists
      BY OnIs DEF RowsParts, ListParts
    <2>8. Exact(db, list.rows, list.of)
      BY <2>6, <2>7, SettledExact
    <2>9. k.seen.rows = list.rows /\ k.seen.of = list.of
      BY <1>2, <1>4, <2>4 DEF RowsParts, ListParts, Held
    <2>. QED BY <2>8, <2>9
  <1>8. Ahead(db, call')
    <2>1. Ahead(db, call)
      BY DEF RowsParts, ListParts
    <2>2. ASSUME NEW d \in Calls, On(call'[d]), Later(call'[d].req)
          PROVE  Exact(db, call'[d].seen.rows, call'[d].seen.of)
      <3>1. CASE d = c
        <4>1. q.page # 0
          BY <1>3, <2>2, <3>1 DEF Later
        <4>. QED BY <1>3, <1>7, <3>1, <4>1
      <3>2. CASE d # c
        BY <1>3, <2>1, <2>2, <3>2 DEF Ahead
      <3>. QED BY <3>1, <3>2
    <2>. QED BY <2>2 DEF Ahead
  <1>9. Held(view, call', list)
    <2>1. ASSUME view # "withdrawals", NEW d \in Calls, On(call'[d]), Changes(call'[d].req) PROVE FALSE
      <3>1. d # c
        BY <1>1, <1>3, <2>1 DEF Changes
      <3>2. d \in Calls \ {c} /\ On(call[d])
        BY <1>3, <2>1, <3>1
      <3>. QED BY <1>5, <2>1, <3>2
    <2>. QED BY <2>1 DEF Held
  <1>10. Settled(view, db, call', list)
    <2>1. CASE q.page = 0
      <3>1. Owes(view, call'[c])
        BY <1>1, <1>3, <2>1 DEF Owes, On
      <3>. QED BY <3>1 DEF Settled
    <2>2. CASE q.page # 0
      BY <1>7, <2>2, OnIs, ExactSettled
    <2>. QED BY <2>1, <2>2
  <1>. QED BY <1>1, <1>6, <1>8, <1>9, <1>10 DEF ListParts

LEMMA RowsHandled ==
    ASSUME TableTypes, RowsInv, Around, NEW c \in Calls, Handled(c)
    PROVE  RowsInv'
  <1>. SUFFICES ASSUME Plainly', Fine'
                PROVE  /\ CallParts(view', db', call', bounds'.asked) /\ ListParts(view', db', call', list')
                       /\ knob' = [i \in Ids |-> 0]
    BY DEF RowsInv
  <1>1. db' = db /\ bounds' = bounds /\ history \subseteq history'
    BY AnswerOf
  <1>2. view' = view /\ Plainly /\ RowsParts /\ knob = [i \in Ids |-> 0]
    BY <1>1 DEF Around, Plainly, Fine, RowsInv, RowsParts
  <1>3. ~ShapeLog(c) /\ view # "mine"
    BY <1>2 DEF ShapeLog, Plainly
  <1>4. knob' = knob
    BY <1>3 DEF Handled, ShapeEnd, ShapeGoOn, ShapeReplace, ShapeSplice, ShapeSet, ShapeRemove, ShapeBad
  <1>5. CallParts(view, db, call', bounds.asked) /\ ListParts(view, db, call', list')
    BY <1>2, <1>3, RowsEnd, RowsGoOn, RowsReplace, RowsSplice, RowsSet, RowsRemove, RowsBad DEF Handled
  <1>. QED BY <1>1, <1>2, <1>4, <1>5

-----------------------------------------------------------------------------
(* The server answers                                                      *)

Answers(f, g, c) ==
    /\ f[c].pc = "sent" /\ g[c].pc = "answered" /\ g[c].req = f[c].req /\ g[c].no = f[c].no
    /\ g[c].seen = f[c].seen /\ g[c].pager = f[c].pager /\ g[c].second = f[c].second
    /\ \A d \in Calls \ {c} : g[d] = f[d]

LEMMA AnswersIs ==
    ASSUME NEW f, NEW g, NEW c \in Calls, Answers(f, g, c)
    PROVE  /\ On(f[c]) /\ ~Yes(f[c]) /\ On(g[c]) /\ g[c].req = f[c].req
           /\ \A d \in Calls : d # c => g[d] = f[d]
           /\ \A d \in Calls : (On(g[d]) <=> On(f[d])) /\ g[d].req = f[d].req /\ g[d].no = f[d].no /\ g[d].seen = f[d].seen
  <1>1. On(f[c]) /\ ~Yes(f[c]) /\ On(g[c])
    BY DEF Answers, On, Yes
  <1>2. \A d \in Calls : d # c => g[d] = f[d]
    BY DEF Answers
  <1>3. g[c].req = f[c].req /\ g[c].no = f[c].no /\ g[c].seen = f[c].seen
    BY DEF Answers
  <1>. QED BY <1>1, <1>2, <1>3

LEMMA CallsAnswered ==
    ASSUME NEW v, NEW at, NEW to, NEW n, NEW f, NEW g, NEW c \in Calls, CallParts(v, at, f, n), Answers(f, g, c),
           ~f[c].second \/ g[c].answer = "ok",
           Yes(g[c]) => Right(v, to, g[c]) /\ Fetches(to, g[c]),
           \/ to = at
           \/ \A d \in Calls : d # c /\ Yes(f[d]) =>
              (Right(v, at, f[d]) => Right(v, to, f[d])) /\ (Fetches(at, f[d]) => Fetches(to, f[d]) \/ Overtaken(v, g[c]))
    PROVE  CallParts(v, to, g, n)
  <1>0. \A d \in Calls : d # c /\ Yes(f[d]) =>
              (Right(v, at, f[d]) => Right(v, to, f[d])) /\ (Fetches(at, f[d]) => Fetches(to, f[d]) \/ Overtaken(v, g[c]))
    OBVIOUS
  <1>1. /\ On(f[c]) /\ ~Yes(f[c]) /\ \A d \in Calls : d # c => g[d] = f[d]
        /\ \A d \in Calls : (On(g[d]) <=> On(f[d])) /\ g[d].req = f[d].req /\ g[d].no = f[d].no
    BY AnswersIs
  <1>2. Numbered(g, n)
    BY <1>1 DEF CallParts, Numbered
  <1>3. Paired(v, g)
    <2>1. ASSUME NEW d \in Calls, NEW e \in Calls, d # e, On(g[d]), On(g[e]) PROVE Together(v, g[d], g[e])
      <3>1. Together(v, f[d], f[e])
        BY <1>1, <2>1 DEF CallParts, Paired
      <3>. QED BY <1>1, <3>1 DEF Together
    <2>. QED BY <2>1 DEF Paired
  <1>4. ASSUME NEW d \in Calls, Yes(g[d])
        PROVE  Right(v, to, g[d]) /\ (Fetches(to, g[d]) \/ \E e \in Calls : Overtaken(v, g[e]))
    <2>1. CASE d = c
      BY <1>4, <2>1
    <2>2. CASE d # c
      <3>1. g[d] = f[d] /\ Yes(f[d])
        BY <1>1, <1>4, <2>2
      <3>2. Right(v, at, f[d]) /\ (Fetches(at, f[d]) \/ \E e \in Calls : Overtaken(v, f[e]))
        BY <3>1 DEF CallParts, Truthful
      <3>3. ASSUME NEW e \in Calls, Overtaken(v, f[e]) PROVE Overtaken(v, g[e])
        <4>1. e # c
          BY <1>1, <3>3 DEF Overtaken
        <4>. QED BY <1>1, <3>3, <4>1
      <3>. QED BY <1>0, <2>2, <3>1, <3>2, <3>3
    <2>. QED BY <2>1, <2>2
  <1>5. Seconds(g)
    <2>1. ASSUME NEW d \in Calls, On(g[d]), g[d].second
          PROVE  g[d].req.op = "load" /\ (g[d].pc = "answered" => g[d].answer = "ok")
      <3>1. CASE d = c
        BY <1>1, <2>1, <3>1 DEF CallParts, Seconds, Answers
      <3>2. CASE d # c
        BY <1>1, <2>1, <3>2 DEF CallParts, Seconds
      <3>. QED BY <3>1, <3>2
    <2>. QED BY <2>1 DEF Seconds
  <1>. QED BY <1>2, <1>3, <1>4, <1>5 DEF CallParts, Truthful

LEMMA ListAnswered ==
    ASSUME NEW v, NEW at, NEW to, NEW f, NEW g, NEW l, NEW c \in Calls, ListParts(v, at, f, l), Answers(f, g, c),
           at = to \/ \A d \in Calls : On(f[d]) => ~Later(f[d].req),
           Settled(v, to, g, l)
    PROVE  ListParts(v, to, g, l)
  <1>1. \A d \in Calls : (On(g[d]) <=> On(f[d])) /\ g[d].req = f[d].req /\ g[d].seen = f[d].seen
    BY AnswersIs
  <1>2. Ahead(to, g)
    BY <1>1 DEF ListParts, Ahead
  <1>3. Held(v, g, l)
    BY <1>1 DEF ListParts, Held
  <1>. QED BY <1>2, <1>3 DEF ListParts

\* What is owed, and to be followed, stays so.
LEMMA AnswersMore ==
    ASSUME NEW v, NEW f, NEW g, NEW c \in Calls, Answers(f, g, c)
    PROVE  /\ \A d \in Calls : Owes(v, f[d]) => Owes(v, g[d])
           /\ \A d \in Calls : Deletes(f[d]) => Deletes(g[d]) /\ g[d].req = f[d].req
           /\ \A d \in Calls : Switches(f[d]) => Switches(g[d]) /\ g[d].req = f[d].req
  <1>1. /\ On(f[c]) /\ ~Yes(f[c]) /\ On(g[c]) /\ g[c].req = f[c].req /\ g[c].second = f[c].second
        /\ \A d \in Calls : d # c => g[d] = f[d]
    BY AnswersIs DEF Answers
  <1>2. Owes(v, f[c]) => Owes(v, g[c])
    BY <1>1 DEF Owes
  <1>3. ~Deletes(f[c]) /\ ~Switches(f[c])
    BY <1>1 DEF Deletes, Switches
  <1>. QED BY <1>1, <1>2, <1>3

\* The server changed nothing.
LEMMA SameAnswered ==
    ASSUME NEW v, NEW at, NEW n, NEW f, NEW g, NEW l, NEW c \in Calls, CallParts(v, at, f, n), ListParts(v, at, f, l),
           Answers(f, g, c), ~f[c].second \/ g[c].answer = "ok",
           Yes(g[c]) => g[c].req.op \in Reads /\ Fetches(at, g[c])
    PROVE  CallParts(v, at, g, n) /\ ListParts(v, at, g, l)
  <1>1. Yes(g[c]) => Right(v, at, g[c]) /\ Fetches(at, g[c])
    BY DEF Right, Reads
  <1>2. CallParts(v, at, g, n)
    BY <1>1, CallsAnswered
  <1>3. Settled(v, at, g, l)
    <2>1. /\ \A d \in Calls : Owes(v, f[d]) => Owes(v, g[d])
          /\ \A d \in Calls : Deletes(f[d]) => Deletes(g[d]) /\ g[d].req = f[d].req
          /\ \A d \in Calls : Switches(f[d]) => Switches(g[d]) /\ g[d].req = f[d].req
      BY AnswersMore
    <2>2. Settled(v, at, f, l)
      BY DEF ListParts
    <2>. QED BY <2>1, <2>2, SettledMore
  <1>. QED BY <1>2, <1>3, ListAnswered

\* A request that stands alone was carried out, and is followed by a load.
LEMMA LoneAnswered ==
    ASSUME NEW v, NEW at, NEW to, NEW n, NEW f, NEW g, NEW l, NEW c \in Calls,
           CallParts(v, at, f, n), ListParts(v, at, f, l), Answers(f, g, c), g[c].answer = "ok",
           Changes(f[c].req), \A d \in Calls : d # c => ~On(f[d]),
           Right(v, to, g[c]), Settled(v, to, g, l)
    PROVE  CallParts(v, to, g, n) /\ ListParts(v, to, g, l)
  <1>1. g[c].req = f[c].req /\ \A d \in Calls : d # c => ~Yes(f[d])
    BY DEF Answers, Yes, On
  <1>2. Fetches(to, g[c])
    BY <1>1 DEF Fetches, Changes
  <1>3. CallParts(v, to, g, n)
    BY <1>1, <1>2, CallsAnswered
  <1>4. \A d \in Calls : On(f[d]) => ~Later(f[d].req)
    <2>1. ~Later(f[c].req)
      BY DEF Later, Changes
    <2>. QED BY <2>1
  <1>. QED BY <1>3, <1>4, ListAnswered

LEMMA DeleteAnswered ==
    ASSUME NEW v, NEW at, NEW to, NEW f, NEW g, NEW l \in Lists, NEW c \in Calls,
           ListParts(v, at, f, l), Answers(f, g, c), g[c].answer = "ok",
           f[c].req.op \in {"delete", "drop"}, \A d \in Calls : d # c => ~On(f[d]),
           NEW S, S = NamesOf(f[c].req.rows), to = [i \in Ids |-> IF i \in S THEN 0 ELSE at[i]]
    PROVE  Settled(v, to, g, l)
  <1>1. /\ On(f[c]) /\ ~Yes(f[c]) /\ g[c].req = f[c].req /\ g[c].pc = "answered"
        /\ \A d \in Calls : Owes(v, f[d]) => Owes(v, g[d])
    BY AnswersIs, AnswersMore DEF Answers
  <1>2. Deletes(g[c])
    BY <1>1 DEF Deletes, Yes
  <1>3. \A i \in Ids : i \in S => i \in Gone(g)
    BY <1>1, <1>2 DEF Gone
  <1>4. CASE \E d \in Calls : Owes(v, f[d])
    BY <1>1, <1>4 DEF Settled
  <1>5. CASE \A d \in Calls : ~Owes(v, f[d])
    <2>. DEFINE rows == l.rows
                of == l.of
    <2>1. \A d \in Calls : ~Owes(v, f[d]) /\ ~Deletes(f[d]) /\ ~Switches(f[d])
      BY <1>1, <1>5 DEF Deletes, Switches, Yes, On
    <2>2. Exact(at, rows, of)
      BY <2>1, SettledExact DEF ListParts
    <2>3. rows \in Seq(Row)
      BY DEF Lists
    <2>4. Tidy(at, rows, of, {}) /\ Current(at, rows, {})
      BY <2>2, <2>3, ExactTidy
    <2>5. \A j \in 1..Len(rows) : rows[j].id \in Ids
      BY <2>3, RowsAre
    <2>6. Found(to, of) \subseteq Found(at, of) /\ \A i \in Found(at, of) : i \in S \/ i \in Found(to, of)
      BY DEF Found
    <2>. HIDE DEF rows, of
    <2>7. Tidy(to, rows, of, Gone(g))
      <3>1. \A j \in 1..Len(rows) : rows[j].id \in Found(to, of) \/ rows[j].id \in Gone(g)
        BY <1>3, <2>4, <2>5, <2>6 DEF Tidy
      <3>. QED BY <2>4, <2>6, <3>1 DEF Tidy
    <2>8. Current(to, rows, Gone(g) \cup Moved(g))
      <3>1. \A i \in Ids : i \in S \/ to[i] = at[i]
        OBVIOUS
      <3>. QED BY <1>3, <2>4, <2>5, <3>1 DEF Current
    <2>. QED BY <2>7, <2>8 DEF Settled, rows, of
  <1>. QED BY <1>4, <1>5

\* A status was set at the server.
Switching(v, at, to, f, g, c, o) ==
    /\ f[c].req.op = "switch" /\ f[c].req.rows = {o} /\ at[o.id] # 0 /\ at \in [Ids -> 0..3]
    /\ to = [i \in Ids |-> IF i = o.id /\ f[c].req.to # 0 THEN f[c].req.to ELSE at[i]]
    /\ v \in {"users", "redemptions"} => g[c].data[1].status = to[o.id]
    /\ \A d \in Calls : On(f[d]) => f[d].req.rows \in SUBSET Row

LEMMA SwitchAnswered ==
    ASSUME NEW v, NEW at, NEW to, NEW n, NEW f, NEW g, NEW l \in Lists, NEW c \in Calls,
           CallParts(v, at, f, n), ListParts(v, at, f, l), Answers(f, g, c), g[c].answer = "ok",
           NEW o \in Row, Switching(v, at, to, f, g, c, o)
    PROVE  CallParts(v, to, g, n) /\ ListParts(v, to, g, l)
  <1>. DEFINE t == f[c].req.to
  <1>0. /\ f[c].req.op = "switch" /\ f[c].req.rows = {o} /\ at[o.id] # 0 /\ at \in [Ids -> 0..3]
        /\ t = f[c].req.to /\ to = [i \in Ids |-> IF i = o.id /\ t # 0 THEN t ELSE at[i]]
        /\ v \in {"users", "redemptions"} => g[c].data[1].status = to[o.id]
        /\ \A d \in Calls : On(f[d]) => f[d].req.rows \in SUBSET Row
    BY DEF Switching
  <1>. HIDE DEF t
  <1>1. /\ On(f[c]) /\ ~Yes(f[c]) /\ g[c].req = f[c].req /\ g[c].pc = "answered" /\ ~f[c].second
        /\ \A d \in Calls : d # c => g[d] = f[d]
    BY <1>0, AnswersIs DEF Answers, CallParts, Seconds
  <1>2. Yes(g[c])
    BY <1>1 DEF Yes
  <1>3. o.id \in Ids /\ NamesOf(f[c].req.rows) = {o.id}
    BY <1>0 DEF Row, NamesOf
  <1>4. \A i \in Ids : /\ i = o.id /\ t # 0 => to[i] = t
                       /\ ~(i = o.id /\ t # 0) => to[i] = at[i]
    BY <1>0
  <1>5. ASSUME NEW d \in Calls, d # c, On(f[d])
        PROVE  \/ f[d].req.op = "switch" /\ \A r \in f[d].req.rows : to[r.id] = at[r.id]
               \/ v = "withdrawals" /\ f[d].req.op = "load" /\ f[d].req.page = 0
    <2>1. Together(v, f[c], f[d])
      BY <1>1, <1>5 DEF CallParts, Paired
    <2>2. Changes(f[c].req)
      BY <1>0 DEF Changes
    <2>3. CASE Apart(f[c].req, f[d].req)
      <3>1. f[d].req.op = "switch" /\ o.id \notin NamesOf(f[d].req.rows)
        BY <1>3, <2>3 DEF Apart
      <3>2. \A r \in f[d].req.rows : r.id # o.id /\ r.id \in Ids
        BY <1>0, <1>5, <3>1 DEF NamesOf, Row
      <3>. QED BY <1>4, <3>1, <3>2
    <2>. QED BY <2>1, <2>2, <2>3 DEF Together
  <1>6. CallParts(v, to, g, n)
    <2>1. Right(v, to, g[c]) /\ Fetches(to, g[c])
      BY <1>0, <1>1, <1>3, <1>4 DEF Right, Fetches
    <2>2. ASSUME NEW d \in Calls, d # c, Yes(f[d]), Right(v, at, f[d]) PROVE Right(v, to, f[d])
      <3>1. On(f[d])
        BY <2>2 DEF Yes, On
      <3>2. CASE f[d].req.op = "switch" /\ \A r \in f[d].req.rows : to[r.id] = at[r.id]
        BY <2>2, <3>2 DEF Right
      <3>3. CASE v = "withdrawals" /\ f[d].req.op = "load"
        BY <3>3 DEF Right
      <3>. QED BY <1>5, <2>2, <3>1, <3>2, <3>3
    <2>3. ASSUME NEW d \in Calls, d # c, Yes(f[d]) PROVE Fetches(to, f[d]) \/ Overtaken(v, g[c])
      <3>1. On(f[d])
        BY <2>3 DEF Yes, On
      <3>2. f[d].req.op = "switch" => Fetches(to, f[d])
        BY DEF Fetches
      <3>3. v = "withdrawals" => Overtaken(v, g[c])
        BY <1>0, <1>1, <1>2 DEF Overtaken
      <3>. QED BY <1>5, <2>3, <3>1, <3>2, <3>3
    <2>. QED BY <1>1, <2>1, <2>2, <2>3, CallsAnswered
  <1>7. \A d \in Calls : On(f[d]) => ~Later(f[d].req)
    <2>1. \A d \in Calls : d # c /\ On(f[d]) => ~Later(f[d].req)
      BY <1>5 DEF Later
    <2>. QED BY <1>0, <2>1 DEF Later
  <1>8. Settled(v, to, g, l)
    <2>0. /\ \A d \in Calls : Owes(v, f[d]) => Owes(v, g[d])
          /\ \A d \in Calls : Deletes(f[d]) => Deletes(g[d]) /\ g[d].req = f[d].req
          /\ \A d \in Calls : Switches(f[d]) => Switches(g[d]) /\ g[d].req = f[d].req
      BY AnswersMore
    <2>1. CASE \E d \in Calls : Owes(v, f[d])
      BY <2>0, <2>1 DEF Settled
    <2>2. CASE Tidy(at, l.rows, l.of, Gone(f)) /\ Current(at, l.rows, Gone(f) \cup Moved(f))
      <3>. DEFINE rows == l.rows
                  of == l.of
      <3>1. Gone(f) \subseteq Gone(g) /\ Moved(f) \subseteq Moved(g)
        BY <2>0, GoneGrows
      <3>2. t # 0 => o.id \in Moved(g)
        <4>1. t # 0 => Switches(g[c])
          BY <1>0, <1>1, <1>2 DEF Switches
        <4>. QED BY <1>1, <1>3, <4>1 DEF Moved
      <3>3. Found(to, of) = Found(at, of)
        BY <1>0, <1>4 DEF Found
      <3>4. rows \in Seq(Row) /\ \A j \in 1..Len(rows) : rows[j].id \in Ids
        <4>1. rows \in Seq(Row)
          BY DEF Lists
        <4>. QED BY <4>1, RowsAre
      <3>. HIDE DEF rows, of
      <3>5. Tidy(to, rows, of, Gone(g))
        <4>1. Tidy(at, rows, of, Gone(f))
          BY <2>2 DEF rows, of
        <4>. QED BY <3>1, <3>3, <4>1 DEF Tidy
      <3>6. Current(to, rows, Gone(g) \cup Moved(g))
        <4>1. Current(at, rows, Gone(f) \cup Moved(f))
          BY <2>2 DEF rows
        <4>2. ASSUME NEW j \in 1..Len(rows)
              PROVE  rows[j].id \in Gone(g) \cup Moved(g) \/ rows[j].status = to[rows[j].id]
          <5>1. rows[j].id \in Gone(f) \cup Moved(f) \/ rows[j].status = at[rows[j].id]
            BY <4>1 DEF Current
          <5>2. CASE rows[j].id = o.id /\ t # 0
            BY <3>2, <5>2
          <5>3. CASE ~(rows[j].id = o.id /\ t # 0)
            BY <1>4, <3>1, <3>4, <5>1, <5>3
          <5>. QED BY <5>2, <5>3
        <4>. QED BY <4>2 DEF Current
      <3>. QED BY <3>5, <3>6 DEF Settled, rows, of
    <2>. QED BY <2>1, <2>2 DEF ListParts, Settled
  <1>. QED BY <1>6, <1>7, <1>8, ListAnswered

\* What the browser is told of a request the server has served.
LEMMA ServedTold ==
    ASSUME TableTypes, NEW c \in Calls, NEW k \in Goods(view), k = call[c], NEW a \in Seq(Ids), NEW ok \in BOOLEAN,
           Served(c, a, ok)
    PROVE  /\ call'[c].pc = "answered" /\ call'[c].answer = (IF ok THEN "ok" ELSE "refused")
           /\ call'[c].req = k.req /\ call'[c].no = k.no /\ call'[c].seen = k.seen /\ call'[c].second = k.second
           /\ call'[c].pager = k.pager /\ Len(call'[c].data) = Len(a)
           /\ \A j \in 1..Len(a) : call'[c].data[j].id = a[j] /\ call'[c].data[j].status = db'[a[j]]
           /\ \A d \in Calls \ {c} : call'[d] = call[d]
  <1>1. call' = [call EXCEPT ![c] = Told(k, a, ok)]
    BY DEF Served
  <1>2. call'[c] = Told(k, a, ok) /\ \A d \in Calls \ {c} : call'[d] = call[d]
    BY <1>1 DEF TableTypes
  <1>3. /\ \A j \in 1..Len(a) : db'[a[j]] \in 1..3
        /\ k.req.op = "switch" /\ ok => a # <<>>
    BY DEF Served
  <1>. DEFINE o == Told(k, a, ok)
  <1>4. /\ o.pc = "answered" /\ o.answer = (IF ok THEN "ok" ELSE "refused")
        /\ o.req = k.req /\ o.no = k.no /\ o.seen = k.seen /\ o.second = k.second /\ o.pager = k.pager
        /\ Len(o.data) = Len(a)
        /\ \A j \in 1..Len(a) : o.data[j].id = a[j] /\ o.data[j].status = db'[a[j]]
    BY <1>3, ToldIs
  <1>5. call'[c] = o
    BY <1>2
  <1>. HIDE DEF o
  <1>. QED BY <1>2, <1>4, <1>5

LEMMA RowsServe ==
    ASSUME TableTypes, RowsInv, NEW c \in Calls, Serve(c)
    PROVE  RowsInv'
  <1>. SUFFICES ASSUME Plainly', Fine'
                PROVE  /\ CallParts(view', db', call', bounds'.asked) /\ ListParts(view', db', call', list')
                       /\ knob' = [i \in Ids |-> 0]
    BY DEF RowsInv
  <1>. DEFINE k == call[c]
              g == call'
              n == bounds.asked
              S == NamesOf(k.req.rows)
              there == {i \in S : Accepted(i, k.req.to)}
  <1>1. /\ k.pc = "sent" /\ k \in Goods(view) /\ UNCHANGED <<view, list, pager, search, spin, picked, knob, bounds>>
        /\ S \subseteq Ids /\ db' \in [Ids -> 0..3] /\ history \subseteq history'
        /\ \E a \in Seq(Ids), ok \in BOOLEAN : Served(c, a, ok)
    BY ServeIs
  <1>2. PICK a \in Seq(Ids), ok \in BOOLEAN : Served(c, a, ok)
    BY <1>1
  <1>3. /\ \A j \in 1..Len(a) : db'[a[j]] \in 1..3
        /\ k.req.op = "switch" /\ ok => a # <<>>
        /\ call' = [call EXCEPT ![c] = Told(k, a, ok)]
        /\ \/ /\ k.req.op = "load" /\ db' = db /\ ok /\ a = Lines(k.req.query, k.req.page * k.req.size, k.req.size)
           \/ /\ k.req.op = "totals" /\ db' = db /\ ok
           \/ /\ k.req.op = "search" /\ db' = db /\ ok /\ a = InOrder(Finds(k.req.query))
           \/ /\ k.req.op = "switch" /\ ok = (there # {}) /\ a = InOrder(there)
              /\ db' = [i \in Ids |-> IF i \in there /\ k.req.to # 0 THEN k.req.to ELSE db[i]]
           \/ /\ k.req.op \in {"delete", "drop"} /\ (ok \/ there = {})
              /\ db' = [i \in Ids |-> IF i \in S THEN 0 ELSE db[i]]
              /\ k.req.op = "drop" /\ k.pager.page > 1 => "shifted" \in history'
           \/ /\ k.req.op = "copy" /\ ok
              /\ k.pager.page > 1 => "shifted" \in history'
           \/ /\ k.req.op = "purge" /\ ok
              /\ view = "channels" => "shifted" \in history'
    BY <1>2 DEF Served
  <1>4. /\ g[c].pc = "answered" /\ g[c].answer = (IF ok THEN "ok" ELSE "refused")
        /\ g[c].req = k.req /\ g[c].no = k.no /\ g[c].seen = k.seen /\ g[c].second = k.second /\ g[c].pager = k.pager
        /\ Len(g[c].data) = Len(a)
        /\ \A j \in 1..Len(a) : g[c].data[j].id = a[j] /\ g[c].data[j].status = db'[a[j]]
        /\ \A d \in Calls \ {c} : g[d] = call[d]
    BY <1>1, <1>2, ServedTold
  <1>5. /\ view' = view /\ Plainly /\ knob = [i \in Ids |-> 0] /\ "shifted" \notin history'
        /\ CallParts(view, db, call, n) /\ ListParts(view, db, call, list)
    BY <1>1 DEF Plainly, Fine, Excuses, RowsInv
  <1>6. Answers(call, g, c) /\ On(k) /\ k \in Actives /\ Fits(view, k.req) /\ list \in Lists
    <2>1. Answers(call, g, c) /\ On(k)
      BY <1>1, <1>4 DEF Answers, On
    <2>. QED BY <2>1, OnIs
  <1>7. k.second => k.req.op = "load"
    BY <1>5, <1>6 DEF CallParts, Seconds
  <1>. SUFFICES CallParts(view, db', g, n) /\ ListParts(view, db', g, list)
    BY <1>1, <1>5
  <1>8. ASSUME Changes(k.req), k.req.op # "switch", NEW d \in Calls, d # c
        PROVE  ~On(call[d])
    <2>1. ASSUME On(call[d]) PROVE FALSE
      <3>1. Together(view, k, call[d])
        BY <1>5, <1>6, <1>8, <2>1 DEF CallParts, Paired
      <3>2. ~Apart(k.req, call[d].req)
        BY <1>8 DEF Apart
      <3>3. view = "withdrawals"
        BY <1>8, <3>1, <3>2 DEF Together
      <3>. QED BY <1>6, <1>8, <3>3 DEF Fits, Ops, Changes
    <2>. QED BY <2>1
  <1>. HIDE DEF g, n, S, there
  <1>9. ASSUME db' = db, ~k.second \/ ok, ok => k.req.op \in Reads /\ Fetches(db, g[c])
        PROVE  CallParts(view, db', g, n) /\ ListParts(view, db', g, list)
    <2>1. (~k.second \/ g[c].answer = "ok") /\ (Yes(g[c]) => g[c].req.op \in Reads /\ Fetches(db, g[c]))
      BY <1>4, <1>9 DEF Yes
    <2>2. CallParts(view, db, g, n) /\ ListParts(view, db, g, list)
      BY <1>5, <1>6, <2>1, SameAnswered
    <2>. QED BY <1>9, <2>2
  <1>10. CASE k.req.op = "load"
    <2>1. db' = db /\ ok /\ a = Lines(k.req.query, k.req.page * k.req.size, k.req.size)
      BY <1>3, <1>10
    <2>2. a = LinesOf(db, k.req.query, k.req.page * k.req.size, k.req.size)
      BY <2>1, FoundIs
    <2>3. Fetched(db, a, g[c].data)
      BY <1>4, <2>1 DEF Fetched
    <2>4. Fetches(db, g[c])
      BY <1>4, <1>10, <2>2, <2>3 DEF Fetches
    <2>. QED BY <1>9, <1>10, <2>1, <2>4 DEF Reads
  <1>11. CASE k.req.op = "totals"
    <2>1. db' = db /\ ok
      BY <1>3, <1>11
    <2>2. Fetches(db, g[c])
      BY <1>4, <1>11 DEF Fetches
    <2>. QED BY <1>9, <1>11, <2>1, <2>2 DEF Reads
  <1>12. CASE k.req.op = "search"
    <2>1. db' = db /\ ok /\ a = InOrder(Finds(k.req.query))
      BY <1>3, <1>12
    <2>2. a = InOrder(Found(db, k.req.query))
      BY <2>1, FoundIs
    <2>3. Fetched(db, a, g[c].data)
      BY <1>4, <2>1 DEF Fetched
    <2>4. Fetches(db, g[c])
      BY <1>4, <1>12, <2>2, <2>3 DEF Fetches
    <2>. QED BY <1>9, <1>12, <2>1, <2>4 DEF Reads
  <1>13. CASE k.req.op = "switch"
    <2>1. /\ ok = (there # {}) /\ a = InOrder(there)
          /\ db' = [i \in Ids |-> IF i \in there /\ k.req.to # 0 THEN k.req.to ELSE db[i]]
      BY <1>3, <1>13
    <2>2. db \in [Ids -> 0..3]
      BY DEF TableTypes
    <2>3. CASE there = {}
      <3>1. ~ok
        BY <2>1, <2>3
      <3>2. db' = db
        BY <2>1, <2>2, <2>3
      <3>. QED BY <1>7, <1>9, <1>13, <3>1, <3>2
    <2>4. CASE there # {}
      <3>1. PICK o \in Row : k.req.rows = {o}
        BY <1>6, <1>13, FitsSwitch
      <3>2. S = {o.id}
        BY <3>1 DEF S, NamesOf
      <3>3. there = {o.id} /\ Accepted(o.id, k.req.to)
        <4>1. \A i \in there : i = o.id /\ Accepted(i, k.req.to)
          BY <3>2 DEF there
        <4>. QED BY <2>4, <4>1
      <3>4. db[o.id] # 0
        BY <3>3 DEF Accepted
      <3>5. db' = [i \in Ids |-> IF i = o.id /\ k.req.to # 0 THEN k.req.to ELSE db[i]]
        <4>1. \A i : i \in there <=> i = o.id
          BY <3>3
        <4>. QED BY <2>1, <4>1
      <3>6. a[1] = o.id /\ 1 \in 1..Len(a)
        <4>1. there \in SUBSET Ids
          BY <1>1 DEF there
        <4>2. there \in SUBSET Nat /\ IsFiniteSet(there)
          BY <4>1, FoundFinite
        <4>3. a \in Seq(there) /\ a # <<>>
          BY <2>1, <2>4, <4>2, InOrderSeq
        <4>. QED BY <3>3, <4>3, FirstOf
      <3>7. g[c].answer = "ok" /\ g[c].data[1].status = db'[o.id]
        BY <1>4, <2>1, <2>4, <3>6
      <3>8. \A d \in Calls : On(call[d]) => call[d].req.rows \in SUBSET Row
        BY OnIs DEF Requests
      <3>9. Switching(view, db, db', call, g, c, o)
        BY <1>13, <2>2, <3>1, <3>4, <3>5, <3>7, <3>8 DEF Switching
      <3>10. CallParts(view, db', g, n) /\ ListParts(view, db', g, list)
        BY <1>5, <1>6, <3>7, <3>9, SwitchAnswered
      <3>. QED BY <3>10
    <2>. QED BY <2>3, <2>4
  <1>14. k.pager.page > 1 \/ k.pager.page = 1
    <2>1. k.pager.page \in Nat \ {0}
      BY <1>6 DEF Actives, Pagers
    <2>. QED BY <2>1
  <1>15. CASE k.req.op \in {"delete", "drop"}
    <2>1. /\ ok \/ there = {}
          /\ db' = [i \in Ids |-> IF i \in S THEN 0 ELSE db[i]]
          /\ k.req.op = "drop" => k.pager.page = 1
      BY <1>3, <1>5, <1>14, <1>15
    <2>2. CASE ~ok
      <3>1. ASSUME NEW i \in S PROVE db[i] = 0
        <4>1. k.req.to = 0 /\ ~Accepted(i, k.req.to)
          BY <1>6, <1>15, <2>1, <2>2 DEF there, Fits
        <4>. QED BY <4>1 DEF Accepted
      <3>2. db \in [Ids -> 0..3]
        BY DEF TableTypes
      <3>3. db' = db
        BY <2>1, <3>1, <3>2
      <3>. QED BY <1>7, <1>9, <1>15, <2>2, <3>3
    <2>3. CASE ok
      <3>1. g[c].answer = "ok" /\ Changes(k.req) /\ k.req.op # "switch"
        BY <1>4, <1>15, <2>3 DEF Changes
      <3>2. \A d \in Calls : d # c => ~On(call[d])
        BY <1>8, <3>1
      <3>3. S = NamesOf(k.req.rows)
        BY DEF S
      <3>4. Settled(view, db', g, list)
        BY <1>5, <1>6, <1>15, <2>1, <3>1, <3>2, <3>3, DeleteAnswered
      <3>5. Right(view, db', g[c])
        <4>1. \A r \in k.req.rows : r.id \in S
          BY DEF S, NamesOf
        <4>2. \A i \in S : db'[i] = 0
          BY <1>1, <2>1
        <4>. QED BY <1>4, <1>15, <2>1, <4>1, <4>2 DEF Right
      <3>. QED BY <1>5, <1>6, <3>1, <3>2, <3>4, <3>5, LoneAnswered
    <2>. QED BY <2>2, <2>3
  <1>16. CASE k.req.op \in {"copy", "purge"}
    <2>1. ok /\ (k.req.op = "copy" => k.pager.page = 1) /\ (k.req.op = "purge" => view # "channels")
      BY <1>3, <1>5, <1>14, <1>16
    <2>2. g[c].answer = "ok" /\ Changes(k.req) /\ k.req.op # "switch"
      BY <1>4, <1>16, <2>1 DEF Changes
    <2>3. \A d \in Calls : d # c => ~On(call[d])
      BY <1>8, <2>2
    <2>4. Right(view, db', g[c])
      BY <1>4, <1>16, <2>1 DEF Right
    <2>5. Owes(view, g[c])
      BY <1>4, <1>16, <2>2 DEF Owes, Yes
    <2>6. Settled(view, db', g, list)
      BY <2>5 DEF Settled
    <2>. QED BY <1>5, <1>6, <2>2, <2>3, <2>4, <2>6, LoneAnswered
  <1>. QED BY <1>3, <1>10, <1>11, <1>12, <1>13, <1>15, <1>16

LEMMA RowsUpset ==
    ASSUME TableTypes, RowsInv, NEW c \in Calls, Refuse(c) \/ Lose(c)
    PROVE  RowsInv'
  <1>. SUFFICES ASSUME Plainly', Fine'
                PROVE  /\ CallParts(view', db', call', bounds'.asked) /\ ListParts(view', db', call', list')
                       /\ knob' = [i \in Ids |-> 0]
    BY DEF RowsInv
  <1>. DEFINE k == call[c]
              g == call'
              n == bounds.asked
  <1>1. /\ UNCHANGED <<view, db, list, knob>> /\ history \subseteq history' /\ bounds'.asked = bounds.asked
        /\ k \in Goods(view) /\ (k.second => "unloaded" \in history')
    BY UpsetIs
  <1>2. PICK a \in {"refused", "broken"} :
           /\ call' = [call EXCEPT ![c] = [k EXCEPT !.pc = "answered", !.answer = a]]
           /\ k.pc = "sent" \/ "lost" \in history'
    BY UpsetIs
  <1>3. "unloaded" \notin history' /\ "lost" \notin history'
    BY DEF Fine, Excuses
  <1>4. k.pc = "sent" /\ ~k.second
    BY <1>1, <1>2, <1>3
  <1>5. Answers(call, g, c) /\ g[c].answer # "ok"
    <2>1. g[c] = [k EXCEPT !.pc = "answered", !.answer = a] /\ \A d \in Calls \ {c} : g[d] = call[d]
      BY <1>2 DEF TableTypes
    <2>2. k \in Actives
      BY <1>1 DEF Goods
    <2>3. /\ g[c].pc = "answered" /\ g[c].answer = a /\ g[c].req = k.req /\ g[c].no = k.no
          /\ g[c].seen = k.seen /\ g[c].pager = k.pager /\ g[c].second = k.second
      BY <2>1, <2>2 DEF Actives
    <2>. QED BY <1>4, <2>1, <2>3 DEF Answers
  <1>6. /\ CallParts(view, db, call, n) /\ ListParts(view, db, call, list) /\ knob = [i \in Ids |-> 0]
    BY <1>1 DEF Plainly, Fine, RowsInv
  <1>. HIDE DEF g, n
  <1>7. ~Yes(g[c])
    BY <1>5 DEF Yes
  <1>8. CallParts(view, db, g, n) /\ ListParts(view, db, g, list)
    BY <1>4, <1>5, <1>6, <1>7, SameAnswered
  <1>. QED BY <1>1, <1>6, <1>8 DEF g, n

LEMMA RowsServer ==
    ASSUME TableTypes, RowsInv, Server
    PROVE  RowsInv'
  <1>1. CASE Foreign
    <2>1. "foreign" \in history'
      BY <1>1, ForeignIs
    <2>. QED BY <2>1 DEF RowsInv, Fine, Excuses
  <1>. QED BY <1>1, RowsServe, RowsUpset DEF Server

LEMMA RowsShaped ==
    ASSUME TableTypes, RowsInv, Shaped
    PROVE  RowsInv'
  <1>0. Around /\ view' = view
    BY DEF Shaped, Around
  <1>1. CASE ShapeMine
    BY <1>0, <1>1 DEF ShapeMine, RowsInv, Plainly
  <1>. QED BY <1>0, <1>1, RowsLocal, RowsAsk, RowsAskTwo, RowsHandled DEF Shaped

\* Nothing but loads of the first page, and nothing on the page.
LEMMA RowsInit ==
    ASSUME Init
    PROVE  RowsInv
  <1>. SUFFICES ASSUME Plainly
                PROVE  /\ CallParts(view, db, call, bounds.asked) /\ ListParts(view, db, call, list)
                       /\ knob = [i \in Ids |-> 0]
    BY DEF RowsInv
  <1>. DEFINE m == Mounts(view)
  <1>1. /\ list = EmptyList /\ knob = [i \in Ids |-> 0] /\ bounds.asked = 0
        /\ call = [c \in Calls |-> IF c \in DOMAIN m THEN Sent(m[c], 0, pager, search) ELSE NoCall]
    BY DEF Init
  <1>2. list.rows = <<>> /\ list \in Lists
    <2>1. list \in Lists
      BY InitTypes DEF TableTypes
    <2>. QED BY <1>1, <2>1 DEF EmptyList
  <1>3. \A i \in DOMAIN m : m[i].op \in {"load", "search"} /\ (m[i].op = "load" => m[i].page = 0)
    <2>. DEFINE a == Load(0, ItemsPerPage)
                b == Search("")
    <2>1. a.op = "load" /\ a.page = 0 /\ b.op = "search"
      BY DEF Load, Search
    <2>2. m = <<a, a>> \/ m = <<b>> \/ m = <<a>>
      BY DEF Mounts, Plainly
    <2>. HIDE DEF m, a, b
    <2>3. \A i \in DOMAIN m : m[i] = a \/ m[i] = b
      BY <2>2
    <2>. QED BY <2>1, <2>3
  <1>4. \A c \in Calls : call[c] = IF c \in DOMAIN m THEN Sent(m[c], 0, pager, search) ELSE NoCall
    BY <1>1
  <1>. HIDE DEF m
  <1>5. ASSUME NEW c \in Calls, On(call[c])
        PROVE  /\ call[c].pc = "sent" /\ call[c].no = 0 /\ ~call[c].second
               /\ call[c].req.op \in {"load", "search"} /\ (call[c].req.op = "load" => call[c].req.page = 0)
    <2>1. c \in DOMAIN m /\ call[c] = Sent(m[c], 0, pager, search)
      BY <1>4, <1>5 DEF On, NoCall
    <2>2. call[c].pc = "sent" /\ call[c].no = 0 /\ ~call[c].second /\ call[c].req = m[c]
      BY <2>1, SentHolds, FirstIs
    <2>. QED BY <1>3, <2>1, <2>2
  <1>6. \A c \in Calls : ~Yes(call[c])
    BY <1>5 DEF Yes, On
  <1>7. CallParts(view, db, call, bounds.asked)
    <2>1. Numbered(call, bounds.asked) /\ Seconds(call)
      BY <1>1, <1>5 DEF Numbered, Seconds
    <2>2. Truthful(view, db, call)
      BY <1>6 DEF Truthful
    <2>3. \A c \in Calls : On(call[c]) => ~Changes(call[c].req) /\ ~Later(call[c].req)
      BY <1>5 DEF Changes, Later
    <2>4. Paired(view, call)
      BY <2>3 DEF Paired, Together
    <2>. QED BY <2>1, <2>2, <2>4 DEF CallParts
  <1>8. ListParts(view, db, call, list)
    <2>1. Settled(view, db, call, list)
      BY <1>2, NoRows, ExactSettled
    <2>2. Ahead(db, call) /\ Held(view, call, list)
      BY <1>5 DEF Ahead, Held, Later, Changes
    <2>. QED BY <2>1, <2>2 DEF ListParts
  <1>. QED BY <1>1, <1>7, <1>8

LEMMA RowsSound ==
    ASSUME TableTypes, RowsInv, Plainly
    PROVE  ListSound
  <1>. SUFFICES ASSUME Calm PROVE IsPrefix(Seen(list.rows), AtServer(Listed))
    BY DEF ListSound, Plainly
  <1>1. /\ CallParts(view, db, call, bounds.asked) /\ ListParts(view, db, call, list)
        /\ knob = [i \in Ids |-> 0]
    BY DEF RowsInv, Calm, Fine
  <1>2. \A c \in Calls : ~Owes(view, call[c]) /\ ~Deletes(call[c]) /\ ~Switches(call[c])
    BY DEF Calm, Quiet, Idle, Owes, Deletes, Switches, Yes, On
  <1>. DEFINE rows == list.rows
              S == Found(db, list.of)
              n == Cardinality(S)
              all == InOrder(S)
              l == Len(rows)
  <1>3. list \in Lists /\ rows \in Seq(Row)
    BY OnIs
  <1>4. Exact(db, rows, list.of)
    BY <1>1, <1>2, <1>3, SettledExact DEF ListParts
  <1>5. Listed = all
    BY FoundIs DEF Listed
  <1>6. S \in SUBSET Ids /\ S \in SUBSET Nat /\ IsFiniteSet(S) /\ n \in Nat
    BY FoundSet
  <1>7. all \in Seq(S) /\ Len(all) = n
    BY <1>6, InOrderSeq
  <1>8. DOMAIN all = 1..n /\ all \in [1..n -> S]
    BY <1>7, LenProperties
  <1>9. l \in Nat /\ DOMAIN rows = 1..l /\ \A j \in 1..l : rows[j].id \in Ids
    BY <1>3, RowsAre
  <1>10. l <= n /\ \A j \in 1..l : rows[j].id = all[j] /\ rows[j].status = db[rows[j].id]
    BY <1>4 DEF Exact
  <1>. DEFINE s == Seen(rows)
              t == AtServer(all)
  <1>11. s = [j \in 1..l |-> [id |-> rows[j].id, status |-> rows[j].status]]
    <2>1. \A j \in 1..l : Shown(rows[j]) = rows[j].status
      BY <1>1, <1>9 DEF Shown
    <2>. QED BY <1>9, <2>1 DEF Seen
  <1>12. t = [j \in 1..n |-> [id |-> all[j], status |-> db[all[j]]]]
    BY <1>8 DEF AtServer
  <1>. HIDE DEF rows, S, n, all, l, s, t
  <1>13. \A j \in 1..l : j \in 1..n /\ s[j] = t[j]
    <2>1. \A j \in 1..l : j \in 1..n
      BY <1>6, <1>9, <1>10
    <2>. QED BY <1>10, <1>11, <1>12, <2>1
  <1>. DEFINE Look == [id : Ids, status : 0..3]
  <1>14. s \in [1..l -> Look] /\ t \in [1..n -> Look]
    <2>1. /\ \A j \in 1..l : rows[j].id \in Ids /\ rows[j].status \in 0..3
          /\ \A j \in 1..n : all[j] \in Ids /\ db[all[j]] \in 0..3
      BY <1>6, <1>8, <1>9, <1>10 DEF TableTypes
    <2>. QED BY <1>11, <1>12, <2>1
  <1>. HIDE DEF Look
  <1>15. Len(s) = l /\ Len(t) = n
    BY <1>6, <1>9, <1>14, SeqIs
  <1>. DEFINE p == SubSeq(s, 1, l)
              q == SubSeq(t, 1, l)
  <1>16. p \in [1..l -> Look] /\ q \in [1..l -> Look] /\ \A j \in 1..l : p[j] = s[j] /\ q[j] = t[j]
    <2>1. \A j \in 1..l : s[j] \in Look /\ t[j] \in Look
      BY <1>13, <1>14
    <2>2. 1 \in Int /\ l \in Int /\ (IF 1 <= l THEN l - 1 + 1 ELSE 0) = l /\ l - 1 + 1 = l
      BY <1>9
    <2>3. p \in Seq(Look) /\ Len(p) = l /\ q \in Seq(Look) /\ Len(q) = l
      BY <2>1, <2>2, SubSeqProperties
    <2>4. \A j \in 1..l : p[j] = s[1 + j - 1] /\ q[j] = t[1 + j - 1]
      BY <2>1, <2>2, SubSeqProperties
    <2>5. \A j \in 1..l : 1 + j - 1 = j
      BY <1>9
    <2>. HIDE DEF p, q
    <2>6. p \in [1..l -> Look] /\ q \in [1..l -> Look]
      BY <2>3, LenProperties
    <2>. QED BY <2>4, <2>5, <2>6
  <1>. HIDE DEF p, q
  <1>17. p = q
    <2>1. \A j \in 1..l : p[j] = q[j]
      BY <1>13, <1>16
    <2>2. p = [j \in 1..l |-> p[j]] /\ q = [j \in 1..l |-> q[j]]
      BY <1>16
    <2>. QED BY <2>1, <2>2
  <1>18. IsPrefix(s, t)
    BY <1>10, <1>15, <1>17 DEF IsPrefix, p, q
  <1>. QED BY <1>5, <1>18 DEF s, t, rows, all

-----------------------------------------------------------------------------
(* The logs, of which the server sends the page shown                      *)

Loads(k) == On(k) /\ k.req.op = "load"
Latest(f, c) == Loads(f[c]) /\ \A d \in Calls : Loads(f[d]) => f[d].no <= f[c].no
\* A load of the page shown.
Meets(q, p) == q.page = p.page - 1 /\ q.size = p.size

\* The load sent last is of the page shown; without one under way its rows are shown.
LogParts(at, f, n, p, l) ==
    /\ Numbered(f, n)
    /\ \A c \in Calls : Yes(f[c]) => Fetches(at, f[c])
    /\ \A c \in Calls : f[c].pc = "answered" => f[c].answer = "ok"
    /\ \A c \in Calls : Latest(f, c) => Meets(f[c].req, p)
    /\ \/ \E c \in Calls : Loads(f[c])
       \/ Fetched(at, LinesOf(at, l.of, (p.page - 1) * p.size, p.size), l.rows)

LogInv ==
    view = "logs" /\ Fine /\ ~Faulty =>
        LogParts(db, call, bounds.asked, pager, list) /\ knob = [i \in Ids |-> 0]

\* Requests N are sent, e is the last of them and loads the page that is shown from now on.
LogNew(f, g, N, e, n, m, q) ==
    /\ N \subseteq Calls /\ e \in N /\ n \in Nat /\ m \in Nat /\ n < m
    /\ g[e].pc = "sent" /\ g[e].no = m /\ g[e].req.op = "load" /\ Meets(g[e].req, q)
    /\ \A d \in N : d # e => g[d].pc = "sent" /\ g[d].no \in Nat /\ g[d].no < m
    /\ \A d \in Calls : d \notin N => g[d] = f[d]
    /\ \A d \in Calls : On(f[d]) => f[d].no \in Nat

LEMMA LogAsked ==
    ASSUME NEW at, NEW f, NEW g, NEW n, NEW m, NEW p, NEW q, NEW l, NEW N, NEW e, LogParts(at, f, n, p, l),
           LogNew(f, g, N, e, n, m, q)
    PROVE  LogParts(at, g, m, q, l)
  <1>1. \A d \in Calls : d \notin N => g[d] = f[d]
    BY DEF LogNew
  <1>2. \A d \in N : g[d].pc = "sent" /\ ~Yes(g[d])
    BY DEF LogNew, Yes
  <1>3. Numbered(g, m)
    <2>1. ASSUME NEW d \in Calls, On(g[d]) PROVE g[d].no <= m
      <3>1. CASE d \in N
        BY <3>1 DEF LogNew
      <3>2. CASE d \notin N
        <4>1. g[d] = f[d] /\ On(f[d]) /\ g[d].no \in Nat /\ g[d].no <= n
          BY <1>1, <2>1, <3>2 DEF LogNew, LogParts, Numbered
        <4>. QED BY <4>1 DEF LogNew
      <3>. QED BY <3>1, <3>2
    <2>. QED BY <2>1 DEF Numbered
  <1>4. Loads(g[e]) /\ e \in Calls
    BY DEF LogNew, Loads, On
  <1>5. ASSUME NEW c \in Calls, Latest(g, c) PROVE c = e
    <2>1. g[c].no >= m
      BY <1>4, <1>5 DEF Latest, LogNew
    <2>2. CASE c \in N
      BY <2>1, <2>2 DEF LogNew
    <2>3. CASE c \notin N
      <3>1. g[c] = f[c] /\ On(f[c])
        BY <1>1, <1>5, <2>3 DEF Latest, Loads
      <3>2. g[c].no \in Nat /\ g[c].no <= n
        BY <3>1 DEF LogNew, LogParts, Numbered
      <3>. QED BY <2>1, <3>2 DEF LogNew
    <2>. QED BY <2>2, <2>3
  <1>6. \A c \in Calls : Latest(g, c) => Meets(g[c].req, q)
    BY <1>5 DEF LogNew
  <1>. QED BY <1>1, <1>2, <1>3, <1>4, <1>6 DEF LogParts

\* Request c ends, or goes on as one that loads no rows.
LogPast(f, g, c, n) ==
    /\ f[c].pc = "answered" /\ ~Loads(g[c]) /\ (On(g[c]) => g[c].pc = "sent" /\ g[c].no = f[c].no)
    /\ \A d \in Calls : d # c => g[d] = f[d]
    /\ \A d \in Calls : On(f[d]) => f[d].no \in Nat /\ ~(f[d].no < f[c].no)

LEMMA LogOver ==
    ASSUME NEW at, NEW f, NEW g, NEW n, NEW p, NEW q, NEW l, NEW o, NEW c \in Calls, LogParts(at, f, n, p, l),
           LogPast(f, g, c, n), q.page = p.page, q.size = p.size,
           IF f[c].req.op = "load"
           THEN o.of = f[c].req.query /\ Len(o.rows) = Len(f[c].data) /\ \A j \in 1..Len(f[c].data) : Alike(o.rows[j], f[c].data[j])
           ELSE o = l
    PROVE  LogParts(at, g, n, q, o)
  <1>1. On(f[c]) /\ Yes(f[c]) /\ ~Yes(g[c]) /\ (g[c].pc # "answered")
    BY DEF LogPast, LogParts, On, Yes
  <1>2. \A d \in Calls : d # c => g[d] = f[d]
    BY DEF LogPast
  <1>3. Numbered(g, n)
    BY <1>1, <1>2 DEF LogPast, LogParts, Numbered
  <1>4. ASSUME NEW d \in Calls, Latest(g, d) PROVE Meets(g[d].req, q)
    <2>1. d # c /\ g[d] = f[d] /\ On(f[d])
      BY <1>2, <1>4 DEF Latest, Loads, LogPast
    <2>2. f[c].no <= f[d].no
      BY <1>1, <2>1 DEF LogPast
    <2>3. ASSUME NEW b \in Calls, Loads(f[b]) PROVE f[b].no <= f[d].no
      <3>1. b # c => g[b] = f[b]
        BY <1>2
      <3>. QED BY <1>4, <2>1, <2>2, <2>3, <3>1 DEF Latest
    <2>4. Latest(f, d)
      BY <1>4, <2>1, <2>3 DEF Latest
    <2>. QED BY <2>1, <2>4 DEF LogParts, Meets
  <1>5. ASSUME \A d \in Calls : ~Loads(g[d])
        PROVE  Fetched(at, LinesOf(at, o.of, (q.page - 1) * q.size, q.size), o.rows)
    <2>1. \A d \in Calls : Loads(f[d]) => d = c
      BY <1>2, <1>5
    <2>2. CASE f[c].req.op = "load"
      <3>1. Latest(f, c)
        <4>1. Loads(f[c]) /\ f[c].no <= f[c].no
          BY <1>1, <2>2 DEF Loads, LogPast
        <4>. QED BY <2>1, <4>1 DEF Latest
      <3>2. f[c].req.page = q.page - 1 /\ f[c].req.size = q.size /\ o.of = f[c].req.query
        BY <2>2, <3>1 DEF LogParts, Meets
      <3>. DEFINE a == LinesOf(at, f[c].req.query, f[c].req.page * f[c].req.size, f[c].req.size)
      <3>3. Fetched(at, a, f[c].data)
        BY <1>1, <2>2 DEF LogParts, Fetches
      <3>4. a = LinesOf(at, o.of, (q.page - 1) * q.size, q.size)
        BY <3>2
      <3>. HIDE DEF a
      <3>5. Fetched(at, a, o.rows)
        BY <2>2, <3>3 DEF Fetched, Alike
      <3>. QED BY <3>4, <3>5
    <2>3. CASE f[c].req.op # "load"
      <3>1. \A d \in Calls : ~Loads(f[d])
        BY <2>1, <2>3 DEF Loads
      <3>2. Fetched(at, LinesOf(at, l.of, (p.page - 1) * p.size, p.size), l.rows) /\ o = l
        BY <2>3, <3>1 DEF LogParts
      <3>. QED BY <3>2
    <2>. QED BY <2>2, <2>3
  <1>. QED BY <1>1, <1>2, <1>3, <1>4, <1>5 DEF LogParts

LEMMA LogServer ==
    ASSUME TableTypes, LogInv, Server
    PROVE  LogInv'
  <1>. SUFFICES ASSUME view' = "logs", Fine', ~Faulty'
                PROVE  LogParts(db', call', bounds'.asked, pager', list') /\ knob' = [i \in Ids |-> 0]
    BY DEF LogInv
  <1>1. ~Foreign
    BY ForeignIs DEF Fine, Excuses
  <1>2. ASSUME NEW c \in Calls, Refuse(c) \/ Lose(c) PROVE FALSE
    BY <1>2, UpsetIs DEF Fine, Excuses, Faulty
  <1>3. PICK c \in Calls : Serve(c)
    BY <1>1, <1>2 DEF Server
  <1>. DEFINE k == call[c]
              g == call'
  <1>4. /\ k.pc = "sent" /\ k \in Goods(view) /\ UNCHANGED <<view, list, pager, search, spin, picked, knob, bounds>>
        /\ history \subseteq history' /\ \E a \in Seq(Ids), ok \in BOOLEAN : Served(c, a, ok)
    BY <1>3, ServeIs
  <1>5. PICK a \in Seq(Ids), ok \in BOOLEAN : Served(c, a, ok)
    BY <1>4
  <1>6. /\ g[c].pc = "answered" /\ g[c].answer = (IF ok THEN "ok" ELSE "refused")
        /\ g[c].req = k.req /\ g[c].no = k.no /\ Len(g[c].data) = Len(a)
        /\ \A j \in 1..Len(a) : g[c].data[j].id = a[j] /\ g[c].data[j].status = db'[a[j]]
        /\ \A d \in Calls \ {c} : g[d] = call[d]
    BY <1>4, <1>5, ServedTold
  <1>7. LogParts(db, call, bounds.asked, pager, list) /\ knob = [i \in Ids |-> 0]
    BY <1>4 DEF LogInv, Fine, Faulty
  <1>8. k.req.op \in {"load", "totals"}
    BY <1>4 DEF Goods, Fits, Ops
  <1>9. /\ db' = db /\ ok
        /\ k.req.op = "load" => a = Lines(k.req.query, k.req.page * k.req.size, k.req.size)
    BY <1>5, <1>8 DEF Served
  <1>10. Fetches(db, g[c])
    <2>1. CASE k.req.op = "load"
      <3>1. a = LinesOf(db, k.req.query, k.req.page * k.req.size, k.req.size)
        BY <1>9, <2>1, FoundIs
      <3>2. Fetched(db, a, g[c].data)
        BY <1>6, <1>9 DEF Fetched
      <3>. QED BY <1>6, <2>1, <3>1, <3>2 DEF Fetches
    <2>2. CASE k.req.op = "totals"
      BY <1>6, <2>2 DEF Fetches
    <2>. QED BY <1>8, <2>1, <2>2
  <1>. HIDE DEF g
  <1>11. \A d \in Calls : g[d].req = call[d].req /\ g[d].no = call[d].no /\ (On(g[d]) <=> On(call[d]))
    BY <1>4, <1>6 DEF On
  <1>12. \A d \in Calls : (Loads(g[d]) <=> Loads(call[d])) /\ (Latest(g, d) <=> Latest(call, d))
    BY <1>11 DEF Loads, Latest
  <1>13. LogParts(db, g, bounds.asked, pager, list)
    <2>1. Numbered(g, bounds.asked)
      BY <1>7, <1>11 DEF LogParts, Numbered
    <2>2. \A d \in Calls : Yes(g[d]) => Fetches(db, g[d])
      BY <1>6, <1>7, <1>10 DEF LogParts, Yes
    <2>3. \A d \in Calls : g[d].pc = "answered" => g[d].answer = "ok"
      BY <1>6, <1>7, <1>9 DEF LogParts
    <2>. QED BY <1>7, <1>11, <1>12, <2>1, <2>2, <2>3 DEF LogParts
  <1>. QED BY <1>4, <1>7, <1>9, <1>13 DEF g

LEMMA LogPage ==
    ASSUME TableTypes, LogInv, view = "logs", LogStep
    PROVE  LogInv'
  <1>. SUFFICES ASSUME Fine', ~Faulty'
                PROVE  LogParts(db', call', bounds'.asked, pager', list') /\ knob' = [i \in Ids |-> 0]
    BY DEF LogInv
  <1>. DEFINE n == bounds.asked
              Holds == history \subseteq history' => LogParts(db, call, n, pager, list) /\ knob = [i \in Ids |-> 0]
  <1>0. /\ Holds /\ n \in Nat /\ n + 1 \in Nat /\ n + 2 \in Nat /\ pager \in Pagers
        /\ \A d \in Calls : On(call[d]) => call[d].no \in Nat
    BY OnIs, NextIs, AboutOpen DEF LogInv, Fine, Faulty
  <1>1. ASSUME NEW c \in Calls, NEW q, NEW p, NEW f, AskBy(c, q, p, f), q.op = "load", Meets(q, pager'),
               UNCHANGED <<db, list, knob>>
        PROVE  LogParts(db', call', bounds'.asked, pager', list') /\ knob' = [i \in Ids |-> 0]
    <2>1. /\ history \subseteq history' /\ call'[c] = Sent(q, n + 1, p, f) /\ \A d \in Calls \ {c} : call'[d] = call[d]
          /\ bounds'.asked = n + 1
      BY <1>1, AskedFree
    <2>2. call'[c].pc = "sent" /\ call'[c].req = q /\ call'[c].no = n + 1
      BY <1>0, <2>1, SentHolds
    <2>. DEFINE g == call'
                m == n + 1
    <2>3. LogNew(call, g, {c}, c, n, m, pager')
      BY <1>0, <1>1, <2>1, <2>2 DEF LogNew
    <2>. HIDE DEF g, m
    <2>4. LogParts(db, g, m, pager', list)
      BY <1>0, <2>1, <2>3, LogAsked
    <2>. QED BY <1>0, <1>1, <2>1, <2>4 DEF g, m
  <1>2. ASSUME NEW c \in Calls, Handles(c), ~Loads(call'[c]), On(call'[c]) => call'[c].pc = "sent" /\ call'[c].no = call[c].no,
               \A d \in Calls : d # c => call'[d] = call[d], pager'.page = pager.page, pager'.size = pager.size,
               IF call[c].req.op = "load" THEN /\ list'.of = call[c].req.query /\ Len(list'.rows) = Len(call[c].data)
                                               /\ \A j \in 1..Len(call[c].data) : Alike(list'.rows[j], call[c].data[j])
               ELSE list' = list,
               knob' = knob
        PROVE  LogParts(db', call', bounds'.asked, pager', list') /\ knob' = [i \in Ids |-> 0]
    <2>1. /\ call[c].pc = "answered" /\ history \subseteq history' /\ db' = db /\ bounds' = bounds
          /\ \A d \in Calls : ~Idle(d) => ~(call[d].no < call[c].no)
      BY <1>2 DEF Handles, Fine, Excuses
    <2>. DEFINE g == call'
                p == pager'
                l == list'
    <2>2. LogPast(call, g, c, n)
      BY <1>0, <1>2, <2>1, OnIs DEF LogPast
    <2>3. /\ p.page = pager.page /\ p.size = pager.size
          /\ IF call[c].req.op = "load" THEN /\ l.of = call[c].req.query /\ Len(l.rows) = Len(call[c].data)
                                             /\ \A j \in 1..Len(call[c].data) : Alike(l.rows[j], call[c].data[j])
             ELSE l = list
      BY <1>2
    <2>. HIDE DEF g, p, l
    <2>4. LogParts(db, g, n, p, l)
      BY <1>0, <2>1, <2>2, <2>3, LogOver
    <2>. QED BY <1>0, <1>2, <2>1, <2>4 DEF g, p, l
  <1>3. \A q, r : /\ LoadOf(q, r, pager.size).op = "load" /\ LoadOf(q, r, pager.size).page = r /\ LoadOf(q, r, pager.size).size = pager.size
    BY DEF LoadOf, Load
  <1>4. \A q, z : Reload(q, z).op = "load" /\ Reload(q, z).page = 0 /\ Reload(q, z).size = z
    BY DEF Reload, LoadOf, Load
  <1>5. CASE LogRefresh
    <2>1. PICK c \in Calls : /\ pager' = [pager EXCEPT !.page = 1]
                             /\ AskBy(c, Reload(search.word, pager.size), pager, search)
                             /\ UNCHANGED <<db, list, knob>>
      BY <1>5 DEF LogRefresh, Starts, Ask
    <2>2. Meets(Reload(search.word, pager.size), pager')
      BY <1>0, <1>4, <2>1 DEF Meets, Pagers
    <2>. QED BY <1>1, <1>4, <2>1, <2>2
  <1>6. CASE LogInput
    BY <1>0, <1>6 DEF LogInput, Type, NoRequest
  <1>7. CASE LogType
    <2>1. PICK c \in Calls, q \in Words : /\ pager' = [pager EXCEPT !.page = 1]
                                          /\ AskBy(c, Reload(q, pager.size), pager, search')
                                          /\ UNCHANGED <<db, list, knob>>
      BY <1>7 DEF LogType, AskWith, Words
    <2>2. Meets(Reload(q, pager.size), pager')
      BY <1>0, <1>4, <2>1 DEF Meets, Pagers
    <2>. QED BY <1>1, <1>4, <2>1, <2>2
  <1>8. CASE LogTurn
    <2>1. PICK r \in 1..Ceil(pager.count, pager.size), c \in Calls :
             /\ pager' = [pager EXCEPT !.page = r]
             /\ AskBy(c, LoadOf(search.word, r - 1, pager.size), pager, search)
             /\ UNCHANGED <<db, list, knob>>
      BY <1>8 DEF LogTurn, Starts, Ask
    <2>2. Meets(LoadOf(search.word, r - 1, pager.size), pager')
      BY <1>0, <1>3, <2>1 DEF Meets, Pagers
    <2>. QED BY <1>1, <1>3, <2>1, <2>2
  <1>9. CASE LogResize
    <2>1. PICK z \in Sizes, c \in Calls, d \in Calls :
             /\ pager' = [pager EXCEPT !.size = z, !.page = 1]
             /\ AskTwo(c, d, LoadOf(search.word, 0, pager.size), Reload(search.word, z), pager')
             /\ UNCHANGED <<db, list, knob>>
      BY <1>9 DEF LogResize
    <2>. DEFINE q == LoadOf(search.word, 0, pager.size)
                o == Reload(search.word, z)
                g == call'
                m == n + 2
    <2>2. /\ c # d /\ history \subseteq history' /\ g[c] = Sent(q, n + 1, pager, search) /\ g[d] = Sent(o, m, pager', search)
          /\ \A e \in Calls \ {c, d} : g[e] = call[e]
          /\ bounds'.asked = m
      BY <2>1, AskedTwoFree
    <2>3. g[c].pc = "sent" /\ g[c].no = n + 1 /\ g[d].pc = "sent" /\ g[d].no = m /\ g[d].req = o
      BY <1>0, <2>2, SentHolds
    <2>4. o.op = "load" /\ Meets(o, pager')
      BY <1>0, <1>4, <2>1 DEF Meets, Pagers
    <2>5. n < m /\ n + 1 < m /\ m \in Nat
      BY <1>0
    <2>. HIDE DEF g, m, q, o
    <2>6. LogNew(call, g, {c, d}, d, n, m, pager')
      BY <1>0, <2>2, <2>3, <2>4, <2>5 DEF LogNew
    <2>7. LogParts(db, g, m, pager', list)
      BY <1>0, <2>2, <2>6, LogAsked
    <2>. QED BY <1>0, <2>1, <2>2, <2>7 DEF g
  <1>10. ASSUME NEW c \in Calls, LogLoaded(c)
         PROVE  LogParts(db', call', bounds'.asked, pager', list') /\ knob' = [i \in Ids |-> 0]
    <2>. DEFINE k == call[c]
    <2>1. /\ k.pc = "answered" /\ k.req.op = "load" /\ UNCHANGED <<view, db, bounds, knob>>
          /\ Notes(c, {}) \/ Notes(c, {"toggled"})
          /\ End(c) \/ GoOn(c, Totals(k.req.query))
          /\ Good(c) => Show(Objects(k.data), k.req.query) /\ pager' = [pager EXCEPT !.count = k.total]
      BY <1>10 DEF LogLoaded, Answered, Still
    <2>2. Handles(c)
      BY <2>1, HandlesIs
    <2>3. k \in Actives /\ ~Idle(c)
      BY <2>1, Under DEF Idle
    <2>4. Good(c)
      BY <1>0, <2>1, <2>2 DEF Handles, Good, LogParts
    <2>5. list'.of = k.req.query /\ list'.rows = Objects(k.data)
      BY <2>1, <2>4 DEF Show
    <2>6. Len(list'.rows) = Len(k.data) /\ \A j \in 1..Len(k.data) : Alike(list'.rows[j], k.data[j])
      <3>1. k.data \in Seq(Item)
        BY <2>3 DEF Actives
      <3>. QED BY <2>5, <3>1, ObjectsAre, FreshIs
    <2>7. pager'.page = pager.page /\ pager'.size = pager.size
      BY <1>0, <2>1, <2>4 DEF Pagers
    <2>8. /\ ~Loads(call'[c]) /\ (On(call'[c]) => call'[c].pc = "sent" /\ call'[c].no = k.no)
          /\ \A d \in Calls : d # c => call'[d] = call[d]
      <3>1. CASE End(c)
        BY <3>1 DEF End, Loads, On, NoCall, TableTypes
      <3>2. CASE GoOn(c, Totals(k.req.query))
        <4>1. Totals(k.req.query).op = "totals"
          BY DEF Totals, LoadOf, Load
        <4>2. /\ call'[c] = [k EXCEPT !.pc = "sent", !.req = Totals(k.req.query), !.second = TRUE]
              /\ \A d \in Calls : d # c => call'[d] = call[d]
          BY <3>2 DEF GoOn, TableTypes
        <4>. QED BY <2>3, <4>1, <4>2 DEF Loads, Actives
      <3>. QED BY <2>1, <3>1, <3>2
    <2>. QED BY <1>2, <2>1, <2>2, <2>5, <2>6, <2>7, <2>8
  <1>11. ASSUME NEW c \in Calls, LogTotals(c) \/ (Thrown(c, {}) /\ call[c].req.op = "totals")
         PROVE  LogParts(db', call', bounds'.asked, pager', list') /\ knob' = [i \in Ids |-> 0]
    <2>1. /\ call[c].pc = "answered" /\ call[c].req.op # "load" /\ UNCHANGED <<view, db, bounds, knob, list, pager>>
          /\ Notes(c, {}) /\ End(c)
      BY <1>11 DEF LogTotals, Thrown, Answered, Still
    <2>2. Handles(c)
      BY <2>1, HandlesIs
    <2>3. ~On(call'[c]) /\ \A d \in Calls : d # c => call'[d] = call[d]
      BY <2>1 DEF End, On, NoCall, TableTypes
    <2>. QED BY <1>2, <2>1, <2>2, <2>3 DEF Loads
  <1>. QED BY <1>5, <1>6, <1>7, <1>8, <1>9, <1>10, <1>11 DEF LogStep

LEMMA LogInit ==
    ASSUME Init
    PROVE  LogInv
  <1>. SUFFICES ASSUME view = "logs" PROVE LogParts(db, call, bounds.asked, pager, list) /\ knob = [i \in Ids |-> 0]
    BY DEF LogInv
  <1>. DEFINE m == Mounts(view)
              a == Reload("", ItemsPerPage)
              b == Load(0, ItemsPerPage)
  <1>1. /\ pager = FirstPager /\ knob = [i \in Ids |-> 0] /\ bounds.asked = 0 /\ DOMAIN m \subseteq Calls
        /\ \A c \in Calls : call[c] = IF c \in DOMAIN m THEN Sent(m[c], 0, pager, search) ELSE NoCall
    BY SlotsAssumption DEF Init
  <1>2. m = <<a, b>>
    BY DEF Mounts
  <1>3. a.op = "load" /\ Meets(a, pager) /\ b.op = "load" /\ Meets(b, pager)
    BY <1>1 DEF FirstPager, Meets, Reload, LoadOf, Load
  <1>. HIDE DEF m, a, b
  <1>4. 1 \in Calls /\ 1 \in DOMAIN m /\ \A c \in DOMAIN m : m[c].op = "load" /\ Meets(m[c], pager)
    <2>1. \A c \in DOMAIN m : m[c] = a \/ m[c] = b
      BY <1>2
    <2>2. 1 \in DOMAIN m
      BY <1>2
    <2>. QED BY <1>1, <1>3, <2>1, <2>2
  <1>5. \A c \in DOMAIN m : call[c].pc = "sent" /\ call[c].no = 0 /\ call[c].req = m[c]
    BY <1>1, SentHolds, FirstIs
  <1>6. \A c \in Calls : c \in DOMAIN m \/ (call[c].pc # "answered" /\ ~On(call[c]))
    BY <1>1 DEF NoCall, On
  <1>7. Numbered(call, bounds.asked) /\ Loads(call[1])
    BY <1>1, <1>4, <1>5, <1>6 DEF Numbered, Loads, On
  <1>. QED BY <1>1, <1>4, <1>5, <1>6, <1>7 DEF LogParts, Latest, Loads, Yes

LEMMA LogSound ==
    ASSUME TableTypes, LogInv, view = "logs"
    PROVE  ListSound
  <1>. DEFINE rows == list.rows
              ids == Lines(list.of, (pager.page - 1) * pager.size, pager.size)
  <1>. SUFFICES ASSUME Calm, ~Faulty PROVE Seen(rows) = AtServer(ids)
    BY DEF ListSound, Width
  <1>1. LogParts(db, call, bounds.asked, pager, list) /\ knob = [i \in Ids |-> 0]
    BY DEF LogInv, Calm, Fine
  <1>2. Fetched(db, ids, rows)
    <2>1. \A c \in Calls : ~Loads(call[c])
      BY DEF Calm, Quiet, Idle, Loads, On
    <2>. QED BY <1>1, <2>1, FoundIs DEF LogParts
  <1>3. rows \in Seq(Row)
    BY AboutOpen
  <1>4. DOMAIN rows = 1..Len(rows) /\ \A j \in 1..Len(rows) : rows[j].id \in Ids
    BY <1>3, RowsAre
  <1>5. DOMAIN ids = 1..Len(ids)
    <2>. DEFINE from == (pager.page - 1) * pager.size
    <2>1. from \in Nat /\ pager.size \in Nat
      <3>. DEFINE a == pager.page - 1
                  b == pager.size
      <3>1. a \in Nat /\ b \in Nat
        BY AboutOpen
      <3>. HIDE DEF a, b
      <3>2. a * b \in Nat
        BY <3>1
      <3>. QED BY <3>1, <3>2 DEF a, b
    <2>. HIDE DEF from
    <2>2. Lines(list.of, from, pager.size) \in Seq(Finds(list.of))
      BY <2>1, LinesAre
    <2>. QED BY <2>2, LenProperties DEF from
  <1>. HIDE DEF rows, ids
  <1>6. Len(rows) = Len(ids) /\ \A j \in 1..Len(ids) : rows[j].id = ids[j] /\ rows[j].status = db[ids[j]]
    BY <1>2 DEF Fetched
  <1>7. \A j \in 1..Len(ids) : Shown(rows[j]) = db[ids[j]]
    BY <1>1, <1>4, <1>6 DEF Shown
  <1>. QED BY <1>4, <1>5, <1>6, <1>7 DEF Seen, AtServer

\* Of all tables but the user's tokens: once nothing is under way and nothing
\* happened that a page does not cope with, the rows on the page are the first
\* of those the server finds for the query they were loaded by, each with the
\* status it has there, though pages were put behind older copies, statuses set
\* in place and rows taken out by handlers that saw the page as it was when they
\* asked; of the logs they are those of the page shown.
THEOREM TableListSound ==
    Spec => [](view # "mine" => ListSound)
  <1>. DEFINE Both == RowsInv /\ LogInv
  <1>1. Init => Both
    BY RowsInit, LogInit
  <1>2. Both /\ PageTypes /\ [Next]_listVars => Both'
    <2>1. ASSUME Both, PageTypes, UNCHANGED listVars
          PROVE  Both'
      BY <2>1 DEF listVars, RowsInv, Plainly, Fine, LogInv, Faulty
    <2>2. ASSUME Both, PageTypes, PageStep
          PROVE  Both'
      <3>1. RowsInv' /\ view' = view
        BY <2>2, PageShaped, RowsShaped DEF PageTypes, Shaped, Around
      <3>2. LogInv'
        BY <2>2, <3>1, LogPage DEF PageTypes, PageStep, LogInv
      <3>. QED BY <3>1, <3>2
    <2>3. ASSUME Both, PageTypes, Server
          PROVE  Both'
      BY <2>3, RowsServer, LogServer DEF PageTypes
    <2>. QED BY <2>1, <2>2, <2>3 DEF Next
  <1>3. Both /\ PageTypes => (view # "mine" => ListSound)
    BY RowsSound, LogSound DEF PageTypes, Plainly
  <1>. QED BY <1>1, <1>2, <1>3, PageTypesHold, PTL DEF Spec
=============================================================================
