--------------------------- MODULE FlagRules_proofs ----------------------------
(***************************************************************************)
(* Proofs about what is done to the settings of one flag: about RuleEdits, *)
(* for any requests, any rules and any lists to begin with; and about      *)
(* Promotion, for any flags, any variations and any choice of settings.    *)
(* Both with every interleaving of requests and other edits.               *)
(***************************************************************************)
EXTENDS RuleEdits, Promotion, FiniteSetTheorems, SequenceTheorems, TLAPS

--------------------------------------------------------------------------------
(* RuleEdits.                                                              *)
(***************************************************************************)
(* Induction on numbers, by way of a least counterexample.                 *)
(***************************************************************************)
LEMMA LeastNumber ==
    ASSUME NEW T \in SUBSET Nat, T # {}
    PROVE  \E n \in T : \A m \in T : n <= m
<1>1. \E n \in T : \A m \in T : ~(<<m, n>> \in OpToRel(<, Nat))
  BY NatLessThanWellFounded, WFMin
<1>2. \A m, n \in Nat : <<m, n>> \in OpToRel(<, Nat) <=> m < n
  BY DEF OpToRel
<1>3. PICK n \in T : \A m \in T : ~(m < n)
  BY <1>1, <1>2
<1>. QED  BY <1>3

LEMMA Induction ==
    ASSUME NEW N \in Nat, NEW Holds \in SUBSET (0..N), 0 \in Holds,
           \A n \in 1..N : n - 1 \in Holds => n \in Holds
    PROVE  Holds = 0..N
<1>1. SUFFICES ASSUME (0..N) \ Holds # {} PROVE FALSE
  OBVIOUS
<1>2. PICK n \in (0..N) \ Holds : \A m \in (0..N) \ Holds : n <= m
  <2>1. (0..N) \ Holds \in SUBSET Nat
    OBVIOUS
  <2>. QED  BY <1>1, <2>1, LeastNumber
<1>3. n \in 1..N /\ n - 1 \in 0..N
  BY <1>2
<1>4. n - 1 \notin Holds
  BY <1>2, <1>3
<1>5. ~(n <= n - 1)
  BY <1>3
<1>. QED  BY <1>2, <1>3, <1>4, <1>5

(* A loop that begins with a value of S and stays in S.                    *)
Runs(f, n, first, body) ==
    f[0] = first /\ \A i \in 1..n : f[i] = body[i][f[i - 1]]

LEMMA Loop ==
    ASSUME NEW N \in Nat, NEW S, NEW first \in S, NEW body \in [1..N -> [S -> S]]
    PROVE  \E f \in [0..N -> S] : Runs(f, N, first, body)
<1>. DEFINE Holds == {n \in 0..N : \E f \in [0..n -> S] : Runs(f, n, first, body)}
<1>1. 0 \in Holds
  <2>1. [i \in 0..0 |-> first] \in [0..0 -> S] /\ Runs([i \in 0..0 |-> first], 0, first, body)
    BY DEF Runs
  <2>2. \E f \in [0..0 -> S] : Runs(f, 0, first, body)
    BY <2>1
  <2>. QED  BY <2>2
<1>2. ASSUME NEW n \in 1..N, n - 1 \in Holds PROVE n \in Holds
  <2>1. PICK g \in [0..(n - 1) -> S] : Runs(g, n - 1, first, body)
    BY <1>2
  <2>. DEFINE f == [i \in 0..n |-> IF i = n THEN body[n][g[n - 1]] ELSE g[i]]
  <2>2. f \in [0..n -> S]
    OBVIOUS
  <2>3. f[0] = first
    BY <2>1 DEF Runs
  <2>4. ASSUME NEW i \in 1..n PROVE f[i] = body[i][f[i - 1]]
    <3>1. CASE i = n
      BY <3>1
    <3>2. CASE i # n
      <4>1. i \in 1..(n - 1) /\ i - 1 \in 0..(n - 1) /\ i - 1 # n
        BY <3>2
      <4>. QED  BY <2>1, <4>1, <3>2 DEF Runs
    <3>. QED  BY <3>1, <3>2
  <2>5. Runs(f, n, first, body)
    BY <2>3, <2>4 DEF Runs
  <2>6. \E h \in [0..n -> S] : Runs(h, n, first, body)
    <3>. HIDE DEF f
    <3>. QED  BY <2>2, <2>5
  <2>. QED  BY <2>6
<1>3. N \in Holds
  <2>. HIDE DEF Holds
  <2>1. Holds \in SUBSET (0..N)
    BY DEF Holds
  <2>. QED  BY <1>1, <1>2, <2>1, Induction
<1>. QED  BY <1>3

--------------------------------------------------------------------------------
(* The loop of Picked.                                                     *)
Picks(next, list, places) ==
    /\ next[0] = <<>>
    /\ \A n \in 1..Len(list) :
         next[n] = IF n \in places THEN Append(next[n - 1], list[n]) ELSE next[n - 1]

LEMMA PickedLoop ==
    ASSUME NEW R, NEW list \in Seq(R), NEW places
    PROVE  \E next \in [0..Len(list) -> Seq(R)] :
             Picked(list, places) = next[Len(list)] /\ Picks(next, list, places)
<1>. DEFINE N == Len(list)
            empty == <<>>
            Body(f) == [n \in 0..N |->
                          IF n = 0 THEN empty
                          ELSE IF n \in places THEN Append(f[n - 1], list[n])
                          ELSE f[n - 1]]
            next == CHOOSE f : f = Body(f)
<1>1. /\ N \in Nat /\ empty \in Seq(R)
      /\ \A n \in 1..N : list[n] \in R
      /\ \A s \in Seq(R), r \in R : Append(s, r) \in Seq(R)
  OBVIOUS
<1>2. Picked(list, places) = next[N]
  BY DEF Picked
<1>. HIDE DEF empty
<1>3. \E f : f = Body(f)
  <2>. DEFINE body == [n \in 1..N |-> [s \in Seq(R) |->
                         IF n \in places THEN Append(s, list[n]) ELSE s]]
              S == Seq(R)
  <2>1. body \in [1..N -> [S -> S]]
    BY <1>1
  <2>2. PICK f \in [0..N -> S] : Runs(f, N, empty, body)
    <3>1. empty \in S
      BY <1>1
    <3>. HIDE DEF body, N, S
    <3>. QED  BY <1>1, <2>1, <3>1, Loop
  <2>. HIDE DEF N
  <2>3. ASSUME NEW n \in 1..N
        PROVE  f[n] = IF n \in places THEN Append(f[n - 1], list[n]) ELSE f[n - 1]
    <3>1. n - 1 \in 0..N
      BY <1>1
    <3>2. f[n - 1] \in S /\ f[n] = body[n][f[n - 1]]
      BY <2>2, <3>1 DEF Runs
    <3>. QED  BY <3>2
  <2>4. f[0] = empty /\ \A n \in 0..N : n = 0 \/ n \in 1..N
    BY <1>1, <2>2 DEF Runs
  <2>5. \A n \in 0..N : f[n] = Body(f)[n]
    BY <2>3, <2>4
  <2>6. f = Body(f)
    BY <2>2, <2>5
  <2>. QED  BY <2>6
<1>4. next = Body(next)
  BY <1>3
<1>. HIDE DEF next, N
<1>5. next[0] = empty
  BY <1>1, <1>4
<1>6. ASSUME NEW n \in 1..N
      PROVE  next[n] = IF n \in places THEN Append(next[n - 1], list[n])
                       ELSE next[n - 1]
  <2>1. n \in 0..N /\ n # 0
    BY <1>1
  <2>. QED  BY <1>4, <2>1
<1>. DEFINE Holds == {n \in 0..N : next[n] \in Seq(R)}
<1>7. Holds = 0..N
  <2>1. 0 \in Holds
    BY <1>1, <1>5
  <2>2. ASSUME NEW n \in 1..N, n - 1 \in Holds PROVE n \in Holds
    <3>1. n \in 0..N /\ next[n - 1] \in Seq(R) /\ list[n] \in R
      BY <1>1, <2>2
    <3>2. next[n] \in Seq(R)
      BY <1>1, <1>6, <3>1
    <3>. QED  BY <3>1, <3>2
  <2>3. Holds \in SUBSET (0..N)
    OBVIOUS
  <2>. HIDE DEF Holds
  <2>. QED  BY <1>1, <2>1, <2>2, <2>3, Induction
<1>8. next \in [0..N -> Seq(R)]
  BY <1>4, <1>7
<1>. QED  BY <1>2, <1>5, <1>6, <1>8 DEF N, empty, Picks

(* What is picked are elements from those places.                          *)
LEMMA PickedFrom ==
    ASSUME NEW R, NEW list \in Seq(R), NEW places
    PROVE  /\ Picked(list, places) \in Seq(R)
           /\ \A k \in DOMAIN Picked(list, places) :
                \E i \in DOMAIN list : i \in places /\ Picked(list, places)[k] = list[i]
<1>. DEFINE N == Len(list)
            From(s) == \A k \in 1..Len(s) : \E i \in 1..N : i \in places /\ s[k] = list[i]
<1>1. PICK next \in [0..N -> Seq(R)] :
        Picked(list, places) = next[N] /\ Picks(next, list, places)
  BY PickedLoop
<1>2. N \in Nat /\ DOMAIN list = 1..N /\ (\A n \in 1..N : list[n] \in R)
  OBVIOUS
<1>. DEFINE Holds == {n \in 0..N : From(next[n])}
<1>3. Holds = 0..N
  <2>1. 0 \in Holds
    BY <1>1, <1>2 DEF Picks
  <2>2. ASSUME NEW n \in 1..N, n - 1 \in Holds PROVE n \in Holds
    <3>1. /\ n \in 0..N /\ n - 1 \in 0..N /\ next[n - 1] \in Seq(R)
          /\ From(next[n - 1]) /\ list[n] \in R
      BY <1>1, <1>2, <2>2
    <3>2. CASE n \in places
      <4>1. next[n] = Append(next[n - 1], list[n])
        BY <1>1, <3>2 DEF Picks
      <4>2. From(next[n])
        BY <3>1, <3>2, <4>1
      <4>. QED  BY <3>1, <4>2
    <3>3. CASE n \notin places
      <4>1. next[n] = next[n - 1]
        BY <1>1, <3>3 DEF Picks
      <4>. QED  BY <3>1, <4>1
    <3>. QED  BY <3>2, <3>3
  <2>3. Holds \in SUBSET (0..N)
    OBVIOUS
  <2>. HIDE DEF Holds
  <2>. QED  BY <1>2, <2>1, <2>2, <2>3, Induction
<1>. DEFINE picked == Picked(list, places)
<1>4. picked \in Seq(R) /\ From(picked)
  <2>1. N \in Holds
    BY <1>2, <1>3
  <2>. QED  BY <1>1, <1>2, <2>1
<1>. HIDE DEF picked
<1>5. DOMAIN picked = 1..Len(picked)
  BY <1>4
<1>6. \A k \in DOMAIN picked : \E i \in DOMAIN list : i \in places /\ picked[k] = list[i]
  BY <1>2, <1>4, <1>5
<1>. QED  BY <1>4, <1>6 DEF picked

LEMMA PickedAll ==
    ASSUME NEW R, NEW list \in Seq(R), NEW places, DOMAIN list \subseteq places
    PROVE  Picked(list, places) = list
<1>. DEFINE N == Len(list)
<1>1. PICK next \in [0..N -> Seq(R)] :
        Picked(list, places) = next[N] /\ Picks(next, list, places)
  BY PickedLoop
<1>2. N \in Nat /\ DOMAIN list = 1..N /\ (\A n \in 1..N : list[n] \in R)
  OBVIOUS
<1>. DEFINE Whole(n) == Len(next[n]) = n /\ \A k \in 1..n : next[n][k] = list[k]
            Holds == {n \in 0..N : Whole(n)}
<1>3. Holds = 0..N
  <2>1. 0 \in Holds
    BY <1>1, <1>2 DEF Picks
  <2>2. ASSUME NEW n \in 1..N, n - 1 \in Holds PROVE n \in Holds
    <3>1. /\ n \in 0..N /\ n - 1 \in 0..N /\ next[n - 1] \in Seq(R)
          /\ Whole(n - 1) /\ list[n] \in R
      BY <1>1, <1>2, <2>2
    <3>2. next[n] = Append(next[n - 1], list[n])
      BY <1>1, <1>2 DEF Picks
    <3>3. Whole(n)
      BY <3>1, <3>2
    <3>. QED  BY <3>1, <3>3
  <2>3. Holds \in SUBSET (0..N)
    OBVIOUS
  <2>. HIDE DEF Holds
  <2>. QED  BY <1>2, <2>1, <2>2, <2>3, Induction
<1>4. next[N] \in Seq(R) /\ Whole(N)
  <2>1. N \in Holds
    BY <1>2, <1>3
  <2>. QED  BY <1>1, <1>2, <2>1
<1>5. DOMAIN next[N] = 1..N /\ \A k \in 1..N : next[N][k] = list[k]
  BY <1>4
<1>6. next[N] = list
  BY <1>2, <1>4, <1>5, SeqEqual
<1>. QED  BY <1>1, <1>6

(* Elements from other places do not matter.                               *)
LEMMA PickedSame ==
    ASSUME NEW R, NEW list \in Seq(R), NEW other \in Seq(R), Len(other) = Len(list),
           NEW places, NEW others,
           \A n \in 1..Len(list) : n \in places <=> n \in others,
           \A n \in 1..Len(list) : n \in places => other[n] = list[n]
    PROVE  Picked(other, others) = Picked(list, places)
<1>. DEFINE N == Len(list)
<1>1. PICK next \in [0..N -> Seq(R)] :
        Picked(list, places) = next[N] /\ Picks(next, list, places)
  BY PickedLoop
<1>2. PICK also \in [0..N -> Seq(R)] :
        Picked(other, others) = also[N] /\ Picks(also, other, others)
  BY PickedLoop
<1>3. N \in Nat
  OBVIOUS
<1>. DEFINE Holds == {n \in 0..N : also[n] = next[n]}
<1>4. Holds = 0..N
  <2>1. 0 \in Holds
    BY <1>1, <1>2, <1>3 DEF Picks
  <2>2. ASSUME NEW n \in 1..N, n - 1 \in Holds PROVE n \in Holds
    <3>1. n \in 0..N /\ also[n - 1] = next[n - 1]
      BY <1>3, <2>2
    <3>2. also[n] = next[n]
      BY <1>1, <1>2, <3>1 DEF Picks
    <3>. QED  BY <3>1, <3>2
  <2>3. Holds \in SUBSET (0..N)
    OBVIOUS
  <2>. HIDE DEF Holds
  <2>. QED  BY <1>3, <2>1, <2>2, <2>3, Induction
<1>. QED
  <2>1. N \in Holds
    BY <1>3, <1>4
  <2>. QED  BY <1>1, <1>2, <2>1

(* A list with one more element after its first m.                         *)
WithOneMore(list, m, new) ==
    SubSeq(list, 1, m) \o <<new>> \o SubSeq(list, m + 1, Len(list))

HasOneMore(longer, list, m, new) ==
    /\ Len(longer) = Len(list) + 1
    /\ \A i \in 1..m : longer[i] = list[i]
    /\ longer[m + 1] = new
    /\ \A i \in (m + 1)..Len(list) : longer[i + 1] = list[i]

(* The places of the longer list that are those of the list.               *)
SamePlaces(others, places, list, m) ==
    /\ m + 1 \notin others
    /\ \A n \in 1..m : n \in others <=> n \in places
    /\ \A n \in (m + 1)..Len(list) : n + 1 \in others <=> n \in places

(* Nor does an element that is inserted, and not picked.                   *)
LEMMA PickedInserted ==
    ASSUME NEW R, NEW list \in Seq(R), NEW other \in Seq(R), NEW m \in 0..Len(list),
           NEW new, HasOneMore(other, list, m, new),
           NEW places, NEW others, SamePlaces(others, places, list, m)
    PROVE  Picked(other, others) = Picked(list, places)
<1>. DEFINE N == Len(list)
<1>1. PICK next \in [0..N -> Seq(R)] :
        Picked(list, places) = next[N] /\ Picks(next, list, places)
  BY PickedLoop
<1>2. PICK also \in [0..(N + 1) -> Seq(R)] :
        Picked(other, others) = also[N + 1] /\ Picks(also, other, others)
  <2>1. Len(other) = N + 1
    BY DEF HasOneMore
  <2>. QED  BY <2>1, PickedLoop
<1>3. N \in Nat /\ m \in 0..N /\ Len(other) = N + 1 /\ m + 1 \notin others
  BY DEF HasOneMore, SamePlaces
<1>. DEFINE Holds == {n \in 0..N : /\ n <= m => also[n] = next[n]
                                   /\ n >= m => also[n + 1] = next[n]}
<1>4. also[m + 1] = also[m]
  <2>1. m + 1 \in 1..Len(other) /\ (m + 1) - 1 = m
    BY <1>3
  <2>2. also[m + 1] = IF m + 1 \in others THEN Append(also[(m + 1) - 1], other[m + 1])
                      ELSE also[(m + 1) - 1]
    BY <1>2, <2>1 DEF Picks
  <2>. QED  BY <1>3, <2>1, <2>2
<1>5. Holds = 0..N
  <2>1. 0 \in Holds
    <3>1. also[0] = <<>> /\ next[0] = <<>>
      BY <1>1, <1>2 DEF Picks
    <3>. QED  BY <1>3, <1>4, <3>1
  <2>2. ASSUME NEW n \in 1..N, n - 1 \in Holds PROVE n \in Holds
    <3>1. n \in 0..N /\ n \in 1..Len(other) /\ n + 1 \in 1..Len(other) /\ (n + 1) - 1 = n
      BY <1>3
    <3>2. CASE n <= m
      <4>1. also[n - 1] = next[n - 1]
        BY <1>3, <2>2, <3>2
      <4>2. also[n] = next[n]
        <5>1. next[n] = IF n \in places THEN Append(next[n - 1], list[n]) ELSE next[n - 1]
          BY <1>1 DEF Picks
        <5>2. also[n] = IF n \in others THEN Append(also[n - 1], other[n]) ELSE also[n - 1]
          BY <1>2, <3>1 DEF Picks
        <5>3. (n \in others <=> n \in places) /\ other[n] = list[n]
          BY <1>3, <3>2 DEF HasOneMore, SamePlaces
        <5>. QED  BY <4>1, <5>1, <5>2, <5>3
      <4>. QED  BY <1>3, <1>4, <3>1, <3>2, <4>2
    <3>3. CASE n > m
      <4>1. also[n] = next[n - 1]
        BY <1>3, <2>2, <3>3
      <4>2. also[n + 1] = next[n]
        <5>1. next[n] = IF n \in places THEN Append(next[n - 1], list[n]) ELSE next[n - 1]
          BY <1>1 DEF Picks
        <5>2. also[n + 1] = IF n + 1 \in others THEN Append(also[n], other[n + 1])
                            ELSE also[n]
          BY <1>2, <3>1 DEF Picks
        <5>3. (n + 1 \in others <=> n \in places) /\ other[n + 1] = list[n]
          BY <1>3, <3>3 DEF HasOneMore, SamePlaces
        <5>. QED  BY <4>1, <5>1, <5>2, <5>3
      <4>. QED  BY <1>3, <3>1, <3>3, <4>2
    <3>. QED  BY <1>3, <3>2, <3>3
  <2>3. Holds \in SUBSET (0..N)
    OBVIOUS
  <2>. HIDE DEF Holds
  <2>. QED  BY <1>3, <2>1, <2>2, <2>3, Induction
<1>6. \A n \in Holds : n >= m => also[n + 1] = next[n]
  OBVIOUS
<1>7. also[N + 1] = next[N]
  <2>. HIDE DEF Holds, N
  <2>1. N \in Holds /\ N >= m
    BY <1>3, <1>5
  <2>. QED  BY <1>6, <2>1
<1>. QED  BY <1>1, <1>2, <1>7
--------------------------------------------------------------------------------
(* Names, and how often they occur.                                        *)
Name == RuleNames \cup {Unnamed}

LEMMA AtMostOnce ==
    ASSUME NEW n \in Nat, NEW names, DOMAIN names = 1..n, NEW x
    PROVE  Times(names, x) <= 1 <=>
             \A i, j \in 1..n : names[i] = x /\ names[j] = x => i = j
<1>. DEFINE Places == {i \in DOMAIN names : names[i] = x}
<1>1. IsFiniteSet(Places) /\ Cardinality(Places) \in Nat
  <2>1. IsFiniteSet(1..n)
    BY FS_Interval
  <2>. QED  BY <2>1, FS_Subset, FS_CardinalityType
<1>2. ASSUME Cardinality(Places) <= 1, NEW i \in Places, NEW j \in Places
      PROVE  i = j
  <2>1. Cardinality(Places) \in {0, 1}
    BY <1>1, <1>2
  <2>2. Cardinality(Places) = 1
    BY <1>1, <1>2, <2>1, FS_EmptySet
  <2>3. \E k : Places = {k}
    BY <1>1, <2>2, FS_Singleton
  <2>. QED  BY <2>3
<1>3. ASSUME \A i, j \in Places : i = j PROVE Cardinality(Places) <= 1
  <2>1. CASE Places = {}
    BY <2>1, FS_EmptySet
  <2>2. CASE Places # {}
    <3>1. \E k : Places = {k}
      BY <1>3, <2>2
    <3>2. Cardinality(Places) = 1
      BY <3>1, FS_Singleton
    <3>. QED  BY <3>2
  <2>. QED  BY <2>1, <2>2
<1>. QED  BY <1>2, <1>3 DEF Times

LEMMA NamesOfList ==
    ASSUME NEW list \in Seq(Rule)
    PROVE  /\ Names(list) \in Seq(Name) /\ Len(Names(list)) = Len(list)
           /\ DOMAIN Names(list) = 1..Len(list) /\ DOMAIN list = 1..Len(list)
           /\ \A i \in 1..Len(list) : /\ Names(list)[i] = list[i].name
                                      /\ list[i] \in Rule /\ list[i].name \in Name
<1>1. DOMAIN list = 1..Len(list) /\ Len(list) \in Nat
  OBVIOUS
<1>2. ASSUME NEW i \in 1..Len(list) PROVE list[i] \in Rule /\ list[i].name \in Name
  <2>1. list[i] \in Rule
    OBVIOUS
  <2>. QED  BY <2>1 DEF Rule, Name
<1>. DEFINE names == [i \in 1..Len(list) |-> list[i].name]
<1>3. Names(list) = names
  BY <1>1 DEF Names
<1>4. names \in Seq(Name) /\ Len(names) = Len(list)
  BY <1>1, <1>2
<1>. QED  BY <1>1, <1>2, <1>3, <1>4

(* What of rules and names that are all different.                         *)
LEMMA OnceEach ==
    ASSUME NEW list \in Seq(Rule), NEW x, Times(Names(list), x) <= 1,
           NEW i \in 1..Len(list), NEW j \in 1..Len(list),
           list[i].name = x, list[j].name = x
    PROVE  i = j
  BY NamesOfList, AtMostOnce

LEMMA FirstExists ==
    ASSUME NEW list \in Seq(Rule), NEW x \in NameSet(list)
    PROVE  \E i \in FirstNamed(list, x) : i \in DOMAIN list /\ list[i].name = x
<1>. DEFINE Places == {i \in 1..Len(list) : list[i].name = x}
<1>1. Places \in SUBSET Nat /\ Places # {}
  BY NamesOfList DEF NameSet
<1>2. PICK i \in Places : \A j \in Places : i <= j
  BY <1>1, LeastNumber
<1>3. i \in 1..Len(list) /\ list[i].name = x
  BY <1>2
<1>4. ASSUME NEW j \in 1..(i - 1) PROVE list[j].name # x
  BY <1>2, <1>3
<1>. QED  BY <1>3, <1>4, NamesOfList DEF FirstNamed

LEMMA LastExists ==
    ASSUME NEW list \in Seq(Rule), NEW x \in NameSet(list)
    PROVE  \E i \in DOMAIN list :
             list[i].name = x /\ \A j \in (i + 1)..Len(list) : list[j].name # x
<1>. DEFINE N == Len(list)
            Back == {k \in 0..N : N - k \in 1..N /\ list[N - k].name = x}
<1>1. N \in Nat /\ DOMAIN list = 1..N
  OBVIOUS
<1>2. PICK i0 \in 1..N : list[i0].name = x
  BY <1>1 DEF NameSet
<1>. HIDE DEF N
<1>3. Back \in SUBSET Nat /\ N - i0 \in Back
  <2>1. N - i0 \in 0..N /\ N - (N - i0) = i0
    BY <1>1
  <2>. QED  BY <1>1, <1>2, <2>1
<1>4. PICK k \in Back : \A l \in Back : k <= l
  BY <1>3, LeastNumber
<1>5. N - k \in 1..N /\ list[N - k].name = x /\ k \in 0..N
  BY <1>4
<1>6. ASSUME NEW j \in ((N - k) + 1)..N PROVE list[j].name # x
  <2>1. N - j \in 0..N /\ N - (N - j) = j /\ j \in 1..N /\ ~(k <= N - j)
    BY <1>1, <1>5
  <2>2. N - j \notin Back
    BY <1>4, <2>1
  <2>. QED  BY <2>1, <2>2
<1>. QED  BY <1>1, <1>5, <1>6 DEF N

--------------------------------------------------------------------------------
(* What the edits do to a list.                                            *)
Edit == [op : {"none", "save", "ramp", "clear", "add", "delete", "reorder"},
         name : Name, order : Seq(Name), position : Nat,
         page : Seq(Rule), compares : BOOLEAN]

(* save, ramp and clear change nothing but the first rule of that name.    *)
LEMMA RuleChanged ==
    ASSUME NEW list \in Seq(Rule), NEW e \in Editors, edit[e] \in Edit,
           edit[e].op \in {"save", "ramp", "clear"},
           NEW after, after = Mutated(list, e)
    PROVE  /\ after \in Seq(Rule) /\ Len(after) = Len(list)
           /\ \A i \in 1..Len(list) : after[i].name = list[i].name
           /\ \A i \in 1..Len(list) :
                i \notin FirstNamed(list, edit[e].name) => after[i] = list[i]
           /\ \A i \in 1..Len(list) :
                i \in FirstNamed(list, edit[e].name) =>
                  /\ edit[e].op = "save" => after[i].by = e
                  /\ edit[e].op = "ramp" => after[i].ramp = e
                  /\ edit[e].op = "clear" => after[i].by = e /\ after[i].ramp = Nowhere
<1>. DEFINE New(i) == IF edit[e].op = "save" THEN [list[i] EXCEPT !.by = e]
                      ELSE Ramped(list[i], e)
            Value(i) == IF i \in FirstNamed(list, edit[e].name) THEN New(i) ELSE list[i]
            changed == [i \in 1..Len(list) |-> Value(i)]
<1>1. Mutated(list, e) = changed
  <2>1. DOMAIN list = 1..Len(list)
    OBVIOUS
  <2>2. CASE edit[e].op = "save"
    BY <2>1, <2>2 DEF Mutated, ApplyRuleEdit
  <2>3. CASE edit[e].op \in {"ramp", "clear"}
    BY <2>1, <2>3 DEF Mutated, ApplyProgressive
  <2>. QED  BY <2>2, <2>3
<1>2. ASSUME NEW i \in 1..Len(list)
      PROVE  /\ New(i) \in Rule /\ New(i).name = list[i].name
             /\ edit[e].op = "save" => New(i).by = e
             /\ edit[e].op = "ramp" => New(i).ramp = e
             /\ edit[e].op = "clear" => New(i).by = e /\ New(i).ramp = Nowhere
  <2>1. list[i] \in Rule
    OBVIOUS
  <2>. QED  BY <2>1 DEF Rule, Ramped
<1>3. \A i \in 1..Len(list) : Value(i) \in Rule
  BY <1>2
<1>. HIDE DEF New, Value
<1>4. changed \in Seq(Rule) /\ Len(changed) = Len(list)
  BY <1>3
<1>5. \A i \in 1..Len(list) : changed[i] = Value(i)
  OBVIOUS
<1>. HIDE DEF changed
<1>6. after = changed
  BY <1>1
<1>7. \A i \in 1..Len(list) : after[i] = Value(i)
  BY <1>5, <1>6
<1>8. ASSUME NEW i \in 1..Len(list) PROVE after[i].name = list[i].name
  BY <1>2, <1>7 DEF Value
<1>. QED  BY <1>2, <1>4, <1>6, <1>7, <1>8 DEF Value

LEMMA Inserted ==
    ASSUME NEW R, NEW list \in Seq(R), NEW m \in 0..Len(list), NEW new \in R
    PROVE  /\ WithOneMore(list, m, new) \in Seq(R)
           /\ HasOneMore(WithOneMore(list, m, new), list, m, new)
<1>. DEFINE before == SubSeq(list, 1, m)
            after == SubSeq(list, m + 1, Len(list))
            front == before \o <<new>>
            inserted == front \o after
<1>1. WithOneMore(list, m, new) = inserted
  BY DEF WithOneMore
<1>2. m \in 0..Len(list) /\ new \in R /\ Len(list) \in Nat
  OBVIOUS
<1>3. /\ before \in Seq(R) /\ Len(before) = m
      /\ \A i \in 1..m : before[i] = list[i]
  BY <1>2
<1>4. /\ after \in Seq(R) /\ Len(after) = Len(list) - m
      /\ \A i \in (m + 1)..Len(list) : after[i - m] = list[i]
  BY <1>2
<1>5. /\ front \in Seq(R) /\ Len(front) = m + 1 /\ front[m + 1] = new
      /\ \A i \in 1..m : front[i] = list[i]
  <2>. HIDE DEF before
  <2>. QED  BY <1>2, <1>3
<1>6. /\ inserted \in Seq(R) /\ Len(inserted) = Len(list) + 1
      /\ \A i \in 1..(m + 1) : inserted[i] = front[i]
      /\ \A i \in (m + 1)..Len(list) : inserted[i + 1] = after[i - m]
  <2>1. inserted = front \o after
    OBVIOUS
  <2>. HIDE DEF front, after, inserted
  <2>2. /\ front \in Seq(R) /\ after \in Seq(R) /\ m \in Nat
        /\ Len(front) = m + 1 /\ Len(after) = Len(list) - m
    BY <1>2, <1>4, <1>5
  <2>3. inserted \in Seq(R) /\ Len(inserted) = Len(list) + 1
    <3>1. inserted \in Seq(R) /\ Len(inserted) = Len(front) + Len(after)
      BY <2>1, <2>2, ConcatProperties
    <3>. QED  BY <1>2, <2>2, <3>1
  <2>4. \A i \in 1..(m + 1) : inserted[i] = front[i]
    BY <1>2, <2>1, <2>2
  <2>5. ASSUME NEW i \in (m + 1)..Len(list) PROVE inserted[i + 1] = after[i - m]
    <3>1. /\ i + 1 \in (Len(front) + 1)..(Len(front) + Len(after))
          /\ (i + 1) - Len(front) = i - m
      BY <1>2, <2>2
    <3>. QED  BY <2>1, <2>2, <3>1
  <2>. QED  BY <2>3, <2>4, <2>5
<1>. HIDE DEF inserted, front, after, before
<1>7. ASSUME NEW i \in 1..m PROVE inserted[i] = list[i]
  <2>1. i \in 1..(m + 1)
    BY <1>2
  <2>. QED  BY <1>5, <1>6, <2>1
<1>8. inserted[m + 1] = new
  BY <1>2, <1>5, <1>6
<1>9. ASSUME NEW i \in (m + 1)..Len(list) PROVE inserted[i + 1] = list[i]
  BY <1>4, <1>6
<1>. QED  BY <1>1, <1>6, <1>7, <1>8, <1>9 DEF HasOneMore

LEMMA RuleInserted ==
    ASSUME NEW list \in Seq(Rule), NEW e \in Editors, edit[e] \in Edit,
           edit[e].op = "add", NEW m,
           m = IF edit[e].position < Len(list) THEN edit[e].position ELSE Len(list)
    PROVE  /\ m \in 0..Len(list) /\ Mutated(list, e) \in Seq(Rule)
           /\ HasOneMore(Mutated(list, e), list, m,
                         [name |-> edit[e].name, by |-> e, ramp |-> Nowhere])
<1>. DEFINE new == [name |-> edit[e].name, by |-> e, ramp |-> Nowhere]
<1>1. m \in 0..Len(list) /\ new \in Rule
  <2>1. edit[e].position \in Nat /\ edit[e].name \in Name /\ Len(list) \in Nat
    BY DEF Edit
  <2>. QED  BY <2>1 DEF Rule, Name
<1>2. Mutated(list, e) = WithOneMore(list, m, new)
  BY DEF Mutated, InsertRule, WithOneMore
<1>. HIDE DEF new
<1>3. Mutated(list, e) \in Seq(Rule) /\ HasOneMore(Mutated(list, e), list, m, new)
  BY <1>1, <1>2, Inserted
<1>. QED  BY <1>1, <1>3 DEF new

LEMMA RuleRemoved ==
    ASSUME NEW list \in Seq(Rule), NEW x
    PROVE  Without(list, x) \in Seq(Rule) /\ x \notin NameSet(Without(list, x))
<1>. DEFINE places == {i \in DOMAIN list : list[i].name # x}
<1>1. /\ Picked(list, places) \in Seq(Rule)
      /\ \A k \in DOMAIN Picked(list, places) :
           \E i \in DOMAIN list : i \in places /\ Picked(list, places)[k] = list[i]
  <2>. HIDE DEF places
  <2>. QED  BY PickedFrom
<1>2. \A k \in DOMAIN Picked(list, places) : Picked(list, places)[k].name # x
  BY <1>1
<1>. QED  BY <1>1, <1>2 DEF Without, NameSet

(* Of known names the map of reorderRules has one rule each.               *)
LEMMA RulesReordered ==
    ASSUME NEW list \in Seq(Rule), NEW order \in Seq(Name)
    PROVE  /\ Reorder(list, order) \in Seq(Rule)
           /\ (\A i \in DOMAIN order : order[i] \in NameSet(list)) =>
                /\ Len(Reorder(list, order)) = Len(order)
                /\ \A i \in 1..Len(order) : \E k \in 1..Len(list) :
                     Reorder(list, order)[i] = list[k] /\ list[k].name = order[i]
<1>. DEFINE ByName(x) == CHOOSE i \in DOMAIN list :
                           /\ list[i].name = x
                           /\ \A j \in (i + 1)..Len(list) : list[j].name # x
            places == {i \in DOMAIN order : order[i] \in NameSet(list)}
            known == Picked(order, places)
            ordered == [i \in 1..Len(known) |-> list[ByName(known[i])]]
<1>1. \A x \in NameSet(list) : ByName(x) \in 1..Len(list) /\ list[ByName(x)].name = x
  BY LastExists
<1>2. /\ known \in Seq(Name)
      /\ \A k \in DOMAIN known : \E i \in DOMAIN order : i \in places /\ known[k] = order[i]
  <2>. HIDE DEF places
  <2>. QED  BY PickedFrom
<1>3. \A k \in 1..Len(known) : known[k] \in NameSet(list)
  BY <1>2
<1>4. Reorder(list, order) = ordered
  <2>1. DOMAIN known = 1..Len(known)
    BY <1>2
  <2>. QED  BY <2>1 DEF Reorder
<1>5. (\A i \in DOMAIN order : order[i] \in NameSet(list)) => known = order
  BY PickedAll
<1>. HIDE DEF ByName, known
<1>6. ordered \in Seq(Rule) /\ Len(ordered) = Len(known)
  BY <1>1, <1>2, <1>3
<1>7. \A i \in 1..Len(known) : ordered[i] = list[ByName(known[i])]
  OBVIOUS
<1>. HIDE DEF ordered
<1>. QED  BY <1>1, <1>3, <1>4, <1>5, <1>6, <1>7

LEMMA MutatedType ==
    ASSUME NEW list \in Seq(Rule), NEW e \in Editors, edit[e] \in Edit,
           edit[e].op # "none"
    PROVE  Mutated(list, e) \in Seq(Rule)
<1>1. CASE edit[e].op \in {"save", "ramp", "clear"}
  BY <1>1, RuleChanged
<1>2. CASE edit[e].op = "add"
  BY <1>2, RuleInserted
<1>3. CASE edit[e].op = "delete"
  BY <1>3, RuleRemoved DEF Mutated, RemoveRule
<1>4. CASE edit[e].op = "reorder"
  <2>1. edit[e].order \in Seq(Name)
    BY DEF Edit
  <2>. QED  BY <1>4, <2>1, RulesReordered DEF Mutated, ReorderRules
<1>. QED  BY <1>1, <1>2, <1>3, <1>4 DEF Edit
--------------------------------------------------------------------------------
(***************************************************************************)
(* The inductive invariant: what a request asks for makes sense on its     *)
(* page, and the one that wrote last has been answered "saved".            *)
(***************************************************************************)
Sensible(e) ==
    LET page == edit[e].page
    IN  /\ edit[e].op # "none"
        /\ edit[e].op \in {"save", "ramp", "clear", "delete"} =>
             edit[e].name \in NameSet(page) \ {Unnamed}
        /\ edit[e].op = "add" =>
             edit[e].name \in RuleNames /\ edit[e].position \in 0..Len(page)
        /\ edit[e].op = "reorder" =>
             \E i \in 1..(Len(page) - 1) : edit[e].order = Swapped(Names(page), i)

Asked == \A e \in Editors : at[e] # "new" => Sensible(e)

Written == \A e \in Editors : last = e => at[e] = "saved"

RulesInv == RulesTypeOK /\ Asked /\ Written /\ SavedEditsAreThere

LEMMA EffectStays ==
    ASSUME NEW e \in Editors, rules' = rules, edit'[e] = edit[e]
    PROVE  InEffect(e)' <=> InEffect(e)
  BY DEF InEffect

(* The list of one neighbour before the other.                             *)
LEMMA SwappedNames ==
    ASSUME NEW names \in Seq(Name), NEW i \in 1..(Len(names) - 1)
    PROVE  /\ Swapped(names, i) \in Seq(Name)
           /\ Len(Swapped(names, i)) = Len(names)
           /\ \A j \in 1..Len(names) : \E k \in 1..Len(names) :
                Swapped(names, i)[j] = names[k]
           /\ \A k \in 1..Len(names) : \E j \in 1..Len(names) :
                Swapped(names, i)[j] = names[k]
<1>. DEFINE N == Len(names)
            Value(j) == CASE j = i -> names[i + 1]
                          [] j = i + 1 -> names[i]
                          [] OTHER -> names[j]
            swapped == [j \in 1..N |-> Value(j)]
<1>1. DOMAIN names = 1..N /\ N \in Nat /\ i \in 1..N /\ i + 1 \in 1..N /\ i + 1 # i
  OBVIOUS
<1>2. Swapped(names, i) = swapped
  BY <1>1 DEF Swapped
<1>3. /\ Value(i) = names[i + 1] /\ Value(i + 1) = names[i]
      /\ \A j \in 1..N : j # i /\ j # i + 1 => Value(j) = names[j]
  BY <1>1
<1>4. \A j \in 1..N : names[j] \in Name
  OBVIOUS
<1>. HIDE DEF Value, N
<1>5. \A j \in 1..N : Value(j) \in Name
  BY <1>1, <1>3, <1>4
<1>6. swapped \in Seq(Name) /\ Len(swapped) = N
  BY <1>1, <1>5
<1>7. \A j \in 1..N : \E k \in 1..N : swapped[j] = names[k]
  BY <1>1, <1>3
<1>8. \A k \in 1..N : \E j \in 1..N : swapped[j] = names[k]
  BY <1>1, <1>3
<1>. QED  BY <1>2, <1>6, <1>7, <1>8 DEF N

(* Lists that compare equal have the same names, in the same order.        *)
LEMMA SameNames ==
    ASSUME NEW list \in Seq(Rule), NEW page \in Seq(Rule), SameRules(list, page)
    PROVE  /\ Len(list) = Len(page)
           /\ \A i \in 1..Len(list) : /\ list[i].name = page[i].name
                                      /\ list[i].by = page[i].by
           /\ Names(list) = Names(page)
<1>1. /\ DOMAIN list = 1..Len(list) /\ DOMAIN page = 1..Len(page)
      /\ Len(list) \in Nat /\ Len(page) \in Nat
  OBVIOUS
<1>2. /\ DOMAIN Compared(list) = 1..Len(list) /\ DOMAIN Compared(page) = 1..Len(page)
      /\ Compared(list) = Compared(page)
      /\ \A i \in 1..Len(list) : Compared(list)[i] = <<list[i].name, list[i].by>>
      /\ \A i \in 1..Len(page) : Compared(page)[i] = <<page[i].name, page[i].by>>
  BY <1>1 DEF Compared, SameRules
<1>3. Len(list) = Len(page)
  <2>. DEFINE m == Len(list)  n == Len(page)
  <2>1. 1..m = 1..n /\ m \in Nat /\ n \in Nat
    BY <1>1, <1>2
  <2>. HIDE DEF m, n
  <2>2. (m \in 1..m => m \in 1..n) /\ (n \in 1..n => n \in 1..m)
    BY <2>1
  <2>3. m = n
    BY <2>1, <2>2
  <2>. QED  BY <2>3 DEF m, n
<1>4. \A i \in 1..Len(list) : list[i].name = page[i].name /\ list[i].by = page[i].by
  BY <1>2, <1>3
<1>. QED  BY <1>1, <1>3, <1>4 DEF Names

LEMMA RulesBegin == RulesInit => RulesInv
<1>. SUFFICES ASSUME RulesInit PROVE RulesInv
  OBVIOUS
<1>1. PICK names \in FirstRules : rules = AsWritten(names)
  BY DEF RulesInit
<1>2. /\ names \in Seq(Name) /\ DOMAIN names = 1..Len(names)
      /\ \A i \in 1..Len(names) : names[i] \in Name
  BY RulesAssumption DEF Name
<1>. DEFINE Plain(x) == [name |-> x, by |-> Nowhere, ramp |-> Nowhere]
            written == [i \in 1..Len(names) |-> Plain(names[i])]
<1>3. \A x \in Name : Plain(x) \in Rule /\ Plain(x).name = x
  BY DEF Rule, Name
<1>4. rules = written
  BY <1>1, <1>2 DEF AsWritten
<1>. HIDE DEF Plain
<1>5. rules \in Seq(Rule) /\ Names(rules) = names
  BY <1>2, <1>3, <1>4 DEF Names
<1>6. edit \in [Editors -> Edit]
  <2>1. NoEdit \in Edit
    BY DEF NoEdit, Edit, Name
  <2>. QED  BY <2>1 DEF RulesInit
<1>7. RulesTypeOK
  BY <1>1, <1>5, <1>6, RulesAssumption DEF RulesInit, RulesTypeOK, Edit, Name
<1>. QED
  BY <1>7, RulesAssumption
  DEF RulesInit, RulesInv, Asked, Written, SavedEditsAreThere

LEMMA AskStep ==
    ASSUME RulesInv, NEW e \in Editors, Ask(e)
    PROVE  RulesInv'
<1>1. /\ rules \in Seq(Rule) /\ edit \in [Editors -> Edit] /\ at[e] = "new"
      /\ UNCHANGED <<rules, elsewhere, last>> /\ at' = [at EXCEPT ![e] = "asked"]
  BY DEF RulesInv, RulesTypeOK, Ask, Edit, Name
<1>2. PICK new \in Edit :
        /\ edit' = [edit EXCEPT ![e] = new] /\ new.page = rules /\ new.op # "none"
        /\ new.op \in {"save", "ramp", "clear", "delete"} =>
             new.name \in NameSet(rules) \ {Unnamed}
        /\ new.op = "add" => new.name \in RuleNames /\ new.position \in 0..Len(rules)
        /\ new.op = "reorder" =>
             \E i \in 1..(Len(rules) - 1) : new.order = Swapped(Names(rules), i)
  <2>. DEFINE New(op, name, order, position, compares) ==
         [op |-> op, name |-> name, order |-> order, position |-> position,
          page |-> rules, compares |-> compares]
  <2>1. <<>> \in Seq(Name) /\ NameSet(rules) \subseteq Name /\ Len(rules) \in Nat
    BY <1>1, NamesOfList DEF NameSet
  <2>2. PICK compares \in BOOLEAN :
          \/ \E op \in {"save", "ramp", "clear", "delete"},
                name \in NameSet(rules) \ {Unnamed} :
               edit' = [edit EXCEPT ![e] = New(op, name, <<>>, 0, compares)]
          \/ \E name \in RuleNames \ NameSet(rules), position \in 0..Len(rules) :
               edit' = [edit EXCEPT ![e] = New("add", name, <<>>, position, compares)]
          \/ \E i \in 1..(Len(rules) - 1) :
               edit' = [edit EXCEPT ![e] =
                          New("reorder", Unnamed, Swapped(Names(rules), i), 0, compares)]
    BY DEF Ask, Asks
  <2>3. ASSUME NEW op \in {"save", "ramp", "clear", "delete"},
               NEW name \in NameSet(rules) \ {Unnamed},
               edit' = [edit EXCEPT ![e] = New(op, name, <<>>, 0, compares)]
        PROVE  New(op, name, <<>>, 0, compares) \in Edit
    BY <1>1, <2>1 DEF Edit
  <2>4. ASSUME NEW name \in RuleNames, NEW position \in 0..Len(rules)
        PROVE  New("add", name, <<>>, position, compares) \in Edit
    BY <1>1, <2>1 DEF Edit, Name
  <2>5. ASSUME NEW i \in 1..(Len(rules) - 1)
        PROVE  New("reorder", Unnamed, Swapped(Names(rules), i), 0, compares) \in Edit
    <3>1. Swapped(Names(rules), i) \in Seq(Name)
      BY <1>1, NamesOfList, SwappedNames
    <3>. QED  BY <1>1, <3>1 DEF Edit, Name
  <2>. QED  BY <2>2, <2>3, <2>4, <2>5
<1>3. edit' \in [Editors -> Edit] /\ edit'[e] = new
  BY <1>1, <1>2
<1>4. RulesTypeOK'
  BY <1>1, <1>3 DEF RulesInv, RulesTypeOK, Edit, Name
<1>5. Asked'
  <2>1. Sensible(e)'
    BY <1>1, <1>2, <1>3 DEF Sensible
  <2>2. ASSUME NEW f \in Editors, f # e, at'[f] # "new" PROVE Sensible(f)'
    <3>1. at[f] # "new" /\ edit'[f] = edit[f]
      BY <1>1, <1>2, <2>2 DEF RulesInv, RulesTypeOK
    <3>. QED  BY <3>1 DEF RulesInv, Asked, Sensible
  <2>. QED  BY <2>1, <2>2 DEF Asked
<1>6. \A f \in Editors : last = f => f # e
  BY <1>1 DEF RulesInv, Written
<1>7. Written'
  BY <1>1, <1>6 DEF RulesInv, Written, RulesTypeOK
<1>8. SavedEditsAreThere'
  <2>1. \A f \in Editors : last' = f => edit'[f] = edit[f]
    BY <1>1, <1>2, <1>6
  <2>. QED  BY <1>1, <2>1, EffectStays DEF RulesInv, SavedEditsAreThere
<1>. QED  BY <1>4, <1>5, <1>7, <1>8 DEF RulesInv

LEMMA CheckStep ==
    ASSUME RulesInv, NEW e \in Editors, Check(e)
    PROVE  RulesInv'
<1>1. /\ at[e] = "asked" /\ at' \in [Editors -> {"new", "asked", "checked", "refused", "conflict", "saved"}]
      /\ UNCHANGED <<rules, edit, elsewhere, last>>
      /\ \A f \in Editors : f # e => at'[f] = at[f]
  BY DEF Check, RulesInv, RulesTypeOK
<1>2. RulesTypeOK'
  BY <1>1 DEF RulesInv, RulesTypeOK
<1>3. Asked' /\ Written'
  BY <1>1 DEF RulesInv, Asked, Written, Sensible
<1>4. SavedEditsAreThere'
  BY <1>1, EffectStays DEF RulesInv, SavedEditsAreThere
<1>. QED  BY <1>2, <1>3, <1>4 DEF RulesInv

LEMMA ElsewhereStep ==
    ASSUME RulesInv, EditRulesElsewhere
    PROVE  RulesInv'
<1>1. /\ rules \in Seq(Rule) /\ elsewhere' \in 0..MaxElsewhere /\ last' = Nowhere
      /\ UNCHANGED <<edit, at>>
      /\ \A x \in RuleNames : Times(Names(rules), x) <= 1
  BY RulesAssumption DEF RulesInv, RulesTypeOK, EditRulesElsewhere
<1>. DEFINE Different(list) ==
       \A x \in RuleNames : \A i, j \in 1..Len(list) :
         list[i].name = x /\ list[j].name = x => i = j
<1>2. Different(rules)
  BY <1>1, OnceEach
<1>3. rules' \in Seq(Rule) /\ Different(rules')
  <2>1. ASSUME NEW x \in RuleNames \ NameSet(rules),
               rules' = Append(rules, [name |-> x, by |-> Nowhere, ramp |-> Nowhere])
        PROVE  rules' \in Seq(Rule) /\ Different(rules')
    <3>. DEFINE new == [name |-> x, by |-> Nowhere, ramp |-> Nowhere]
    <3>1. new \in Rule /\ new.name = x
      BY DEF Rule
    <3>. HIDE DEF new
    <3>2. /\ rules' \in Seq(Rule) /\ Len(rules') = Len(rules) + 1
          /\ rules'[Len(rules) + 1] = new
          /\ \A i \in 1..Len(rules) : rules'[i] = rules[i]
      BY <1>1, <2>1, <3>1 DEF new
    <3>3. \A i \in 1..Len(rules) : rules[i].name # x
      BY <1>1, NamesOfList DEF NameSet
    <3>4. \A i \in 1..Len(rules') : i = Len(rules) + 1 \/ i \in 1..Len(rules)
      BY <1>1, <3>2
    <3>. QED  BY <1>2, <3>1, <3>2, <3>3, <3>4
  <2>2. CASE rules # <<>> /\ rules' = Tail(rules)
    <3>1. /\ rules' \in Seq(Rule) /\ Len(rules') = Len(rules) - 1
          /\ \A i \in 1..Len(rules') : rules'[i] = rules[i + 1] /\ i + 1 \in 1..Len(rules)
      BY <1>1, <2>2
    <3>2. ASSUME NEW x \in RuleNames, NEW i \in 1..Len(rules'), NEW j \in 1..Len(rules'),
                 rules'[i].name = x, rules'[j].name = x
          PROVE  i = j
      <4>1. i + 1 = j + 1
        BY <1>2, <3>1, <3>2
      <4>. QED  BY <4>1
    <3>. QED  BY <3>1, <3>2
  <2>3. CASE /\ Len(rules) > 1
             /\ rules' = <<rules[2], rules[1]>> \o SubSeq(rules, 3, Len(rules))
    <3>. DEFINE rest == SubSeq(rules, 3, Len(rules))
                two == <<rules[2], rules[1]>>
    <3>1. /\ rest \in Seq(Rule) /\ Len(rest) = Len(rules) - 2
          /\ \A i \in 1..Len(rest) : rest[i] = rules[i + 2]
      BY <1>1, <2>3
    <3>2. two \in Seq(Rule) /\ Len(two) = 2 /\ two[1] = rules[2] /\ two[2] = rules[1]
      BY <1>1, <2>3
    <3>. HIDE DEF rest, two
    <3>3. /\ rules' \in Seq(Rule) /\ Len(rules') = Len(rules)
          /\ rules'[1] = rules[2] /\ rules'[2] = rules[1]
          /\ \A i \in 3..Len(rules) : rules'[i] = rules[i]
      <4>1. rules' = two \o rest
        BY <2>3 DEF two, rest
      <4>2. \A i \in 3..Len(rules) : i - 2 \in 1..Len(rest) /\ (i - 2) + 2 = i
        BY <1>1, <3>1
      <4>. QED  BY <1>1, <2>3, <3>1, <3>2, <4>1, <4>2
    <3>4. \A i \in 1..Len(rules) : i = 1 \/ i = 2 \/ i \in 3..Len(rules)
      BY <1>1
    <3>5. 1 \in 1..Len(rules) /\ 2 \in 1..Len(rules)
      BY <1>1, <2>3
    <3>. QED  BY <1>2, <3>3, <3>4, <3>5
  <2>. QED  BY <2>1, <2>2, <2>3 DEF EditRulesElsewhere
<1>4. \A x \in RuleNames : Times(Names(rules'), x) <= 1
  BY <1>3, NamesOfList, AtMostOnce
<1>5. RulesTypeOK'
  <2>1. Names(rules)' = Names(rules')
    BY DEF Names
  <2>. QED
    BY <1>1, <1>3, <1>4 DEF RulesInv, RulesTypeOK, Names
<1>6. Asked' /\ Written' /\ SavedEditsAreThere'
  BY <1>1, RulesAssumption DEF RulesInv, Asked, Sensible, Written, SavedEditsAreThere
<1>. QED  BY <1>5, <1>6 DEF RulesInv
--------------------------------------------------------------------------------
(* What a request that saves does.                                         *)
LEMMA RulesAreWritten ==
    ASSUME RulesInv, NEW e \in Editors, SaveRules(e), at'[e] = "saved"
    PROVE  /\ rules' = Mutated(rules, e) /\ last' = e /\ edit' = edit
           /\ rules' \in Seq(Rule) /\ Accepted(rules')
           /\ Sensible(e) /\ edit[e] \in Edit /\ rules \in Seq(Rule)
           /\ edit[e].compares => SameRules(rules, edit[e].page)
<1>1. /\ edit[e] \in Edit /\ rules \in Seq(Rule) /\ Sensible(e) /\ at[e] = "checked"
      /\ at \in [Editors -> {"new", "asked", "checked", "refused", "conflict", "saved"}]
  BY DEF RulesInv, RulesTypeOK, Asked, SaveRules, Edit, Name
<1>2. /\ rules' = Mutated(rules, e) /\ last' = e /\ edit' = edit
      /\ Accepted(Mutated(rules, e))
      /\ edit[e].compares => SameRules(rules, edit[e].page)
  BY <1>1 DEF SaveRules
<1>3. Mutated(rules, e) \in Seq(Rule)
  BY <1>1, MutatedType DEF Sensible
<1>. QED  BY <1>1, <1>2, <1>3

LEMMA SavedIsThere ==
    ASSUME RulesInv, NEW e \in Editors, SaveRules(e), at'[e] = "saved",
           edit[e].compares
    PROVE  InEffect(e)'
<1>. DEFINE page == edit[e].page
            name == edit[e].name
<1>1. /\ rules' = Mutated(rules, e) /\ edit' = edit
      /\ rules' \in Seq(Rule) /\ rules \in Seq(Rule) /\ page \in Seq(Rule)
      /\ Sensible(e) /\ edit[e] \in Edit
      /\ SameRules(rules, page)
  BY RulesAreWritten DEF Edit
<1>2. /\ Len(rules) = Len(page)
      /\ \A i \in 1..Len(rules) : /\ rules[i].name = page[i].name
                                  /\ rules[i].by = page[i].by
  BY <1>1, SameNames
<1>3. CASE edit[e].op \in {"save", "ramp", "clear"}
  <2>1. name \in NameSet(rules)
    <3>1. DOMAIN rules = 1..Len(rules) /\ DOMAIN page = 1..Len(page)
      BY <1>1
    <3>2. PICK k \in DOMAIN page : page[k].name = name
      BY <1>1, <1>3 DEF Sensible, NameSet
    <3>3. k \in DOMAIN rules /\ rules[k].name = name
      BY <1>2, <3>1, <3>2
    <3>. QED  BY <3>3 DEF NameSet
  <2>2. PICK i \in FirstNamed(rules, name) : i \in 1..Len(rules) /\ rules[i].name = name
    BY <1>1, <2>1, FirstExists
  <2>3. /\ i \in DOMAIN rules' /\ rules'[i].name = name
        /\ edit[e].op = "save" => rules'[i].by = e
        /\ edit[e].op = "ramp" => rules'[i].ramp = e
        /\ edit[e].op = "clear" => rules'[i].by = e /\ rules'[i].ramp = Nowhere
    <3>1. DOMAIN rules' = 1..Len(rules')
      BY <1>1
    <3>2. /\ Len(rules') = Len(rules) /\ rules'[i].name = rules[i].name
          /\ edit[e].op = "save" => rules'[i].by = e
          /\ edit[e].op = "ramp" => rules'[i].ramp = e
          /\ edit[e].op = "clear" => rules'[i].by = e /\ rules'[i].ramp = Nowhere
      BY <1>1, <1>3, <2>2, RuleChanged
    <3>. QED  BY <2>2, <3>1, <3>2
  <2>. QED  BY <1>1, <1>3, <2>3 DEF InEffect
<1>4. CASE edit[e].op = "add"
  <2>. DEFINE before == SubSeq(page, 1, edit[e].position)
              n == Len(before)
              first == SubSeq(rules', 1, n)
  <2>1. edit[e].position \in 0..Len(page)
    BY <1>1, <1>4 DEF Sensible
  <2>2. /\ n = edit[e].position /\ n \in Nat /\ n \in 0..Len(rules)
        /\ DOMAIN before = 1..n
        /\ \A i \in 1..n : before[i] = page[i]
    BY <1>1, <1>2, <2>1
  <2>. HIDE DEF before, n
  <2>3. /\ Len(rules') = Len(rules) + 1
        /\ \A i \in 1..n : rules'[i] = rules[i]
        /\ rules'[n + 1] = [name |-> name, by |-> e, ramp |-> Nowhere]
    <3>1. (IF n < Len(rules) THEN n ELSE Len(rules)) = n
      BY <1>1, <2>2
    <3>2. n = IF edit[e].position < Len(rules) THEN edit[e].position ELSE Len(rules)
      BY <2>2, <3>1
    <3>. QED  BY <1>1, <1>4, <3>2, RuleInserted DEF HasOneMore
  <2>4. DOMAIN first = 1..n /\ \A i \in 1..n : first[i] = rules'[i]
    <3>1. n \in 0..Len(rules') /\ Len(rules) \in Nat
      BY <1>1, <2>2, <2>3
    <3>. QED  BY <1>1, <3>1
  <2>. HIDE DEF first
  <2>5. Compared(first) = Compared(before)
    <3>1. \A i \in 1..n : first[i].name = before[i].name /\ first[i].by = before[i].by
      <4>1. \A i \in 1..n : i \in 1..Len(rules)
        BY <1>1, <2>2
      <4>. QED  BY <1>2, <2>2, <2>3, <2>4, <4>1
    <3>. QED  BY <2>2, <2>4, <3>1 DEF Compared
  <2>6. rules'[n + 1].by = e
    BY <2>3
  <2>. QED  BY <1>1, <1>4, <2>5, <2>6 DEF InEffect, before, n, first
<1>5. CASE edit[e].op = "delete"
  <2>1. name \notin NameSet(rules')
    BY <1>1, <1>5, RuleRemoved DEF Mutated, RemoveRule
  <2>. QED  BY <1>1, <1>5, <2>1 DEF InEffect, NameSet
<1>6. CASE edit[e].op = "reorder"
  BY <1>1, <1>6 DEF InEffect
<1>. QED  BY <1>1, <1>3, <1>4, <1>5, <1>6 DEF Sensible, Edit

LEMMA SaveStep ==
    ASSUME RulesInv, NEW e \in Editors, SaveRules(e)
    PROVE  RulesInv'
<1>1. /\ at[e] = "checked" /\ UNCHANGED <<edit, elsewhere>>
      /\ at' \in [Editors -> {"new", "asked", "checked", "refused", "conflict", "saved"}]
      /\ \A f \in Editors : f # e => at'[f] = at[f]
      /\ at'[e] \in {"saved", "conflict", "refused"}
  BY DEF SaveRules, RulesInv, RulesTypeOK
<1>2. CASE at'[e] = "saved"
  <2>1. /\ rules' \in Seq(Rule) /\ Accepted(rules') /\ last' = e
    BY <1>2, RulesAreWritten
  <2>2. RulesTypeOK'
    BY <1>1, <2>1 DEF RulesInv, RulesTypeOK, Accepted, Names
  <2>3. Asked' /\ Written'
    BY <1>1, <1>2, <2>1 DEF RulesInv, Asked, Sensible, Written
  <2>4. SavedEditsAreThere'
    BY <1>1, <1>2, <2>1, SavedIsThere DEF SavedEditsAreThere
  <2>. QED  BY <2>2, <2>3, <2>4 DEF RulesInv
<1>3. CASE at'[e] # "saved"
  <2>1. rules' = rules /\ last' = last
    BY <1>1, <1>3 DEF SaveRules, RulesInv, RulesTypeOK
  <2>2. RulesTypeOK'
    BY <1>1, <2>1 DEF RulesInv, RulesTypeOK, Names
  <2>3. Asked' /\ Written'
    BY <1>1, <2>1 DEF RulesInv, Asked, Sensible, Written
  <2>4. SavedEditsAreThere'
    BY <1>1, <2>1, EffectStays DEF RulesInv, SavedEditsAreThere
  <2>. QED  BY <2>2, <2>3, <2>4 DEF RulesInv
<1>. QED  BY <1>2, <1>3

LEMMA RulesStep == RulesInv /\ [RulesNext]_rulesVars => RulesInv'
<1>1. ASSUME RulesInv, UNCHANGED rulesVars PROVE RulesInv'
  BY <1>1, EffectStays
  DEF rulesVars, RulesInv, RulesTypeOK, Names, Asked, Sensible, Written,
      SavedEditsAreThere
<1>. QED  BY <1>1, AskStep, CheckStep, SaveStep, ElsewhereStep DEF RulesNext

(* Only the request itself comes to be answered "saved", by its write.     *)
LEMMA SavesIsSave ==
    ASSUME RulesInv, [RulesNext]_rulesVars, NEW e \in Editors, Saves(e)
    PROVE  SaveRules(e) /\ at'[e] = "saved"
<1>1. at \in [Editors -> {"new", "asked", "checked", "refused", "conflict", "saved"}]
  BY DEF RulesInv, RulesTypeOK
<1>. QED
  BY <1>1 DEF Saves, RulesNext, Ask, Check, SaveRules, EditRulesElsewhere, rulesVars

LEMMA OthersUntouched ==
    ASSUME RulesInv, [RulesNext]_rulesVars, NEW e \in Editors, Saves(e),
           edit[e].op # "reorder"
    PROVE  Without(rules', edit[e].name) = Without(rules, edit[e].name)
<1>. DEFINE name == edit[e].name
            Places(list) == {i \in DOMAIN list : list[i].name # name}
<1>1. /\ rules' = Mutated(rules, e) /\ rules' \in Seq(Rule) /\ rules \in Seq(Rule)
      /\ Sensible(e) /\ edit[e] \in Edit
  BY SavesIsSave, RulesAreWritten
<1>2. DOMAIN rules' = 1..Len(rules') /\ DOMAIN rules = 1..Len(rules)
  BY <1>1
<1>3. CASE edit[e].op \in {"save", "ramp", "clear"}
  <2>1. /\ Len(rules') = Len(rules)
        /\ \A i \in 1..Len(rules) : /\ rules'[i].name = rules[i].name
                                    /\ rules[i].name # name => rules'[i] = rules[i]
    <3>1. /\ Len(rules') = Len(rules)
          /\ \A i \in 1..Len(rules) : rules'[i].name = rules[i].name
          /\ \A i \in 1..Len(rules) :
               i \notin FirstNamed(rules, edit[e].name) => rules'[i] = rules[i]
      BY <1>1, <1>3, RuleChanged
    <3>2. \A i \in FirstNamed(rules, edit[e].name) : rules[i].name = name
      BY DEF FirstNamed
    <3>. QED  BY <3>1, <3>2
  <2>2. /\ \A i \in 1..Len(rules) : i \in Places(rules) <=> i \in Places(rules')
        /\ \A i \in 1..Len(rules) : i \in Places(rules) => rules'[i] = rules[i]
    BY <1>2, <2>1
  <2>. HIDE DEF Places
  <2>3. Picked(rules', Places(rules')) = Picked(rules, Places(rules))
    BY <1>1, <2>1, <2>2, PickedSame
  <2>. QED  BY <2>3 DEF Without, Places
<1>4. CASE edit[e].op = "add"
  <2>. DEFINE m == IF edit[e].position < Len(rules) THEN edit[e].position ELSE Len(rules)
              new == [name |-> name, by |-> e, ramp |-> Nowhere]
  <2>1. m \in 0..Len(rules) /\ HasOneMore(rules', rules, m, new)
    <3>1. m = IF edit[e].position < Len(rules) THEN edit[e].position ELSE Len(rules)
      OBVIOUS
    <3>. HIDE DEF m
    <3>. QED  BY <1>1, <1>4, <3>1, RuleInserted
  <2>2. new.name = name
    OBVIOUS
  <2>. HIDE DEF m, new
  <2>3. SamePlaces(Places(rules'), Places(rules), rules, m)
    <3>1. m + 1 \notin Places(rules')
      BY <2>1, <2>2 DEF HasOneMore
    <3>2. ASSUME NEW i \in 1..m PROVE i \in Places(rules') <=> i \in Places(rules)
      <4>1. i \in DOMAIN rules /\ i \in DOMAIN rules' /\ rules'[i] = rules[i]
        BY <1>1, <1>2, <2>1 DEF HasOneMore
      <4>. QED  BY <4>1
    <3>3. ASSUME NEW i \in (m + 1)..Len(rules)
          PROVE  i + 1 \in Places(rules') <=> i \in Places(rules)
      <4>1. i \in DOMAIN rules /\ i + 1 \in DOMAIN rules' /\ rules'[i + 1] = rules[i]
        BY <1>1, <1>2, <2>1 DEF HasOneMore
      <4>. QED  BY <4>1
    <3>. QED  BY <3>1, <3>2, <3>3 DEF SamePlaces
  <2>. HIDE DEF Places
  <2>4. Picked(rules', Places(rules')) = Picked(rules, Places(rules))
    BY <1>1, <2>1, <2>3, PickedInserted
  <2>. QED  BY <2>4 DEF Without, Places
<1>5. CASE edit[e].op = "delete"
  <2>1. rules' = Without(rules, name)
    BY <1>1, <1>5 DEF Mutated, RemoveRule
  <2>2. DOMAIN rules' \subseteq Places(rules')
    BY <1>1, <2>1, RuleRemoved DEF NameSet
  <2>. HIDE DEF Places
  <2>3. Picked(rules', Places(rules')) = rules'
    BY <1>1, <2>2, PickedAll
  <2>. QED  BY <2>1, <2>3 DEF Without, Places
<1>. QED  BY <1>1, <1>3, <1>4, <1>5 DEF Sensible, Edit

LEMMA RulesKept ==
    ASSUME RulesInv, [RulesNext]_rulesVars, NEW e \in Editors, Saves(e),
           edit[e].op = "reorder", edit[e].compares,
           Times(Names(rules), Unnamed) <= 1
    PROVE  /\ Names(rules') = edit[e].order
           /\ \A rule \in Rule : rule \in {rules[i] : i \in DOMAIN rules}
                                   <=> rule \in {rules'[i] : i \in DOMAIN rules'}
<1>. DEFINE page == edit[e].page
            order == edit[e].order
            N == Len(rules)
<1>1. /\ rules' = Reorder(rules, order) /\ rules' \in Seq(Rule) /\ rules \in Seq(Rule)
      /\ page \in Seq(Rule) /\ order \in Seq(Name) /\ Sensible(e)
      /\ SameRules(rules, page)
  BY SavesIsSave, RulesAreWritten DEF Mutated, ReorderRules, Edit
<1>2. N = Len(page) /\ Names(rules) = Names(page)
  BY <1>1, SameNames
<1>3. PICK s \in 1..(N - 1) : order = Swapped(Names(rules), s)
  BY <1>1, <1>2 DEF Sensible
<1>4. /\ Len(order) = N /\ N \in Nat /\ DOMAIN order = 1..N
      /\ \A j \in 1..N : \E k \in 1..N : order[j] = rules[k].name
      /\ \A k \in 1..N : \E j \in 1..N : order[j] = rules[k].name
  <2>1. /\ Names(rules) \in Seq(Name) /\ Len(Names(rules)) = N /\ N \in Nat
        /\ \A k \in 1..N : Names(rules)[k] = rules[k].name
    BY <1>1, NamesOfList
  <2>. DEFINE names == Names(rules)
  <2>2. order = Swapped(names, s) /\ s \in 1..(Len(names) - 1)
    BY <1>3, <2>1
  <2>. HIDE DEF order, names, N
  <2>3. /\ Len(order) = Len(names)
        /\ \A j \in 1..Len(names) : \E k \in 1..Len(names) : order[j] = names[k]
        /\ \A k \in 1..Len(names) : \E j \in 1..Len(names) : order[j] = names[k]
    BY <2>1, <2>2, SwappedNames DEF names
  <2>4. Len(names) = N /\ N \in Nat /\ \A k \in 1..N : names[k] = rules[k].name
    BY <2>1 DEF names
  <2>5. DOMAIN order = 1..N /\ Len(order) = N
    BY <1>1, <2>3, <2>4
  <2>6. ASSUME NEW j \in 1..N PROVE \E k \in 1..N : order[j] = rules[k].name
    <3>1. PICK k \in 1..N : order[j] = names[k]
      BY <2>3, <2>4
    <3>2. names[k] = rules[k].name
      BY <2>4
    <3>. QED  BY <3>1, <3>2
  <2>7. ASSUME NEW k \in 1..N PROVE \E j \in 1..N : order[j] = rules[k].name
    <3>1. PICK j \in 1..N : order[j] = names[k]
      BY <2>3, <2>4
    <3>2. names[k] = rules[k].name
      BY <2>4
    <3>. QED  BY <3>1, <3>2
  <2>. QED  BY <2>4, <2>5, <2>6, <2>7
<1>. HIDE DEF order, page
<1>5. \A j \in DOMAIN order : order[j] \in NameSet(rules)
  <2>1. DOMAIN rules = 1..N
    BY <1>1
  <2>. HIDE DEF N
  <2>. QED  BY <1>4, <2>1 DEF NameSet
<1>6. /\ Len(rules') = N
      /\ \A j \in 1..N : \E k \in 1..N : rules'[j] = rules[k] /\ rules[k].name = order[j]
  <2>1. /\ Len(Reorder(rules, order)) = Len(order)
        /\ \A j \in 1..Len(order) : \E k \in 1..Len(rules) :
             Reorder(rules, order)[j] = rules[k] /\ rules[k].name = order[j]
    BY <1>1, <1>5, RulesReordered
  <2>. QED  BY <1>1, <1>4, <2>1
<1>7. Names(rules') = order
  <2>1. /\ Names(rules') \in Seq(Name) /\ Len(Names(rules')) = N
        /\ \A j \in 1..N : Names(rules')[j] = rules'[j].name
    BY <1>1, <1>6, NamesOfList
  <2>2. \A j \in 1..N : Names(rules')[j] = order[j]
    BY <1>6, <2>1
  <2>. QED  BY <1>1, <1>4, <2>1, <2>2, SeqEqual
<1>8. \A j, k \in 1..N : rules[j].name = rules[k].name => j = k
  <2>1. \A x \in Name : Times(Names(rules), x) <= 1
    BY DEF Name, RulesInv, RulesTypeOK
  <2>. QED  BY <1>1, <2>1, OnceEach, NamesOfList
<1>9. \A k \in 1..N : \E j \in 1..N : rules'[j] = rules[k]
  <2>. HIDE DEF N
  <2>1. TAKE k \in 1..N
  <2>2. PICK j \in 1..N : order[j] = rules[k].name
    BY <1>4
  <2>3. PICK i \in 1..N : rules'[j] = rules[i] /\ rules[i].name = order[j]
    BY <1>6
  <2>4. i = k
    BY <1>8, <2>2, <2>3
  <2>. QED  BY <2>3, <2>4
<1>10. DOMAIN rules = 1..N /\ DOMAIN rules' = 1..N
  BY <1>1, <1>6
<1>. HIDE DEF N
<1>11. ASSUME NEW rule \in Rule
       PROVE  rule \in {rules[i] : i \in DOMAIN rules}
                <=> rule \in {rules'[i] : i \in DOMAIN rules'}
  <2>1. ASSUME NEW i \in 1..N, rule = rules[i]
        PROVE  \E j \in 1..N : rule = rules'[j]
    BY <1>9, <2>1
  <2>2. ASSUME NEW j \in 1..N, rule = rules'[j]
        PROVE  \E i \in 1..N : rule = rules[i]
    BY <1>6, <2>2
  <2>. QED  BY <1>10, <2>1, <2>2
<1>. QED  BY <1>7, <1>11 DEF order

--------------------------------------------------------------------------------
(***************************************************************************)
(* In every reachable state the list has the right type and no name twice, *)
(* every request makes sense on the page it comes from, and the edit that  *)
(* was saved last is there.                                                *)
(***************************************************************************)
THEOREM RulesInvariance == RulesSpec => []RulesInv
  BY RulesBegin, RulesStep, PTL DEF RulesSpec

(* The rules keep their type, and no two of them the same name: what GOFF  *)
(* accepts is all that Save writes (Adapter.Validate).                     *)
THEOREM RulesTypes == RulesSpec => []RulesTypeOK
<1>1. RulesInv => RulesTypeOK
  BY DEF RulesInv
<1>. QED  BY <1>1, RulesInvariance, PTL

(* An edit answered as saved is in the list that was written, and an added *)
(* rule where the user put it, if the page was compared (sameFlagState),   *)
(* whatever was done to the list between the page and the write.           *)
THEOREM SavedEditsAlwaysThere == RulesSpec => []SavedEditsAreThere
<1>1. RulesInv => SavedEditsAreThere
  BY DEF RulesInv
<1>. QED  BY <1>1, RulesInvariance, PTL

(* A request about one rule leaves all other rules and their order as they *)
(* are (applyRuleEdit, applyProgressive, insertRule, removeRule), compared *)
(* or not, and however old its page.                                       *)
THEOREM OneRuleTouched == RulesSpec => EditsTouchOneRule
<1>1. ASSUME RulesInv, [RulesNext]_rulesVars
      PROVE  \A e \in Editors : Saves(e) /\ edit[e].op # "reorder" =>
               Without(rules', edit[e].name) = Without(rules, edit[e].name)
  BY <1>1, OthersUntouched
<1>. QED  BY <1>1, RulesInvariance, PTL DEF RulesSpec, EditsTouchOneRule

(* A reorder that is compared with its page writes the order the user saw, *)
(* with the same rules in it (reorderRules), if no two are without a name. *)
THEOREM RulesKeptByReorders == RulesSpec => ReordersKeepRules
<1>1. ASSUME RulesInv, [RulesNext]_rulesVars
      PROVE  \A e \in Editors :
               Saves(e) /\ edit[e].op = "reorder" /\ edit[e].compares
                 /\ Times(Names(rules), Unnamed) <= 1 =>
                   /\ Names(rules') = edit[e].order
                   /\ \A rule \in Rule :
                        rule \in {rules[i] : i \in DOMAIN rules}
                          <=> rule \in {rules'[i] : i \in DOMAIN rules'}
  BY <1>1, RulesKept
<1>. QED  BY <1>1, RulesInvariance, PTL DEF RulesSpec, ReordersKeepRules

--------------------------------------------------------------------------------
(* Promotion.                                                              *)
(***************************************************************************)
(* What the operators on flags return.                                     *)
(***************************************************************************)
LEMMA MergedMetadataFields ==
    ASSUME NEW from, NEW to, from = [part \in {"team", "note"} |-> from[part]]
    PROVE  LET merged == MergedMetadata(from, to)
           IN  /\ merged = [part \in {"team", "note"} |-> merged[part]]
               /\ merged.team = to.team /\ merged.note = from.note
  BY DEF MergedMetadata

LEMMA PromotedFields ==
    ASSUME NEW to, NEW from, NEW fields, NEW moment, IsFlag(to),
           NEW result, result = Promoted(to, from, fields, moment)
    PROVE  /\ result = [part \in FlagParts |-> result[part]]
           /\ result.type = to.type
           /\ result.enabled = IF "enabled" \in fields THEN from.enabled ELSE to.enabled
           /\ result.variations = IF "variations" \in fields THEN from.variations
                                  ELSE to.variations
           /\ result.default = IF "default" \in fields THEN from.default ELSE to.default
           /\ result.rule = IF "rules" \in fields THEN FrozenRule(from.rule, moment)
                            ELSE to.rule
           /\ result.bucketingKey = IF "bucketingKey" \in fields THEN from.bucketingKey
                                    ELSE to.bucketingKey
           /\ result.metadata = IF "metadata" \in fields
                                  THEN MergedMetadata(from.metadata, to.metadata)
                                  ELSE to.metadata
  BY DEF Promoted, IsFlag, FlagParts

LEMMA PromotedIsFlag ==
    ASSUME NEW to, NEW from, NEW fields, NEW moment, IsFlag(to), IsFlag(from)
    PROVE  IsFlag(Promoted(to, from, fields, moment))
<1> DEFINE result == Promoted(to, from, fields, moment)
<1>1. /\ result = [part \in FlagParts |-> result[part]]
      /\ \/ result.metadata = MergedMetadata(from.metadata, to.metadata)
         \/ result.metadata = to.metadata
  BY PromotedFields
<1>2. result.metadata = [part \in {"team", "note"} |-> result.metadata[part]]
  BY <1>1, MergedMetadataFields DEF IsFlag
<1> QED
  BY <1>1, <1>2 DEF IsFlag

LEMMA CreatedIsFlag ==
    ASSUME NEW from, Valid(from), from.default.variation # NoVariation
    PROVE  IsFlag(Created(from)) /\ Valid(Created(from)) /\ ~Created(from).enabled
<1>1. IsFlag(Created(from)) /\ ~Created(from).enabled
  BY DEF Created, IsFlag, FlagParts
<1>2. /\ from.variations # {}
      /\ from.default.variation \in from.variations
  BY DEF Valid, ValidOutcome, Serves
<1>3. ValidOutcome(Single(from.default.variation), from.variations)
  BY <1>2 DEF ValidOutcome, Serves, Single
<1> QED
  BY <1>1, <1>2, <1>3 DEF Created, Valid

--------------------------------------------------------------------------------
(***************************************************************************)
(* The types, and that whatever is saved is valid; with what the model's   *)
(* tables of promoters are.                                                *)
(***************************************************************************)
Tables ==
    /\ promotion = [p \in Promoters |-> promotion[p]]
    /\ plan = [p \in Promoters |-> plan[p]]

PromotionInv == PromotionTypeOK /\ Tables

LEMMA PromotionBegins == PromotionInit => PromotionInv
<1> SUFFICES ASSUME PromotionInit PROVE PromotionInv
  OBVIOUS
<1>1. target # Missing => IsFlag(target) /\ Valid(target)
  BY PromotionAssumption DEF PromotionInit
<1>2. Tables
  BY DEF PromotionInit, Tables
<1> QED
  BY <1>1, <1>2, PromotionAssumption DEF PromotionInit, PromotionInv, PromotionTypeOK

LEMMA PromotionStep == PromotionInv /\ [PromotionNext]_promotionVars => PromotionInv'
<1> SUFFICES ASSUME PromotionInv, [PromotionNext]_promotionVars PROVE PromotionInv'
  OBVIOUS
<1>0. /\ FieldChoices \subseteq SUBSET Fields
      /\ \A f \in SourceFlags \cup TargetFlags : IsFlag(f) /\ Valid(f)
      /\ MaxPromotionEdits \in Nat /\ MaxPromotionTime \in Nat
  BY PromotionAssumption
<1> USE <1>0 DEF PromotionInv, PromotionTypeOK
<1>1. ASSUME NEW p \in Promoters, AskPromotion(p) PROVE PromotionInv'
  <2>1. PICK fields \in FieldChoices, compares \in BOOLEAN :
          promotion' = [promotion EXCEPT ![p] = [fields |-> fields, compares |-> compares,
                                                 page |-> target, asked |-> date]]
    BY <1>1 DEF AskPromotion
  <2>2. Tables' /\ promotion'[p].fields \in SUBSET Fields
    BY <1>1, <2>1 DEF AskPromotion, Tables
  <2>3. \A d \in Promoters : d # p => promotion'[d] = promotion[d]
    BY <2>1 DEF Tables
  <2>4. step' = [step EXCEPT ![p] = "asked"]
    BY <1>1 DEF AskPromotion, Moves
  <2> QED
    BY <1>1, <2>2, <2>3, <2>4 DEF AskPromotion
<1>2. ASSUME NEW p \in Promoters, PlanPromotion(p) PROVE PromotionInv'
  <2>1. plan' = [plan EXCEPT ![p] = [source |-> source, target |-> target]]
    BY <1>2 DEF PlanPromotion
  <2>2. Tables' /\ plan'[p].source \in SourceFlags
    <3>1. Tables'
      BY <1>2, <2>1 DEF PlanPromotion, Tables
    <3>2. plan'[p] = [source |-> source, target |-> target]
      BY <2>1 DEF Tables
    <3> QED
      BY <3>1, <3>2
  <2>3. \A d \in Promoters : d # p => plan'[d] = plan[d]
    BY <2>1 DEF Tables
  <2>4. PICK there \in {"refused", "planned"} : step' = [step EXCEPT ![p] = there]
    BY <1>2 DEF PlanPromotion, Moves
  <2> QED
    BY <1>2, <2>2, <2>3, <2>4 DEF PlanPromotion
<1>3. ASSUME NEW p \in Promoters, SavePromotion(p) PROVE PromotionInv'
  <2>1. target' # Missing => IsFlag(target') /\ Valid(target')
    <3>1. CASE Commits(p)
      <4>1. target # Missing /\ Valid(Result(p)) /\ IsFlag(plan[p].source)
        BY <1>3, <3>1 DEF SavePromotion, Commits
      <4>2. IsFlag(Result(p))
        BY <4>1, PromotedIsFlag DEF Result
      <4> QED
        BY <1>3, <3>1, <4>1, <4>2 DEF SavePromotion
    <3>2. CASE ~Commits(p)
      BY <1>3, <3>2 DEF SavePromotion
    <3> QED
      BY <3>1, <3>2
  <2>2. PICK there \in {"refused", "saved"} : step' = [step EXCEPT ![p] = there]
    BY <1>3 DEF SavePromotion, Moves
  <2> QED
    BY <1>3, <2>1, <2>2 DEF SavePromotion, Tables
<1>4. ASSUME NEW p \in Promoters, CreatePromoted(p) PROVE PromotionInv'
  <2>1. \/ target' = target
        \/ /\ plan[p].source.default.variation # NoVariation
           /\ target' = Created(plan[p].source)
    BY <1>4 DEF CreatePromoted
  <2>2. Valid(plan[p].source)
    BY <1>4 DEF CreatePromoted
  <2>3. target' # Missing => IsFlag(target') /\ Valid(target')
    BY <2>1, <2>2, CreatedIsFlag
  <2>4. PICK there \in {"refused", "saved"} : step' = [step EXCEPT ![p] = there]
    BY <1>4 DEF CreatePromoted, Moves
  <2> QED
    BY <1>4, <2>3, <2>4 DEF CreatePromoted, Tables
<1>5. CASE EditFlags
  BY <1>5 DEF EditFlags, Tables
<1>6. CASE PassDate
  BY <1>6 DEF PassDate, Tables
<1>7. CASE UNCHANGED promotionVars
  BY <1>7 DEF promotionVars, Tables
<1> QED
  BY <1>1, <1>2, <1>3, <1>4, <1>5, <1>6, <1>7 DEF PromotionNext

LEMMA PromotionInvariant == PromotionSpec => []PromotionInv
  BY PromotionBegins, PromotionStep, PTL DEF PromotionSpec

(***************************************************************************)
(* Whatever is promoted onto whatever it has become, the target stays a    *)
(* flag that GO Feature Flag takes.                                        *)
(***************************************************************************)
THEOREM PromotionTypes == PromotionSpec => []PromotionTypeOK
<1>1. PromotionInv => PromotionTypeOK
  BY DEF PromotionInv
<1> QED
  BY <1>1, PromotionInvariant, PTL

--------------------------------------------------------------------------------
(***************************************************************************)
(* A step that saves a promotion is its write: of a flag that is there, or *)
(* of a new one.                                                           *)
(***************************************************************************)
LEMMA SavesByWriting ==
    ASSUME PromotionInv, [PromotionNext]_promotionVars,
           NEW p \in Promoters, SavesPromotion(p)
    PROVE  \/ /\ SavePromotion(p) /\ Commits(p)
              /\ target # Missing /\ target' = Result(p)
              /\ IsFlag(target) /\ IsFlag(plan[p].source)
           \/ /\ CreatePromoted(p) /\ target' = Created(plan[p].source)
              /\ plan[p].source.default.variation # NoVariation
<1> USE DEF PromotionInv, PromotionTypeOK, SavesPromotion
<1>1. \A q \in Promoters : ~AskPromotion(q)
  BY DEF AskPromotion, Moves
<1>2. \A q \in Promoters : ~PlanPromotion(q)
  BY DEF PlanPromotion, Moves
<1>3. ASSUME NEW q \in Promoters, SavePromotion(q)
      PROVE  q = p /\ Commits(p) /\ target # Missing /\ target' = Result(p)
  <2>1. q = p
    BY <1>3 DEF SavePromotion, Moves
  <2> QED
    BY <1>3, <2>1 DEF SavePromotion, Moves, Commits
<1>4. ASSUME NEW q \in Promoters, CreatePromoted(q)
      PROVE  /\ q = p /\ target' = Created(plan[p].source)
             /\ plan[p].source.default.variation # NoVariation
  <2>1. q = p
    BY <1>4 DEF CreatePromoted, Moves
  <2> QED
    BY <1>4, <2>1 DEF CreatePromoted, Moves
<1>5. ~EditFlags /\ ~PassDate /\ ~UNCHANGED promotionVars
  BY DEF EditFlags, PassDate, promotionVars
<1>6. IsFlag(plan[p].source)
  BY PromotionAssumption
<1> QED
  BY <1>1, <1>2, <1>3, <1>4, <1>5, <1>6 DEF PromotionNext

(***************************************************************************)
(* No promotion turns a flag on that nobody asked to turn on.              *)
(***************************************************************************)
THEOREM NothingTurnedOn == PromotionSpec => NeverTurnedOn
<1>1. ASSUME PromotionInv, [PromotionNext]_promotionVars,
             NEW p \in Promoters, SavesPromotion(p), target'.enabled
      PROVE  target # Missing /\ (target.enabled \/ "enabled" \in promotion[p].fields)
  <2>1. CASE SavePromotion(p) /\ target # Missing /\ target' = Result(p)
             /\ IsFlag(target) /\ IsFlag(plan[p].source)
    <3>1. target'.enabled = IF "enabled" \in promotion[p].fields
                              THEN plan[p].source.enabled ELSE target.enabled
      BY <2>1, PromotedFields DEF Result
    <3> QED
      BY <1>1, <2>1, <3>1
  <2>2. CASE CreatePromoted(p) /\ target' = Created(plan[p].source)
    BY <1>1, <2>2 DEF Created
  <2> QED
    BY <1>1, <2>1, <2>2, SavesByWriting
<1>2. PromotionInv /\ [PromotionNext]_promotionVars
        => [\A p \in Promoters :
              SavesPromotion(p) /\ target'.enabled =>
                /\ target # Missing
                /\ target.enabled \/ "enabled" \in promotion[p].fields]_promotionVars
  BY <1>1
<1> QED
  BY <1>2, PromotionInvariant, PTL DEF PromotionSpec, NeverTurnedOn

(***************************************************************************)
(* Onto a flag that exists, exactly the picked settings are copied.        *)
(***************************************************************************)
CopiesPicked(to, source0, picked, moment, result) ==
    LET from == [source0 EXCEPT !.rule = FrozenRule(@, moment)]
    IN  /\ DiffFields(from, result) \cap picked = {}
        /\ DiffFields(to, result) \subseteq picked
        /\ result.metadata.team = to.metadata.team

LEMMA PickedAreCopied ==
    ASSUME NEW to, NEW source0, NEW picked, NEW moment, IsFlag(to), IsFlag(source0),
           NEW result, result = Promoted(to, source0, picked, moment)
    PROVE  CopiesPicked(to, source0, picked, moment, result)
<1> DEFINE from == [source0 EXCEPT !.rule = FrozenRule(@, moment)]
<1>1. /\ from.enabled = source0.enabled /\ from.variations = source0.variations
      /\ from.default = source0.default /\ from.rule = FrozenRule(source0.rule, moment)
      /\ from.bucketingKey = source0.bucketingKey /\ from.metadata = source0.metadata
  BY DEF IsFlag, FlagParts
<1>2. "metadata" \in picked =>
        /\ result.metadata.note = source0.metadata.note
        /\ result.metadata.team = to.metadata.team
  BY PromotedFields, MergedMetadataFields DEF IsFlag
<1>3. "metadata" \notin picked => result.metadata = to.metadata
  BY PromotedFields
<1>4. /\ "rules" \in picked => result.rule = from.rule
      /\ "default" \in picked => result.default = from.default
      /\ "variations" \in picked => result.variations = from.variations
      /\ "bucketingKey" \in picked => result.bucketingKey = from.bucketingKey
      /\ "enabled" \in picked => result.enabled = from.enabled
  BY <1>1, PromotedFields
<1>5. /\ "rules" \notin picked => result.rule = to.rule
      /\ "default" \notin picked => result.default = to.default
      /\ "variations" \notin picked => result.variations = to.variations
      /\ "bucketingKey" \notin picked => result.bucketingKey = to.bucketingKey
      /\ "enabled" \notin picked => result.enabled = to.enabled
  BY PromotedFields
<1> HIDE DEF from
<1>6. ASSUME NEW f \in picked PROVE f \notin DiffFields(from, result)
  BY <1>1, <1>2, <1>4, <1>6 DEF DiffFields, Fields, SameMetadata
<1>7. ASSUME NEW f \in Fields, f \notin picked PROVE f \notin DiffFields(to, result)
  BY <1>3, <1>5, <1>7 DEF DiffFields, Fields, SameMetadata
<1>8. DiffFields(from, result) \cap picked = {} /\ DiffFields(to, result) \subseteq picked
  BY <1>6, <1>7 DEF DiffFields
<1> QED
  BY <1>2, <1>3, <1>8 DEF from, CopiesPicked

(***************************************************************************)
(* The picked settings become those of the source, a ramp of it frozen,    *)
(* and all others stay as they are in the target of that moment.           *)
(***************************************************************************)
THEOREM PickedSettingsCopied == PromotionSpec => PickedSettingsAreCopied
<1>1. ASSUME PromotionInv, [PromotionNext]_promotionVars,
             NEW p \in Promoters, SavesPromotion(p), plan[p].target # Missing
      PROVE  LET from == [plan[p].source EXCEPT !.rule = FrozenRule(@, date)]
                 picked == promotion[p].fields
             IN  /\ DiffFields(from, target') \cap picked = {}
                 /\ DiffFields(target, target') \subseteq picked
                 /\ target'.metadata.team = target.metadata.team
  <2>1. ~CreatePromoted(p)
    BY <1>1 DEF CreatePromoted
  <2>2. target' = Result(p) /\ IsFlag(target) /\ IsFlag(plan[p].source)
    BY <1>1, <2>1, SavesByWriting
  <2>3. CopiesPicked(target, plan[p].source, promotion[p].fields, date, target')
    BY <2>2, PickedAreCopied DEF Result
  <2> QED
    BY <2>3 DEF CopiesPicked
<1>2. PromotionInv /\ [PromotionNext]_promotionVars
        => [\A p \in Promoters :
              SavesPromotion(p) /\ plan[p].target # Missing =>
                LET from == [plan[p].source EXCEPT !.rule = FrozenRule(@, date)]
                    picked == promotion[p].fields
                IN  /\ DiffFields(from, target') \cap picked = {}
                    /\ DiffFields(target, target') \subseteq picked
                    /\ target'.metadata.team = target.metadata.team]_promotionVars
  BY <1>1
<1> QED
  BY <1>2, PromotionInvariant, PTL DEF PromotionSpec, PickedSettingsAreCopied

(***************************************************************************)
(* A promotion does what its user reviewed.                                *)
(***************************************************************************)
THEOREM PromotedAsAsked == PromotionSpec => PromotionIsAsAsked
  BY NothingTurnedOn, PickedSettingsCopied DEF PromotionIsAsAsked
--------------------------------------------------------------------------------
(***************************************************************************)
(* planPromotion's check is enough.  It is made at one time and relied on  *)
(* at a later one, when a ramp is frozen at another share: but between the *)
(* same variations, and never at none of both.                             *)
(***************************************************************************)
LEMMA ReachedIsNumber ==
    ASSUME NEW ramp, IsRamp(ramp), NEW moment \in Int
    PROVE  Reached(ramp, moment) \in Int
<1>1. /\ ramp.low \in Int /\ ramp.high \in Int
      /\ ramp.start \in Int /\ ramp.end \in Int
  BY DEF IsRamp
<1>2. ASSUME ramp.end > ramp.start
      PROVE  ((ramp.high - ramp.low) * (moment - ramp.start))
               \div (ramp.end - ramp.start) \in Int
  <2>1. /\ (ramp.high - ramp.low) * (moment - ramp.start) \in Int
        /\ ramp.end - ramp.start \in Int /\ ramp.end - ramp.start > 0
    BY <1>1, <1>2
  <2> QED
    BY <2>1
<1> QED
  BY <1>1, <1>2 DEF Reached

LEMMA FrozenServesTheSame ==
    ASSUME NEW rule, NEW moment, NEW later
    PROVE  Serves(FrozenRule(rule, later).outcome) = Serves(FrozenRule(rule, moment).outcome)
<1>1. ASSUME NEW now, rule # NoRule, rule.ramp # NoRamp
      PROVE  Serves(FrozenRule(rule, now).outcome) = {rule.ramp.from, rule.ramp.to}
  <2>1. FrozenRule(rule, now).outcome = FrozenOutcome(rule.ramp, now)
    BY <1>1 DEF FrozenRule
  <2>2. /\ FrozenOutcome(rule.ramp, now).variation = NoVariation
        /\ DOMAIN FrozenOutcome(rule.ramp, now).shares = {rule.ramp.from, rule.ramp.to}
    BY DEF FrozenOutcome, Split
  <2> QED
    BY <2>1, <2>2 DEF Serves
<1>2. CASE rule = NoRule \/ rule.ramp = NoRamp
  BY <1>2 DEF FrozenRule
<1> QED
  BY <1>1, <1>2

\* One of two variations has some of a frozen ramp.
LEMMA FrozenIsNotAllZero ==
    ASSUME NEW ramp, IsRamp(ramp), ramp.from # ramp.to, NEW moment \in Int
    PROVE  LET shares == FrozenOutcome(ramp, moment).shares
           IN  \E v \in DOMAIN shares : shares[v] > 0
<1> DEFINE shares == FrozenOutcome(ramp, moment).shares
<1>1. shares = [v \in {ramp.from, ramp.to} |->
                  IF v = ramp.to THEN Reached(ramp, moment) ELSE 100 - Reached(ramp, moment)]
  BY DEF FrozenOutcome, Split
<1>2. Reached(ramp, moment) > 0 \/ 100 - Reached(ramp, moment) > 0
  BY ReachedIsNumber
<1>3. /\ DOMAIN shares = {ramp.from, ramp.to}
      /\ shares[ramp.to] = Reached(ramp, moment)
      /\ shares[ramp.from] = 100 - Reached(ramp, moment)
  BY <1>1
<1> QED
  BY <1>2, <1>3

\* What was planned has been checked, at some time.
Checked(p) ==
    step[p] = "planned" /\ plan[p].target # Missing =>
      \E moment : CheckPromotable(plan[p].source, plan[p].target, promotion[p].fields, moment)

LEMMA CheckedStep ==
    ASSUME PromotionInv, [PromotionNext]_promotionVars, NEW p \in Promoters, Checked(p)
    PROVE  Checked(p)'
<1> USE DEF PromotionInv, PromotionTypeOK, Tables
<1>1. ASSUME NEW d \in Promoters, AskPromotion(d) PROVE Checked(p)'
  <2>1. PICK asked : promotion' = [promotion EXCEPT ![d] = asked]
    BY <1>1 DEF AskPromotion
  <2>2. step' = [step EXCEPT ![d] = "asked"] /\ UNCHANGED plan
    BY <1>1 DEF AskPromotion, Moves
  <2>3. d # p => promotion'[p] = promotion[p]
    BY <2>1
  <2> QED
    BY <2>2, <2>3 DEF Checked
<1>2. ASSUME NEW d \in Promoters, PlanPromotion(d) PROVE Checked(p)'
  <2>1. /\ plan' = [plan EXCEPT ![d] = [source |-> source, target |-> target]]
        /\ step' = [step EXCEPT ![d] = IF Refuses(d) THEN "refused" ELSE "planned"]
        /\ UNCHANGED promotion
    BY <1>2 DEF PlanPromotion, Moves
  <2>2. CASE d = p
    <3>1. plan'[p].source = source /\ plan'[p].target = target
      BY <2>1, <2>2
    <3>2. step'[p] = "planned" => ~Refuses(p)
      BY <2>1, <2>2
    <3> QED
      BY <2>1, <3>1, <3>2 DEF Refuses, Checked
  <2>3. CASE d # p
    <3>1. plan'[p] = plan[p] /\ step'[p] = step[p]
      BY <2>1, <2>3
    <3> QED
      BY <2>1, <3>1 DEF Checked
  <2> QED
    BY <2>2, <2>3
<1>3. ASSUME NEW d \in Promoters, SavePromotion(d) \/ CreatePromoted(d)
      PROVE  Checked(p)'
  <2>1. /\ step' = [step EXCEPT ![d] = step'[d]] /\ step'[d] \in {"saved", "refused"}
        /\ UNCHANGED <<promotion, plan>>
    BY <1>3 DEF SavePromotion, CreatePromoted, Moves
  <2>2. step'[p] = "planned" => step[p] = "planned"
    BY <2>1
  <2> QED
    BY <2>1, <2>2 DEF Checked
<1>4. CASE EditFlags \/ PassDate \/ UNCHANGED promotionVars
  BY <1>4 DEF EditFlags, PassDate, promotionVars, Checked
<1> QED
  BY <1>1, <1>2, <1>3, <1>4 DEF PromotionNext

LEMMA CheckedIsValid ==
    ASSUME PromotionInv, NEW p \in Promoters, Checked(p),
           step[p] = "planned", plan[p].target # Missing, target = plan[p].target,
           "variations" \notin promotion[p].fields,
           plan[p].source.rule # NoRule /\ plan[p].source.rule.ramp # NoRamp
             => plan[p].source.rule.ramp.from # plan[p].source.rule.ramp.to
    PROVE  Valid(Result(p))
<1> DEFINE from == plan[p].source
           fields == promotion[p].fields
           frozen == FrozenRule(from.rule, date)
<1>1. PICK moment : CheckPromotable(from, target, fields, moment)
  BY DEF Checked
<1>2. /\ IsFlag(target) /\ Valid(target) /\ from \in SourceFlags /\ Valid(from)
      /\ date \in Int
  BY PromotionAssumption DEF PromotionInv, PromotionTypeOK
<1>3. /\ Result(p).variations = target.variations
      /\ Result(p).default = IF "default" \in fields THEN from.default ELSE target.default
      /\ Result(p).rule = IF "rules" \in fields THEN frozen ELSE target.rule
  BY <1>2, PromotedFields DEF Result
<1>4. ValidOutcome(Result(p).default, target.variations)
  BY <1>1, <1>2, <1>3 DEF CheckPromotable, Valid, ValidOutcome
<1>5. ASSUME "rules" \in fields, frozen # NoRule
      PROVE  ValidOutcome(frozen.outcome, target.variations)
  <2>1. from.rule # NoRule
    BY <1>5 DEF FrozenRule
  <2>2. Serves(frozen.outcome) \subseteq target.variations
    BY <1>1, <1>5, <2>1, FrozenServesTheSame DEF CheckPromotable
  <2>3. CASE from.rule.ramp = NoRamp
    <3>1. frozen = from.rule
      BY <2>3 DEF FrozenRule
    <3> QED
      BY <1>2, <2>1, <2>2, <2>3, <3>1 DEF Valid, ValidOutcome
  <2>4. CASE from.rule.ramp # NoRamp
    <3>1. frozen.outcome = FrozenOutcome(from.rule.ramp, date)
      BY <2>1, <2>4 DEF FrozenRule
    <3>2. IsRamp(from.rule.ramp) /\ from.rule.ramp.from # from.rule.ramp.to
      BY <1>2, <2>1, <2>4, PromotionAssumption
    <3> QED
      BY <1>2, <2>2, <3>1, <3>2, FrozenIsNotAllZero DEF ValidOutcome
  <2> QED
    BY <2>3, <2>4
<1>6. ASSUME Result(p).rule # NoRule, Result(p).rule.ramp = NoRamp
      PROVE  ValidOutcome(Result(p).rule.outcome, target.variations)
  BY <1>2, <1>3, <1>5, <1>6 DEF Valid
<1> QED
  BY <1>2, <1>3, <1>4, <1>6 DEF Valid

(***************************************************************************)
(* What passed the check and brings no variations is valid when it is      *)
(* written, if the target is still the one that was checked.               *)
(***************************************************************************)
THEOREM ChecksSuffice == PromotionSpec => []CheckIsEnough
<1> DEFINE AllChecked == \A p \in Promoters : Checked(p)
<1>1. PromotionInit => AllChecked
  BY DEF PromotionInit, Checked
<1>2. PromotionInv /\ AllChecked /\ [PromotionNext]_promotionVars => AllChecked'
  BY CheckedStep
<1>3. PromotionInv /\ AllChecked => CheckIsEnough
  BY CheckedIsValid DEF CheckIsEnough
<1> QED
  BY <1>1, <1>2, <1>3, PromotionInvariant, PTL DEF PromotionSpec

--------------------------------------------------------------------------------
(***************************************************************************)
(* A frozen ramp.  Division with a remainder is monotone.                  *)
(***************************************************************************)
LEMMA Quotient ==
    ASSUME NEW x \in Int, NEW d \in Int, d > 0
    PROVE  x \div d \in Int /\ d * (x \div d) <= x /\ x < d * (x \div d) + d
  OBVIOUS

LEMMA Factors ==
    ASSUME NEW d \in Int, d > 0, NEW m \in Int, NEW n \in Int, d * m < d * n + d
    PROVE  m <= n
<1>1. d * n + d = d * (n + 1)
  OBVIOUS
<1>2. m < n + 1
  BY <1>1
<1>. QED  BY <1>2

LEMMA QuotientIs ==
    ASSUME NEW x \in Int, NEW d \in Int, d > 0,
           NEW q \in Int, d * q <= x, x < d * q + d
    PROVE  x \div d = q
<1>. DEFINE r == x \div d
<1>1. r \in Int /\ d * r <= x /\ x < d * r + d
  BY Quotient
<1>. HIDE DEF r
<1>2. d * r < d * q + d /\ d * q < d * r + d
  BY <1>1
<1>3. r <= q /\ q <= r
  BY <1>1, <1>2, Factors
<1>. QED  BY <1>1, <1>3 DEF r

LEMMA QuotientMonotone ==
    ASSUME NEW x \in Int, NEW y \in Int, x <= y, NEW d \in Int, d > 0
    PROVE  x \div d <= y \div d
<1>. DEFINE m == x \div d
            n == y \div d
<1>1. /\ m \in Int /\ d * m <= x /\ x < d * m + d
      /\ n \in Int /\ d * n <= y /\ y < d * n + d
  BY Quotient
<1>. HIDE DEF m, n
<1>2. d * m < d * n + d
  BY <1>1
<1>. QED  BY <1>1, <1>2, Factors DEF m, n

(* The share of a ramp, weighed between its two ends.                      *)
Weighed(ramp, moment) ==
    ramp.low * (ramp.end - moment) + ramp.high * (moment - ramp.start)

LEMMA ReachedIsDue ==
    ASSUME NEW ramp, IsRamp(ramp), ramp.start < ramp.end, NEW moment \in Int
    PROVE  Reached(ramp, moment) = Due(ramp, moment)
<1>1. /\ ramp.low \in Int /\ ramp.high \in Int
      /\ ramp.start \in Int /\ ramp.end \in Int
  BY DEF IsRamp
<1>. DEFINE low == ramp.low
            d == ramp.end - ramp.start
            gone == (ramp.high - ramp.low) * (moment - ramp.start)
            q == gone \div d
<1>2. d \in Int /\ d > 0 /\ gone \in Int /\ low \in Int
  BY <1>1
<1>3. Weighed(ramp, moment) = d * low + gone /\ Weighed(ramp, moment) \in Int
  BY <1>1 DEF Weighed
<1>4. q \in Int /\ d * q <= gone /\ gone < d * q + d
  <2>. HIDE DEF gone, d
  <2>. QED  BY <1>2, Quotient
<1>5. Weighed(ramp, moment) \div d = low + q
  <2>. HIDE DEF gone, d, q, low
  <2>1. d * (low + q) = d * low + d * q /\ low + q \in Int
    BY <1>2, <1>4
  <2>2. d * (low + q) <= Weighed(ramp, moment)
    BY <1>2, <1>3, <1>4, <2>1
  <2>3. Weighed(ramp, moment) < d * (low + q) + d
    BY <1>2, <1>3, <1>4, <2>1
  <2>. QED  BY <1>2, <1>3, <2>1, <2>2, <2>3, QuotientIs
<1>. QED  BY <1>1, <1>5 DEF Reached, Due, Weighed

(* A rising ramp does not fall, and a falling one does not rise.           *)
LEMMA WeighedMonotone ==
    ASSUME NEW ramp, IsRamp(ramp), NEW shown \in Int, NEW moment \in Int, shown <= moment
    PROVE  /\ Weighed(ramp, shown) \in Int /\ Weighed(ramp, moment) \in Int
           /\ ramp.low <= ramp.high => Weighed(ramp, shown) <= Weighed(ramp, moment)
           /\ ramp.low > ramp.high => Weighed(ramp, moment) <= Weighed(ramp, shown)
<1>1. /\ ramp.low \in Int /\ ramp.high \in Int
      /\ ramp.start \in Int /\ ramp.end \in Int
  BY DEF IsRamp
<1>2. /\ Weighed(ramp, shown) \in Int /\ Weighed(ramp, moment) \in Int
      /\ Weighed(ramp, moment) - Weighed(ramp, shown)
           = (ramp.high - ramp.low) * (moment - shown)
  BY <1>1 DEF Weighed
<1>3. /\ ramp.low <= ramp.high => (ramp.high - ramp.low) * (moment - shown) >= 0
      /\ ramp.low > ramp.high => (ramp.high - ramp.low) * (moment - shown) <= 0
  BY <1>1
<1>. QED  BY <1>1, <1>2, <1>3

\* From one end of it to the other.
LEMMA DueIsMonotone ==
    ASSUME NEW ramp, IsRamp(ramp), ramp.start < ramp.end,
           NEW shown \in Int, NEW moment \in Int, shown <= moment
    PROVE  /\ Due(ramp, shown) \in 0..100 /\ Due(ramp, moment) \in 0..100
           /\ ramp.low <= ramp.high => Due(ramp, shown) <= Due(ramp, moment)
           /\ ramp.low > ramp.high => Due(ramp, moment) <= Due(ramp, shown)
<1>. DEFINE d == ramp.end - ramp.start
            Inside == ramp.start..ramp.end
            Part(t) == Weighed(ramp, t) \div d
<1>1. /\ ramp.low \in 0..100 /\ ramp.high \in 0..100
      /\ ramp.start \in Int /\ ramp.end \in Int /\ d \in Int /\ d > 0
  BY DEF IsRamp
<1>2. ASSUME NEW t \in Int
      PROVE  /\ t < ramp.start => Due(ramp, t) = ramp.low
             /\ t > ramp.end => Due(ramp, t) = ramp.high
             /\ t \in Inside => Due(ramp, t) = Part(t)
  BY <1>1 DEF Due, Weighed
<1>3. ASSUME NEW t \in Inside, NEW u \in Inside, t <= u
      PROVE  /\ Part(t) \in Int /\ Part(u) \in Int
             /\ ramp.low <= ramp.high => Part(t) <= Part(u)
             /\ ramp.low > ramp.high => Part(u) <= Part(t)
  <2>1. /\ Weighed(ramp, t) \in Int /\ Weighed(ramp, u) \in Int
        /\ ramp.low <= ramp.high => Weighed(ramp, t) <= Weighed(ramp, u)
        /\ ramp.low > ramp.high => Weighed(ramp, u) <= Weighed(ramp, t)
    BY <1>1, <1>3, WeighedMonotone
  <2>. HIDE DEF d
  <2>. QED  BY <1>1, <2>1, Quotient, QuotientMonotone
<1>4. Part(ramp.start) = ramp.low /\ Part(ramp.end) = ramp.high
  <2>1. Weighed(ramp, ramp.start) = d * ramp.low /\ Weighed(ramp, ramp.end) = d * ramp.high
    BY <1>1 DEF Weighed
  <2>. HIDE DEF d
  <2>2. ASSUME NEW q \in Int PROVE (d * q) \div d = q
    BY <1>1, QuotientIs
  <2>. QED  BY <1>1, <2>1, <2>2
<1>5. ramp.start \in Inside /\ ramp.end \in Inside
  BY <1>1
<1>. HIDE DEF Part
<1>6. ASSUME NEW t \in Inside
      PROVE  /\ Part(t) \in Int
             /\ ramp.low <= ramp.high => ramp.low <= Part(t) /\ Part(t) <= ramp.high
             /\ ramp.low > ramp.high => ramp.high <= Part(t) /\ Part(t) <= ramp.low
  <2>1. ramp.start <= t /\ t <= ramp.end
    BY <1>1
  <2>. HIDE DEF Inside
  <2>. QED  BY <1>3, <1>4, <1>5, <2>1
<1>7. \A t \in Int : t < ramp.start \/ t > ramp.end \/ t \in Inside
  BY <1>1
<1>8. ASSUME NEW t \in Int PROVE Due(ramp, t) \in 0..100
  <2>. HIDE DEF Inside
  <2>1. CASE t \in Inside
    <3>1. Due(ramp, t) = Part(t)
      BY <1>2, <2>1
    <3>2. /\ Part(t) \in Int
          /\ ramp.low <= ramp.high => ramp.low <= Part(t) /\ Part(t) <= ramp.high
          /\ ramp.low > ramp.high => ramp.high <= Part(t) /\ Part(t) <= ramp.low
      BY <1>6, <2>1
    <3>. QED  BY <1>1, <3>1, <3>2
  <2>2. CASE t \notin Inside
    BY <1>1, <1>2, <1>7, <2>2
  <2>. QED  BY <2>1, <2>2
<1>9. CASE shown \in Inside /\ moment \in Inside
  <2>. HIDE DEF Inside
  <2>. QED  BY <1>2, <1>3, <1>8, <1>9
<1>10. CASE ~(shown \in Inside /\ moment \in Inside)
  <2>1. /\ shown < ramp.start \/ moment > ramp.end
        /\ shown > ramp.end => moment > ramp.end
        /\ moment < ramp.start => shown < ramp.start
    BY <1>1, <1>10
  <2>. HIDE DEF Inside
  <2>. QED  BY <1>1, <1>2, <1>6, <1>7, <1>8, <2>1
<1>. QED  BY <1>8, <1>9, <1>10

LEMMA FrozenRampBetween ==
    ASSUME NEW rule, rule # NoRule, rule.ramp # NoRamp, IsRamp(rule.ramp),
           rule.ramp.start < rule.ramp.end,
           NEW shown \in Int, NEW moment \in Int, shown <= moment
    PROVE  FrozenBetween(FrozenRule(rule, moment), rule.ramp, shown, moment)
<1>. DEFINE ramp == rule.ramp
            frozen == FrozenRule(rule, moment)
            shares == frozen.outcome.shares
<1>1. frozen = [outcome |-> FrozenOutcome(ramp, moment), ramp |-> NoRamp]
  BY DEF FrozenRule
<1>2. shares = [v \in {ramp.from, ramp.to} |->
                  IF v = ramp.to THEN Reached(ramp, moment) ELSE 100 - Reached(ramp, moment)]
  BY <1>1 DEF FrozenOutcome, Split
<1>3. Reached(ramp, moment) = Due(ramp, moment)
  BY ReachedIsDue
<1>4. /\ Due(ramp, shown) \in 0..100 /\ Due(ramp, moment) \in 0..100
      /\ ramp.low <= ramp.high => Due(ramp, shown) <= Due(ramp, moment)
      /\ ramp.low > ramp.high => Due(ramp, moment) <= Due(ramp, shown)
  BY DueIsMonotone
<1>5. /\ shares[ramp.to] = Due(ramp, moment) /\ frozen.ramp = NoRamp
      /\ \A v \in DOMAIN shares : shares[v] \in 0..100
  <2>1. shares[ramp.to] = Due(ramp, moment) /\ DOMAIN shares = {ramp.from, ramp.to}
    BY <1>2, <1>3
  <2>2. ASSUME NEW v \in {ramp.from, ramp.to} PROVE shares[v] \in 0..100
    BY <1>2, <1>3, <1>4
  <2>. QED  BY <1>1, <2>1, <2>2
<1>. HIDE DEF frozen
<1>. QED  BY <1>4, <1>5 DEF FrozenBetween, frozen

\* Every page was shown at some time before now.
Dated == \A p \in Promoters : step[p] # "new" => promotion[p].asked \in 0..date

LEMMA DatedStep ==
    ASSUME PromotionInv, Dated, [PromotionNext]_promotionVars
    PROVE  Dated'
<1>. USE DEF PromotionInv, PromotionTypeOK, Tables
<1>1. ASSUME NEW p \in Promoters, AskPromotion(p) PROVE Dated'
  <2>1. PICK fields \in FieldChoices, compares \in BOOLEAN :
          promotion' = [promotion EXCEPT ![p] = [fields |-> fields, compares |-> compares,
                                                 page |-> target, asked |-> date]]
    BY <1>1 DEF AskPromotion
  <2>2. date' = date /\ date \in 0..date /\ step' = [step EXCEPT ![p] = "asked"]
    BY <1>1, PromotionAssumption DEF AskPromotion, Moves
  <2>3. /\ promotion'[p].asked = date
        /\ \A d \in Promoters : d # p => promotion'[d] = promotion[d] /\ step'[d] = step[d]
    BY <2>1, <2>2
  <2>. QED  BY <2>2, <2>3 DEF Dated
<1>2. ASSUME NEW p \in Promoters, step[p] # "new", UNCHANGED <<date, promotion>>,
             NEW there, Moves(p, there)
      PROVE  Dated'
  BY <1>2 DEF Dated, Moves
<1>3. ASSUME NEW p \in Promoters,
             PlanPromotion(p) \/ SavePromotion(p) \/ CreatePromoted(p)
      PROVE  Dated'
  BY <1>2, <1>3 DEF PlanPromotion, SavePromotion, CreatePromoted
<1>4. CASE EditFlags
  BY <1>4 DEF EditFlags, Dated
<1>5. CASE PassDate
  <2>1. UNCHANGED <<promotion, step>> /\ date' = date + 1 /\ date \in Nat
    BY <1>5, PromotionAssumption DEF PassDate
  <2>. QED  BY <2>1 DEF Dated
<1>6. CASE UNCHANGED promotionVars
  BY <1>6 DEF promotionVars, Dated
<1>. QED  BY <1>1, <1>3, <1>4, <1>5, <1>6 DEF PromotionNext

(***************************************************************************)
(* A promoted ramp is frozen between the share that its user was shown and *)
(* the one it has when it is written, whichever way it goes: neither       *)
(* fast-forwarded nor set back, and no share is out of range.              *)
(***************************************************************************)
THEOREM RampsFrozenBetween == PromotionSpec => RampsAreNotFastForwarded
<1>1. PromotionInit => Dated
  BY DEF PromotionInit, Dated
<1>2. PromotionInv /\ Dated /\ [PromotionNext]_promotionVars => Dated'
  BY DatedStep
<1>3. ASSUME PromotionInv, Dated, [PromotionNext]_promotionVars,
             NEW p \in Promoters, SavesPromotion(p), plan[p].target # Missing,
             "rules" \in promotion[p].fields, plan[p].source.rule # NoRule,
             plan[p].source.rule.ramp # NoRamp,
             plan[p].source.rule.ramp.start < plan[p].source.rule.ramp.end
      PROVE  FrozenBetween(target'.rule, plan[p].source.rule.ramp, promotion[p].asked, date)
  <2>. DEFINE rule == plan[p].source.rule
  <2>1. ~CreatePromoted(p)
    BY <1>3 DEF CreatePromoted
  <2>2. target' = Result(p) /\ IsFlag(target)
    BY <1>3, <2>1, SavesByWriting
  <2>3. target'.rule = FrozenRule(rule, date)
    BY <1>3, <2>2, PromotedFields DEF Result
  <2>4. /\ promotion[p].asked \in Int /\ date \in Int /\ promotion[p].asked <= date
        /\ plan[p].source \in SourceFlags
    BY <1>3, PromotionAssumption
    DEF Dated, SavesPromotion, PromotionInv, PromotionTypeOK
  <2>5. IsRamp(rule.ramp)
    BY <1>3, <2>4, PromotionAssumption
  <2>. HIDE DEF rule
  <2>6. FrozenBetween(FrozenRule(rule, date), rule.ramp, promotion[p].asked, date)
    BY <1>3, <2>4, <2>5, FrozenRampBetween DEF rule
  <2>. QED  BY <2>3, <2>6 DEF rule
<1>4. PromotionInv /\ Dated /\ [PromotionNext]_promotionVars
        => [\A p \in Promoters :
              SavesPromotion(p) /\ plan[p].target # Missing /\ "rules" \in promotion[p].fields =>
                LET rule == plan[p].source.rule
                IN  rule # NoRule /\ rule.ramp # NoRamp /\ rule.ramp.start < rule.ramp.end =>
                      FrozenBetween(target'.rule, rule.ramp, promotion[p].asked, date)
           ]_promotionVars
  BY <1>3
<1>. QED
  BY <1>1, <1>2, <1>4, PromotionInvariant, PTL DEF PromotionSpec, RampsAreNotFastForwarded
================================================================================
