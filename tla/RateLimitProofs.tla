-------------------------- MODULE RateLimitProofs --------------------------
(***************************************************************************)
(* Proofs about RateLimit, for tables of every size, any set of addresses, *)
(* finite or not, and any window and limit: the table implements           *)
(* SlidingWindow.                                                          *)
(***************************************************************************)
EXTENDS RateLimit, FiniteSetTheorems, TLAPS

-----------------------------------------------------------------------------
(***************************************************************************)
(* Induction over the naturals.  The induction theorems of the library     *)
(* take the predicate as an operator, which the provers cannot             *)
(* instantiate; these take the set of the numbers that satisfy it.         *)
(***************************************************************************)
(* A set of naturals has a least member: of the intervals from 0 to one of *)
(* them, one contains no other.                                            *)
LEMMA NatMin ==
  ASSUME NEW S, S \subseteq Nat, S # {}
  PROVE  \E m \in S : \A k \in S : m <= k
<1> DEFINE T == {0..n : n \in S}
<1>1. IsWellFoundedOn(StrictSubsetOrdering(Nat), FiniteSubsetsOf(Nat))
  BY FS_StrictSubsetOrderingWellFounded
<1>2. \A n \in S : 0..n \in FiniteSubsetsOf(Nat)
  BY FS_Interval DEF FiniteSubsetsOf
<1>3. T \subseteq FiniteSubsetsOf(Nat) /\ T # {}
  BY <1>2
<1>4. PICK x \in T : \A y \in T : ~ (<<y, x>> \in StrictSubsetOrdering(Nat))
  <2> HIDE DEF T
  <2> QED BY <1>1, <1>3, WFMin, Zenon
<1>5. PICK m \in S : x = 0..m
  BY <1>4
<1>6. ASSUME NEW k \in S, k < m PROVE FALSE
  <2>1. <<0..k, 0..m>> \in StrictSubsetOrdering(Nat)
    <3>1. 0..k \in SUBSET Nat /\ 0..m \in SUBSET Nat
      OBVIOUS
    <3>2. 0..k \subseteq 0..m /\ 0..k # 0..m
      BY <1>6
    <3>3. QED BY <3>1, <3>2 DEF StrictSubsetOrdering
  <2>2. QED BY <1>4, <1>5, <2>1
<1>7. QED BY <1>6

(* A set that has 0 and, with each number, the next one has them all.      *)
LEMMA NatSetInduction ==
  ASSUME NEW S, 0 \in S, \A n \in Nat : n \in S => n + 1 \in S
  PROVE  Nat \subseteq S
<1> SUFFICES ASSUME Nat \ S # {} PROVE FALSE
  OBVIOUS
<1>1. PICK m \in Nat \ S : \A k \in Nat \ S : m <= k
  BY NatMin
<1>2. m - 1 \in Nat /\ m - 1 \notin S
  BY <1>1
<1>3. QED BY <1>1, <1>2


-----------------------------------------------------------------------------
(* The loop of prune_entry.                                                *)

Fresh(t) == now - t <= WINDOW

(* kept holds what the loop has written back after each of n rounds.       *)
IsPruning(kept, ts, n) ==
  kept = [i \in 0..n |-> IF i = 0 THEN <<>>
                         ELSE IF now - ts[i] <= WINDOW
                              THEN Append(kept[i - 1], ts[i])
                              ELSE kept[i - 1]]

(* The loop can be run for any number of rounds.                           *)
LEMMA PruningExists ==
  ASSUME NEW ts, NEW n \in Nat
  PROVE  \E kept : IsPruning(kept, ts, n)
<1> DEFINE S == {m \in Nat : \E kept : IsPruning(kept, ts, m)}
<1>1. 0 \in S
  <2> DEFINE g == [i \in 0..0 |-> <<>>]
  <2>1. IsPruning(g, ts, 0)
    BY DEF IsPruning
  <2>2. QED BY <2>1
<1>2. ASSUME NEW m \in Nat, m \in S PROVE m + 1 \in S
  <2>1. PICK g : IsPruning(g, ts, m)
    BY <1>2
  <2> DEFINE last == IF now - ts[m + 1] <= WINDOW
                     THEN Append(g[m], ts[m + 1]) ELSE g[m]
             h == [i \in 0..(m + 1) |-> IF i = m + 1 THEN last ELSE g[i]]
  <2>2. ASSUME NEW i \in 0..(m + 1)
        PROVE  h[i] = IF i = 0 THEN <<>>
                      ELSE IF now - ts[i] <= WINDOW
                           THEN Append(h[i - 1], ts[i])
                           ELSE h[i - 1]
    <3>1. CASE i = m + 1
      <4>1. h[i] = last /\ i # 0 /\ h[i - 1] = g[m] /\ i - 1 = m
        BY <3>1
      <4>2. QED BY <3>1, <4>1
    <3>2. CASE i # m + 1
      <4>1. i \in 0..m /\ h[i] = g[i]
        BY <3>2
      <4>2. i # 0 => h[i - 1] = g[i - 1]
        BY <3>2
      <4>3. g[i] = IF i = 0 THEN <<>>
                   ELSE IF now - ts[i] <= WINDOW
                        THEN Append(g[i - 1], ts[i]) ELSE g[i - 1]
        BY <2>1, <4>1 DEF IsPruning
      <4>4. QED BY <4>1, <4>2, <4>3
    <3>3. QED BY <3>1, <3>2
  <2>3. h = [i \in 0..(m + 1) |-> h[i]]
    OBVIOUS
  <2> HIDE DEF h
  <2>4. IsPruning(h, ts, m + 1)
    BY <2>2, <2>3 DEF IsPruning
  <2>5. QED BY <2>4
<1>3. Nat \subseteq S
  <2> HIDE DEF S
  <2> QED BY <1>1, <1>2, NatSetInduction
<1>4. QED BY <1>3

(* kept lists, in some order, the timestamps of ts at the places in D.     *)
Lists(kept, ts, D) ==
  /\ kept \in Seq(Nat)
  /\ \E f \in Bijection(1..Len(kept), D) :
       \A k \in 1..Len(kept) : kept[k] = ts[f[k]]

(* A list with one more entry at its end.                                  *)
LEMMA ListsOneMore ==
  ASSUME NEW kept, NEW ts, NEW D, Lists(kept, ts, D), NEW x, x \notin D,
         ts[x] \in Nat
  PROVE  Lists(Append(kept, ts[x]), ts, D \cup {x})
<1>1. PICK f \in Bijection(1..Len(kept), D) :
        \A k \in 1..Len(kept) : kept[k] = ts[f[k]]
  BY DEF Lists
<1> DEFINE m == Len(kept) + 1
           more == Append(kept, ts[x])
           g == [k \in 1..m |-> IF k = m THEN x ELSE f[k]]
<1>2. kept \in Seq(Nat) /\ Len(kept) \in Nat
  BY DEF Lists
<1>3. /\ more \in Seq(Nat) /\ Len(more) = m /\ more[m] = ts[x]
      /\ \A k \in 1..Len(kept) : more[k] = kept[k]
  BY <1>2
<1>4. /\ \A k \in 1..Len(kept) : f[k] \in D
      /\ \A k, l \in 1..Len(kept) : f[k] = f[l] => k = l
      /\ \A d \in D : \E k \in 1..Len(kept) : f[k] = d
  BY DEF Bijection, Injection, Surjection, IsInjective
<1>5. \A k \in 1..m : k = m \/ k \in 1..Len(kept)
  BY <1>2
<1>6. \A k \in 1..m : g[k] = IF k = m THEN x ELSE f[k]
  OBVIOUS
<1>7. m \in 1..m /\ \A k \in 1..Len(kept) : k \in 1..m /\ k # m
  BY <1>2
<1> HIDE DEF m
<1>8. g \in [1..m -> D \cup {x}]
  BY <1>4, <1>5
<1> HIDE DEF g
<1>9. \A k, l \in 1..m : g[k] = g[l] => k = l
  BY <1>4, <1>5, <1>6
<1>10. \A d \in D \cup {x} : \E k \in 1..m : g[k] = d
  BY <1>4, <1>6, <1>7
<1>11. g \in Bijection(1..m, D \cup {x})
  BY <1>8, <1>9, <1>10 DEF Bijection, Injection, Surjection, IsInjective
<1>12. \A k \in 1..m : more[k] = ts[g[k]]
  BY <1>1, <1>3, <1>5, <1>6, <1>7
<1>13. QED BY <1>3, <1>11, <1>12 DEF Lists

(* prune_entry keeps exactly the timestamps that are in the window.        *)
LEMMA PruneKeepsFresh ==
  ASSUME NEW ts \in Seq(Nat)
  PROVE  Lists(prune_entry(ts), ts, {j \in 1..Len(ts) : Fresh(ts[j])})
<1> DEFINE N == Len(ts)
           kept == CHOOSE g : IsPruning(g, ts, N)
<1>1. N \in Nat
  OBVIOUS
<1>2. IsPruning(kept, ts, N)
  BY <1>1, PruningExists
<1>3. prune_entry(ts) = kept[N]
  BY DEF prune_entry, IsPruning
<1> HIDE DEF kept
<1> DEFINE fresh(m) == {j \in 1..m : Fresh(ts[j])}
           S == {m \in Nat : m <= N => Lists(kept[m], ts, fresh(m))}
<1>4. 0 \in S
  <2>1. kept[0] = <<>>
    BY <1>1, <1>2 DEF IsPruning
  <2>2. fresh(0) = {}
    OBVIOUS
  <2> DEFINE f == [k \in {} |-> k]
  <2>3. f \in Bijection({}, {})
    BY DEF Bijection, Injection, Surjection, IsInjective
  <2>4. 1..Len(<<>>) = {}
    OBVIOUS
  <2>5. Lists(<<>>, ts, {})
    BY <2>3, <2>4 DEF Lists
  <2>6. QED BY <2>1, <2>2, <2>5
<1>5. ASSUME NEW m \in Nat, m \in S PROVE m + 1 \in S
  <2> SUFFICES ASSUME m + 1 <= N
               PROVE  Lists(kept[m + 1], ts, fresh(m + 1))
    OBVIOUS
  <2>1. Lists(kept[m], ts, fresh(m))
    BY <1>1, <1>5
  <2>2. kept[m + 1] = IF Fresh(ts[m + 1]) THEN Append(kept[m], ts[m + 1])
                      ELSE kept[m]
    <3>1. m + 1 \in 0..N /\ m + 1 # 0 /\ (m + 1) - 1 = m
      BY <1>1
    <3> HIDE DEF N
    <3>2. kept[m + 1] = IF now - ts[m + 1] <= WINDOW
                        THEN Append(kept[(m + 1) - 1], ts[m + 1])
                        ELSE kept[(m + 1) - 1]
      BY <1>2, <3>1 DEF IsPruning
    <3>3. QED BY <3>1, <3>2 DEF Fresh
  <2>3. ts[m + 1] \in Nat
    BY <1>1
  <2>4. CASE Fresh(ts[m + 1])
    <3>1. fresh(m + 1) = fresh(m) \cup {m + 1} /\ m + 1 \notin fresh(m)
      BY <2>4
    <3> HIDE DEF fresh
    <3>2. Lists(Append(kept[m], ts[m + 1]), ts, fresh(m) \cup {m + 1})
      BY <2>1, <2>3, <3>1, ListsOneMore
    <3>3. QED BY <2>2, <2>4, <3>1, <3>2
  <2>5. CASE ~Fresh(ts[m + 1])
    <3>1. fresh(m + 1) = fresh(m)
      BY <2>5
    <3>2. QED BY <2>1, <2>2, <2>5, <3>1
  <2>6. QED BY <2>4, <2>5
<1>6. Nat \subseteq S
  <2> HIDE DEF S
  <2> QED BY <1>4, <1>5, NatSetInduction
<1>7. Lists(kept[N], ts, fresh(N))
  <2> HIDE DEF N, fresh
  <2>1. N \in S
    BY <1>1, <1>6
  <2>2. N <= N
    BY <1>1
  <2>3. QED BY <2>1, <2>2
<1>8. QED BY <1>3, <1>7

(* A list of the timestamps at the places of D has as many members as D.   *)
LEMMA ListsLength ==
  ASSUME NEW kept, NEW ts, NEW D, Lists(kept, ts, D)
  PROVE  IsFiniteSet(D) /\ Cardinality(D) = Len(kept) /\ Len(kept) \in Nat
<1>1. Len(kept) \in Nat /\ ExistsBijection(1..Len(kept), D)
  BY DEF Lists, ExistsBijection
<1>2. QED BY <1>1, FS_NatBijection, FS_CountingElements

(* Only the timestamps at the places of D matter.                          *)
LEMMA ListsSame ==
  ASSUME NEW kept, NEW s, NEW t, NEW D, \A d \in D : s[d] = t[d],
         Lists(kept, s, D)
  PROVE  Lists(kept, t, D)
<1>1. PICK f \in Bijection(1..Len(kept), D) :
        \A k \in 1..Len(kept) : kept[k] = s[f[k]]
  BY DEF Lists
<1>2. \A k \in 1..Len(kept) : f[k] \in D
  BY DEF Bijection, Injection, Surjection
<1>3. QED BY <1>1, <1>2 DEF Lists

(* What is pruned from a list of timestamps is what is out of the window.  *)
LEMMA PruneList ==
  ASSUME NEW kept, NEW ts, NEW D, Lists(kept, ts, D)
  PROVE  Lists(prune_entry(kept), ts, {d \in D : Fresh(ts[d])})
<1> DEFINE E == {j \in 1..Len(kept) : Fresh(kept[j])}
           F == {d \in D : Fresh(ts[d])}
           new == prune_entry(kept)
<1>1. PICK f \in Bijection(1..Len(kept), D) :
        \A k \in 1..Len(kept) : kept[k] = ts[f[k]]
  BY DEF Lists
<1>2. kept \in Seq(Nat)
  BY DEF Lists
<1>3. Lists(new, kept, E)
  BY <1>2, PruneKeepsFresh
<1> HIDE DEF new
<1>4. PICK g \in Bijection(1..Len(new), E) :
        \A k \in 1..Len(new) : new[k] = kept[g[k]]
  BY <1>3 DEF Lists
<1>5. /\ \A k \in 1..Len(kept) : f[k] \in D
      /\ \A k, l \in 1..Len(kept) : f[k] = f[l] => k = l
      /\ \A d \in D : \E k \in 1..Len(kept) : f[k] = d
  BY DEF Bijection, Injection, Surjection, IsInjective
<1>6. /\ \A k \in 1..Len(new) : g[k] \in E
      /\ \A k, l \in 1..Len(new) : g[k] = g[l] => k = l
      /\ \A d \in E : \E k \in 1..Len(new) : g[k] = d
  <2> HIDE DEF E
  <2> QED BY DEF Bijection, Injection, Surjection, IsInjective
<1> DEFINE h == [k \in 1..Len(new) |-> f[g[k]]]
<1>7. \A k \in 1..Len(new) : h[k] \in F /\ new[k] = ts[h[k]]
  BY <1>1, <1>4, <1>5, <1>6
<1>8. \A k, l \in 1..Len(new) : h[k] = h[l] => k = l
  BY <1>5, <1>6
<1>9. \A d \in F : \E k \in 1..Len(new) : h[k] = d
  <2> SUFFICES ASSUME NEW d \in F PROVE \E k \in 1..Len(new) : h[k] = d
    OBVIOUS
  <2>1. PICK j \in 1..Len(kept) : f[j] = d
    BY <1>5
  <2>2. j \in E
    BY <1>1, <2>1
  <2>3. PICK k \in 1..Len(new) : g[k] = j
    BY <1>6, <2>2
  <2>4. QED BY <2>1, <2>3
<1>10. h \in [1..Len(new) -> F]
  BY <1>7
<1> HIDE DEF h, F
<1>11. h \in Bijection(1..Len(new), F)
  BY <1>8, <1>9, <1>10 DEF Bijection, Injection, Surjection, IsInjective
<1>12. Lists(new, ts, F)
  BY <1>3, <1>7, <1>11 DEF Lists
<1>13. QED BY <1>12 DEF new, F

-----------------------------------------------------------------------------
(***************************************************************************)
(* Histories.  SlidingWindow's notions, of any history h.                  *)
(***************************************************************************)
Request == [ip : IPs, at : Nat, granted : BOOLEAN]

Times(h) == [k \in 1..Len(h) |-> h[k].at]

Before(h, ip, n) == {k \in 1..(n - 1) : h[k].ip = ip}

OthersHeard(h, ip, n) ==
  {o \in IPs \ {ip} : \E k \in Before(h, o, n) : \A l \in Before(h, ip, n) :
                         h[l].at <= h[k].at}

Forgettable(h, ip, n) == Cardinality(OthersHeard(h, ip, n)) >= MAX_ENTRIES

Granted(h, ip, n) == {k \in n..Len(h) : h[k].ip = ip /\ h[k].granted}

InWindow(h, t, ip, n) == {k \in Granted(h, ip, n) : t - h[k].at <= WINDOW}

(* The instance has its own copy of the operators of FiniteSets.           *)
LEMMA SameCardinality ==
  ASSUME NEW S
  PROVE  Window!Cardinality(S) = Cardinality(S)
BY DEF Window!Cardinality, Cardinality

(* These are the notions of SlidingWindow.                                 *)
LEMMA SameNotions ==
  ASSUME NEW ip, NEW n
  PROVE  /\ Window!MayBeForgotten(ip, n) <=> Forgettable(history, ip, n)
         /\ Window!Grants(ip, n) = InWindow(history, now, ip, n)
<1>1. \A o : Window!RequestsBefore(o, n) = Before(history, o, n)
  BY DEF Window!RequestsBefore, Before
<1>2. {o \in IPs \ {ip} : Window!HeardSince(o, ip, n)}
        = OthersHeard(history, ip, n)
  BY <1>1 DEF Window!HeardSince, OthersHeard
<1>3. Window!Grants(ip, n) = InWindow(history, now, ip, n)
  BY DEF Window!Grants, InWindow, Granted
<1>4. Window!MayBeForgotten(ip, n)
        <=> Cardinality({o \in IPs \ {ip} : Window!HeardSince(o, ip, n)})
              >= MAX_ENTRIES
  BY SameCardinality DEF Window!MayBeForgotten
<1>5. QED BY <1>2, <1>3, <1>4 DEF Forgettable

(* g is h and one request more.                                            *)
OneMore(g, h, r) ==
  /\ Len(h) \in Nat /\ Len(g) = Len(h) + 1
  /\ \A k \in 1..Len(h) : g[k] = h[k]
  /\ g[Len(h) + 1] = r

(* Append makes such a history.                                            *)
LEMMA AppendOneMore ==
  ASSUME NEW h \in Seq(Request), NEW r \in Request
  PROVE  /\ OneMore(Append(h, r), h, r)
         /\ Append(h, r) \in Seq(Request)
BY DEF OneMore

(* A request changes nothing of what came before request n.                *)
LEMMA SamePast ==
  ASSUME NEW g, NEW h, NEW r, OneMore(g, h, r),
         NEW n \in 1..(Len(h) + 1), NEW ip
  PROVE  /\ Before(g, ip, n) = Before(h, ip, n)
         /\ Forgettable(g, ip, n) <=> Forgettable(h, ip, n)
<1>1. \A k \in 1..(n - 1) : g[k] = h[k]
  BY DEF OneMore
<1>2. \A o : Before(g, o, n) = Before(h, o, n)
  BY <1>1 DEF Before
<1>3. OthersHeard(g, ip, n) = OthersHeard(h, ip, n)
  BY <1>1, <1>2 DEF OthersHeard, Before
<1>4. QED BY <1>2, <1>3 DEF Forgettable

(* Only the addresses of the first n - 1 requests were heard.              *)
LEMMA HeardFinite ==
  ASSUME NEW h, NEW n \in Nat, NEW ip
  PROVE  IsFiniteSet(OthersHeard(h, ip, n))
<1> DEFINE K == 1..(n - 1)
           T == {h[k].ip : k \in K}
           f == [k \in K |-> h[k].ip]
<1>1. IsFiniteSet(K)
  BY FS_Interval
<1>2. f \in Surjection(K, T)
  BY DEF Surjection
<1>3. IsFiniteSet(T)
  <2> HIDE DEF f, T, K
  <2> QED BY <1>1, <1>2, FS_Surjection
<1>4. OthersHeard(h, ip, n) \in SUBSET T
  BY DEF OthersHeard, Before
<1>5. QED BY <1>3, <1>4, FS_Subset

(* While ip is not heard again, whoever was heard since stays so.          *)
LEMMA StillForgettable ==
  ASSUME MAX_ENTRIES \in Nat, NEW g, NEW h, NEW r, OneMore(g, h, r), NEW ip,
         r.ip # ip, Forgettable(h, ip, Len(h) + 1)
  PROVE  Forgettable(g, ip, Len(g) + 1)
<1> DEFINE n == Len(h) + 1
           m == Len(g) + 1
<1>1. /\ n \in Nat /\ m \in Nat /\ m = n + 1 /\ n - 1 = Len(h) /\ m - 1 = n
  BY DEF OneMore
<1>2. Before(g, ip, m) = Before(h, ip, n)
  BY <1>1 DEF OneMore, Before
<1>3. \A o : Before(h, o, n) \subseteq Before(g, o, m)
  BY <1>1 DEF OneMore, Before
<1>4. \A o : \A k \in Before(h, o, n) : g[k].at = h[k].at
  BY <1>1 DEF OneMore, Before
<1> HIDE DEF n, m
<1>5. OthersHeard(h, ip, n) \in SUBSET OthersHeard(g, ip, m)
  BY <1>2, <1>3, <1>4 DEF OthersHeard
<1>6. IsFiniteSet(OthersHeard(g, ip, m)) /\ IsFiniteSet(OthersHeard(h, ip, n))
  BY <1>1, HeardFinite
<1>7. /\ Cardinality(OthersHeard(h, ip, n))
           <= Cardinality(OthersHeard(g, ip, m))
      /\ Cardinality(OthersHeard(h, ip, n)) \in Nat
      /\ Cardinality(OthersHeard(g, ip, m)) \in Nat
  BY <1>5, <1>6, FS_Subset, FS_CardinalityType
<1>8. QED BY <1>7 DEF Forgettable, n, m

(* What a request changes in the set of the requests granted.              *)
LEMMA GrantedAfter ==
  ASSUME NEW g, NEW h, NEW r \in Request, OneMore(g, h, r),
         NEW n \in 1..(Len(h) + 1), NEW ip
  PROVE  /\ Granted(g, ip, n) = Granted(h, ip, n) \cup
              (IF r.ip = ip /\ r.granted THEN {Len(h) + 1} ELSE {})
         /\ Len(h) + 1 \notin Granted(h, ip, n)
         /\ \A k \in Granted(h, ip, n) :
              g[k] = h[k] /\ Times(g)[k] = Times(h)[k]
              /\ Times(h)[k] = h[k].at
         /\ Times(g)[Len(h) + 1] = r.at
<1>1. \A k \in n..Len(g) : k \in n..Len(h) \/ k = Len(h) + 1
  BY DEF OneMore
<1>2. \A k \in n..Len(h) : /\ k \in n..Len(g) /\ k \in 1..Len(h)
                           /\ k \in 1..Len(g) /\ g[k] = h[k]
  BY DEF OneMore
<1>3. /\ Len(h) + 1 \in n..Len(g) /\ g[Len(h) + 1] = r
      /\ Len(h) + 1 \notin n..Len(h) /\ Len(h) + 1 \in 1..Len(g)
  BY DEF OneMore
<1>4. QED BY <1>1, <1>2, <1>3 DEF Granted, Times

-----------------------------------------------------------------------------
(* An entry changes only as a whole: the table stays a function on Slots.  *)
TableInv == /\ entries = [i \in Slots |-> entries[i]]
            /\ OneEntryPerIp

-----------------------------------------------------------------------------
(* The entry that find_entry_index gives.                                  *)

(* Min chooses a member.                                                   *)
LEMMA MinInSet ==
  ASSUME NEW S, S \subseteq Nat, S # {}
  PROVE  Min(S) \in S
<1>1. PICK m \in S : \A k \in S : m <= k
  BY NatMin
<1>2. QED BY <1>1 DEF Min

(* Some entry is the least recently seen.                                  *)
LEMMA SomeLeastRecent ==
  ASSUME TypeOK
  PROVE  LeastRecent # {}
<1> DEFINE seen == {entries[i].last_seen : i \in Slots}
<1>1. \A i \in Slots : entries[i].last_seen \in Nat
  BY DEF TypeOK, Entry
<1>2. 1 \in Slots
  BY SizesAssumption DEF Slots
<1>3. seen \subseteq Nat /\ seen # {}
  BY <1>1, <1>2
<1>4. PICK m \in seen : \A k \in seen : m <= k
  <2> HIDE DEF seen
  <2> QED BY <1>3, NatMin
<1>5. PICK i \in Slots : entries[i].last_seen = m
  BY <1>4
<1>6. i \in LeastRecent
  BY <1>4, <1>5 DEF LeastRecent
<1>7. QED BY <1>6

(* Entry i is ip's; or no entry is, and i is free, or there is none free   *)
(* and i is one of those least recently seen.                              *)
Choice(i, ip) ==
  \/ Holds(entries[i], ip)
  \/ /\ \A j \in Slots : ~Holds(entries[j], ip)
     /\ \/ ~entries[i].active
        \/ i \in LeastRecent /\ \A j \in Slots : entries[j].active

(* find_entry_index gives such an entry.                                   *)
LEMMA ChosenEntry ==
  ASSUME TypeOK, NEW ip
  PROVE  find_entry_index(ip) \in Slots /\ Choice(find_entry_index(ip), ip)
<1> DEFINE own == {i \in Slots : Holds(entries[i], ip)}
           free == {i \in Slots : ~entries[i].active}
           S == IF own # {} THEN own ELSE IF free # {} THEN free
                ELSE LeastRecent
<1>1. Slots \subseteq Nat
  BY SizesAssumption DEF Slots
<1>2. LeastRecent # {} /\ LeastRecent \subseteq Slots
  BY SomeLeastRecent DEF LeastRecent
<1>3. S # {} /\ S \subseteq Nat /\ S \subseteq Slots
  BY <1>1, <1>2
<1>4. Min(S) \in S
  <2> HIDE DEF S
  <2> QED BY <1>3, MinInSet
<1>5. find_entry_index(ip) = Min(S)
  BY DEF find_entry_index
<1> DEFINE i == Min(S)
<1>6. i \in S /\ i \in Slots
  BY <1>3, <1>4
<1> HIDE DEF i
<1>7. Choice(i, ip)
  <2>1. CASE own # {}
    BY <1>6, <2>1 DEF Choice
  <2>2. CASE own = {} /\ free # {}
    BY <1>6, <2>2 DEF Choice
  <2>3. CASE own = {} /\ free = {}
    BY <1>6, <2>3 DEF Choice
  <2>4. QED BY <2>1, <2>2, <2>3
<1>8. QED BY <1>5, <1>6, <1>7 DEF i

(* All that a call does.                                                   *)
Verdict(i, ip) == [ip |-> ip, at |-> now,
                   granted |-> ~AtLimit(Kept(entries[i], ip))]

Call(i, ip) ==
  /\ i \in Slots /\ Choice(i, ip)
  /\ entries' = [j \in Slots |-> IF j = i THEN Used(entries[i], ip)
                                 ELSE entries[j]]
  /\ now' = now
  /\ Verdict(i, ip) \in Request
  /\ history' = Append(history, Verdict(i, ip))
  /\ OneMore(history', history, Verdict(i, ip))
  /\ history' \in Seq(Request)

(* A step of rate_limit_allow is such a call.                              *)
LEMMA CallHappens ==
  ASSUME TypeOK, NEW ip \in IPs, rate_limit_allow(ip)
  PROVE  \E i : i = find_entry_index(ip) /\ Call(i, ip)
<1> DEFINE i == find_entry_index(ip)
           r == Verdict(i, ip)
<1>1. i \in Slots /\ Choice(i, ip)
  BY ChosenEntry
<1>2. /\ entries' = [entries EXCEPT ![i] = Used(entries[i], ip)]
      /\ history' = Append(history, r)
      /\ now' = now
  BY DEF rate_limit_allow, Verdict
<1>3. entries = [j \in Slots |-> entries[j]] /\ now \in Nat
  BY DEF TypeOK
<1> HIDE DEF i
<1>4. entries' = [j \in Slots |-> IF j = i THEN Used(entries[i], ip)
                                  ELSE entries[j]]
  BY <1>1, <1>2, <1>3
<1>5. r \in Request
  BY <1>3 DEF Verdict, Request, AtLimit
<1> HIDE DEF r
<1>6. history \in Seq(Request)
  BY DEF TypeOK, Request
<1>7. OneMore(history', history, r) /\ history' \in Seq(Request)
  BY <1>2, <1>5, <1>6, AppendOneMore
<1>8. QED BY <1>1, <1>2, <1>4, <1>5, <1>7 DEF Call, r, i

(* The timestamps that are left when ip's request is looked at.            *)
LEMMA KeptInBounds ==
  ASSUME TypeOK, NEW i \in Slots, NEW ip
  PROVE  /\ Kept(entries[i], ip) \in Seq(Nat)
         /\ Len(Kept(entries[i], ip)) \in Nat
         /\ Len(Kept(entries[i], ip)) <= MAX_REQUESTS
<1> DEFINE ts == entries[i].timestamps
           D == {j \in 1..Len(ts) : Fresh(ts[j])}
<1>1. ts \in Seq(Nat) /\ Len(ts) \in Nat /\ Len(ts) <= MAX_REQUESTS
  BY DEF TypeOK, Entry
<1>2. MAX_REQUESTS \in Nat
  BY SizesAssumption
<1>3. Lists(prune_entry(ts), ts, D)
  BY <1>1, PruneKeepsFresh
<1>4. /\ Len(prune_entry(ts)) = Cardinality(D)
      /\ Len(prune_entry(ts)) \in Nat
  <2> HIDE DEF D
  <2> QED BY <1>3, ListsLength
<1>5. prune_entry(ts) \in Seq(Nat)
  BY <1>3 DEF Lists
<1>6. Cardinality(D) <= Len(ts)
  <2>1. D \in SUBSET (1..Len(ts))
    OBVIOUS
  <2>2. IsFiniteSet(1..Len(ts)) /\ Cardinality(1..Len(ts)) = Len(ts)
    BY <1>1, FS_Interval
  <2> HIDE DEF D
  <2>3. QED BY <2>1, <2>2, FS_Subset
<1>7. <<>> \in Seq(Nat) /\ Len(<<>>) = 0
  OBVIOUS
<1> HIDE DEF D
<1>8. QED BY <1>1, <1>2, <1>4, <1>5, <1>6, <1>7 DEF Kept

(* The new timestamp fits: at the limit none is added.                     *)
LEMMA CallTypes ==
  ASSUME TypeOK, NEW i, NEW ip \in IPs, Call(i, ip)
  PROVE  TypeOK'
<1> DEFINE kept == Kept(entries[i], ip)
           e == Used(entries[i], ip)
<1>1. /\ i \in Slots /\ now' = now /\ history' \in Seq(Request)
      /\ entries' = [j \in Slots |-> IF j = i THEN e ELSE entries[j]]
  BY DEF Call
<1>2. kept \in Seq(Nat) /\ Len(kept) \in Nat /\ Len(kept) <= MAX_REQUESTS
  BY <1>1, KeptInBounds
<1>3. /\ now \in Nat /\ entries \in [Slots -> Entry]
      /\ \A j \in Slots : Len(entries[j].timestamps) <= MAX_REQUESTS
  BY DEF TypeOK
<1>4. /\ e.active = TRUE /\ e.ip = ip /\ e.last_seen = now
      /\ e.timestamps = IF AtLimit(kept) THEN kept ELSE Append(kept, now)
      /\ e = [active |-> TRUE, ip |-> ip, timestamps |-> e.timestamps,
              last_seen |-> now]
  BY DEF Used
<1>5. e.timestamps \in Seq(Nat) /\ Len(e.timestamps) <= MAX_REQUESTS
  <2> HIDE DEF kept, e
  <2>1. CASE AtLimit(kept)
    BY <1>2, <1>4, <2>1
  <2>2. CASE ~AtLimit(kept)
    <3>1. Len(kept) < MAX_REQUESTS
      BY <1>2, <2>2, SizesAssumption DEF AtLimit
    <3>2. /\ Append(kept, now) \in Seq(Nat)
          /\ Len(Append(kept, now)) = Len(kept) + 1
      BY <1>2, <1>3
    <3>3. QED BY <1>2, <1>4, <2>2, <3>1, <3>2, SizesAssumption
  <2>3. QED BY <2>1, <2>2
<1> HIDE DEF e
<1>6. e \in Entry
  BY <1>3, <1>4, <1>5 DEF Entry
<1>7. QED BY <1>1, <1>3, <1>5, <1>6 DEF TypeOK, Request, Slots

-----------------------------------------------------------------------------
(***************************************************************************)
(* The invariant.  HeardInv: an entry knows when its address was last      *)
(* heard, and an address without an entry was never heard or may have been *)
(* forgotten.  GrantInv: since some request n before which its address had *)
(* a right to a new quota, an entry holds the time of every request that   *)
(* was granted and is still in the window, and of some that are not.       *)
(***************************************************************************)
NextRequest(h) == Len(h) + 1     \* the number of the next request

LastHeard(e, h) ==
  /\ \E k \in Before(h, e.ip, NextRequest(h)) : h[k].at = e.last_seen
  /\ \A k \in Before(h, e.ip, NextRequest(h)) : h[k].at <= e.last_seen

NewQuota(h, ip, n) == n = 1 \/ Forgettable(h, ip, n)

HeardInv ==
  /\ \A k \in 1..Len(history) : history[k].at <= now
  /\ \A i \in Slots : entries[i].active =>
       entries[i].ip \in IPs /\ LastHeard(entries[i], history)
  /\ \A ip \in IPs : (\A i \in Slots : ~Holds(entries[i], ip)) =>
       \/ Before(history, ip, NextRequest(history)) = {}
       \/ Forgettable(history, ip, NextRequest(history))

Remembers(list, h, t, ip, n, D) ==
  /\ InWindow(h, t, ip, n) \subseteq D
  /\ D \subseteq Granted(h, ip, n)
  /\ Lists(list, Times(h), D)

RemembersFrom(e, h, t, n) ==
  \E D : Remembers(e.timestamps, h, t, e.ip, n, D)

GrantInv ==
  \A i \in Slots : entries[i].active =>
    \E n \in 1..NextRequest(history) :
      /\ NewQuota(history, entries[i].ip, n)
      /\ RemembersFrom(entries[i], history, now, n)

LimiterInv == TypeOK /\ TableInv /\ HeardInv /\ GrantInv

-----------------------------------------------------------------------------
(* A call keeps the invariant.                                             *)

(***************************************************************************)
(* The entry that a full table gives up belongs to the address that has    *)
(* not been heard for longest: MAX_ENTRIES others were heard since, those  *)
(* of the other entries and the one that takes this entry.                 *)
(***************************************************************************)
LEMMA EvictedIsForgettable ==
  ASSUME TypeOK, TableInv, HeardInv, NEW i, NEW ip \in IPs, Call(i, ip),
         entries[i].active, ~Holds(entries[i], ip)
  PROVE  Forgettable(history', entries[i].ip, NextRequest(history'))
<1> DEFINE old == entries[i].ip
           m == NextRequest(history')
           who(j) == IF j = i THEN ip ELSE entries[j].ip
           f == [j \in Slots |-> who(j)]
           others == OthersHeard(history', old, m)
<1>1. /\ i \in Slots /\ i \in LeastRecent
      /\ \A j \in Slots : entries[j].active /\ ~Holds(entries[j], ip)
  BY DEF Call, Choice
<1>2. /\ Len(history) \in Nat /\ m - 1 = Len(history) + 1 /\ m \in Nat
      /\ \A k \in 1..Len(history) : history'[k] = history[k]
      /\ history'[Len(history) + 1].ip = ip
      /\ history'[Len(history) + 1].at = now
  BY DEF Call, OneMore, Verdict, NextRequest
<1>3. /\ old # ip /\ old \in IPs
      /\ \A j \in Slots : /\ entries[j].ip \in IPs
                          /\ entries[j].ip # ip
                          /\ LastHeard(entries[j], history)
  BY <1>1 DEF HeardInv, Holds
<1>4. \A j, k \in Slots : entries[j].ip = entries[k].ip => j = k
  BY <1>1 DEF TableInv, OneEntryPerIp
<1>5. \A k \in Before(history', old, m) :
        /\ k \in Before(history, old, NextRequest(history))
        /\ history'[k].at = history[k].at
  BY <1>2, <1>3 DEF Before, NextRequest
<1>6. \A o : \A k \in Before(history, o, NextRequest(history)) :
        /\ k \in Before(history', o, m)
        /\ history'[k].at = history[k].at
  BY <1>2 DEF Before, NextRequest
<1>7. \A k \in Before(history', old, m) :
        /\ history'[k].at <= entries[i].last_seen
        /\ history'[k].at <= now
        /\ history'[k].at \in Nat
  <2>1. \A k \in 1..Len(history) : history[k].at \in Nat
    <3>1. history \in Seq(Request)
      BY DEF TypeOK, Request
    <3>2. \A k \in 1..Len(history) : history[k] \in Request
      BY <3>1
    <3>3. QED BY <3>2 DEF Request
  <2>2. \A k \in Before(history, old, NextRequest(history)) :
          k \in 1..Len(history)
    BY <1>2 DEF Before, NextRequest
  <2>3. QED BY <1>1, <1>3, <1>5, <2>1, <2>2 DEF HeardInv, LastHeard
<1>8. ASSUME NEW j \in Slots PROVE who(j) \in others
  <2>1. CASE j = i
    <3>1. Len(history) + 1 \in Before(history', ip, m)
      BY <1>2 DEF Before
    <3>2. \A k \in Before(history', old, m) :
            history'[k].at <= history'[Len(history) + 1].at
      BY <1>2, <1>7
    <3>3. QED BY <1>3, <2>1, <3>1, <3>2 DEF OthersHeard
  <2>2. CASE j # i
    <3> DEFINE o == entries[j].ip
    <3>1. PICK l \in Before(history, o, NextRequest(history)) :
            history[l].at = entries[j].last_seen
      BY <1>3 DEF LastHeard
    <3>2. entries[i].last_seen <= entries[j].last_seen
      BY <1>1 DEF LeastRecent
    <3>3. l \in Before(history', o, m) /\ history'[l].at = entries[j].last_seen
      BY <1>6, <3>1
    <3>4. entries[i].last_seen \in Nat /\ entries[j].last_seen \in Nat
      BY <1>1 DEF TypeOK, Entry
    <3>5. \A k \in Before(history', old, m) : history'[k].at <= history'[l].at
      BY <1>7, <3>2, <3>3, <3>4
    <3>6. o \in IPs \ {old}
      BY <1>1, <1>3, <1>4, <2>2
    <3>7. QED BY <2>2, <3>3, <3>5, <3>6 DEF OthersHeard
  <2>3. QED BY <2>1, <2>2
<1>9. \A j, k \in Slots : who(j) = who(k) => j = k
  BY <1>3, <1>4
<1>10. IsFiniteSet(others)
  BY <1>2, HeardFinite
<1> HIDE DEF others, who
<1>11. f \in Injection(Slots, others)
  BY <1>8, <1>9 DEF Injection, IsInjective
<1> HIDE DEF f
<1>12. Cardinality(Slots) <= Cardinality(others)
  BY <1>10, <1>11, FS_Injection
<1>13. Cardinality(Slots) = MAX_ENTRIES
  BY SizesAssumption, FS_Interval DEF Slots
<1>14. Cardinality(others) >= MAX_ENTRIES
  BY <1>10, <1>12, <1>13, SizesAssumption, FS_CardinalityType
<1>15. QED BY <1>14 DEF Forgettable, others

(* last_seen stays the time of the last request, also a refused one.       *)
LEMMA CallHeard ==
  ASSUME TypeOK, TableInv, HeardInv, NEW i, NEW ip \in IPs, Call(i, ip)
  PROVE  HeardInv'
<1> DEFINE L == Len(history)
           e == Used(entries[i], ip)
<1>1. /\ L \in Nat /\ Len(history') = L + 1
      /\ \A k \in 1..L : history'[k] = history[k]
      /\ history'[L + 1].ip = ip /\ history'[L + 1].at = now
      /\ i \in Slots /\ now' = now /\ now \in Nat
      /\ entries' = [j \in Slots |-> IF j = i THEN e ELSE entries[j]]
  BY DEF Call, OneMore, Verdict, TypeOK
<1>2. e.active = TRUE /\ e.ip = ip /\ e.last_seen = now
  BY DEF Used
<1> HIDE DEF e
<1>3. \A k \in 1..Len(history') : k \in 1..L \/ k = L + 1
  BY <1>1
<1>4. \A k \in 1..Len(history') : history'[k].at <= now'
  BY <1>1, <1>3 DEF HeardInv
<1>5. \A o : o # ip =>
        /\ Before(history', o, NextRequest(history'))
             = Before(history, o, NextRequest(history))
        /\ \A k \in Before(history, o, NextRequest(history)) :
             history'[k] = history[k]
  BY <1>1, <1>3 DEF Before, NextRequest
<1>6. ASSUME NEW j \in Slots, entries'[j].active
      PROVE  entries'[j].ip \in IPs /\ LastHeard(entries'[j], history')
  <2>1. CASE j = i
    <3>1. entries'[j] = e
      BY <1>1, <2>1
    <3>2. L + 1 \in Before(history', ip, NextRequest(history'))
      BY <1>1 DEF Before, NextRequest
    <3>3. \A k \in Before(history', ip, NextRequest(history')) :
            history'[k].at <= now
      BY <1>1, <1>4 DEF Before, NextRequest
    <3>4. QED BY <1>1, <1>2, <3>1, <3>2, <3>3 DEF LastHeard
  <2>2. CASE j # i
    <3>1. entries'[j] = entries[j]
      BY <1>1, <2>2
    <3>2. entries[j].ip \in IPs /\ LastHeard(entries[j], history)
      BY <1>6, <3>1 DEF HeardInv
    <3>3. entries[j].ip # ip
      <4> SUFFICES ASSUME Holds(entries[j], ip) PROVE FALSE
        BY <1>6, <3>1 DEF Holds
      <4>1. Holds(entries[i], ip)
        BY DEF Call, Choice
      <4>2. QED BY <1>1, <2>2, <4>1 DEF TableInv, OneEntryPerIp, Holds
    <3>4. QED BY <1>5, <3>1, <3>2, <3>3 DEF LastHeard
  <2>3. QED BY <2>1, <2>2
<1>7. ASSUME NEW o \in IPs, \A j \in Slots : ~Holds(entries'[j], o)
      PROVE  \/ Before(history', o, NextRequest(history')) = {}
             \/ Forgettable(history', o, NextRequest(history'))
  <2>1. o # ip
    BY <1>1, <1>2, <1>7 DEF Holds
  <2>2. CASE Holds(entries[i], o)
    <3>1. entries[i].active /\ entries[i].ip = o /\ ~Holds(entries[i], ip)
      BY <2>1, <2>2 DEF Holds
    <3>2. QED BY <3>1, EvictedIsForgettable
  <2>3. CASE ~Holds(entries[i], o)
    <3>1. \A j \in Slots : ~Holds(entries[j], o)
      BY <1>1, <1>7, <2>3
    <3>2. \/ Before(history, o, NextRequest(history)) = {}
          \/ Forgettable(history, o, NextRequest(history))
      BY <3>1 DEF HeardInv
    <3>3. CASE Before(history, o, NextRequest(history)) = {}
      BY <1>5, <2>1, <3>3
    <3>4. CASE Forgettable(history, o, NextRequest(history))
      <4>1. /\ OneMore(history', history, Verdict(i, ip))
            /\ Verdict(i, ip).ip # o
        BY <2>1 DEF Call, Verdict
      <4>2. QED BY <3>4, <4>1, SizesAssumption, StillForgettable DEF NextRequest
    <3>5. QED BY <3>2, <3>3, <3>4
  <2>4. QED BY <2>2, <2>3
<1>8. QED BY <1>4, <1>6, <1>7 DEF HeardInv, Slots

(***************************************************************************)
(* What is left of an entry's timestamps when its request is looked at are *)
(* the grants in the window since its quota was new.                       *)
(***************************************************************************)
LEMMA KeptAreTheGrants ==
  ASSUME LimiterInv, NEW i, NEW ip \in IPs, i \in Slots, Choice(i, ip)
  PROVE  \E n \in 1..NextRequest(history) :
           /\ NewQuota(history, ip, n)
           /\ Lists(Kept(entries[i], ip), Times(history),
                    InWindow(history, now, ip, n))
<1>1. Len(history) \in Nat
  BY DEF LimiterInv, TypeOK
<1>2. CASE Holds(entries[i], ip)
  <2>1. entries[i].active /\ entries[i].ip = ip
    BY <1>2 DEF Holds
  <2>2. PICK n \in 1..NextRequest(history) :
          /\ NewQuota(history, ip, n)
          /\ RemembersFrom(entries[i], history, now, n)
    BY <2>1 DEF LimiterInv, GrantInv
  <2>3. PICK D :
          Remembers(entries[i].timestamps, history, now, entries[i].ip, n, D)
    BY <2>2 DEF RemembersFrom
  <2>4. /\ InWindow(history, now, ip, n) \subseteq D
        /\ D \subseteq Granted(history, ip, n)
        /\ Lists(entries[i].timestamps, Times(history), D)
    BY <2>1, <2>3 DEF Remembers
  <2>5. \A d \in D : Times(history)[d] = history[d].at
    BY <1>1, <2>2, <2>4 DEF Granted, Times, NextRequest
  <2>6. {d \in D : Fresh(Times(history)[d])} = InWindow(history, now, ip, n)
    BY <2>4, <2>5 DEF InWindow, Fresh
  <2>7. Lists(prune_entry(entries[i].timestamps), Times(history),
              {d \in D : Fresh(Times(history)[d])})
    BY <2>4, PruneList
  <2>8. Kept(entries[i], ip) = prune_entry(entries[i].timestamps)
    BY <1>2 DEF Kept
  <2>9. QED BY <2>2, <2>6, <2>7, <2>8
<1>3. CASE ~Holds(entries[i], ip)
  <2>1. \A j \in Slots : ~Holds(entries[j], ip)
    BY <1>3 DEF Choice
  <2>2. Kept(entries[i], ip) = <<>>
    BY <1>3 DEF Kept
  <2>3. Lists(<<>>, Times(history), {})
    <3> DEFINE f == [k \in {} |-> k]
    <3>1. f \in Bijection({}, {})
      BY DEF Bijection, Injection, Surjection, IsInjective
    <3>2. 1..Len(<<>>) = {}
      OBVIOUS
    <3>3. QED BY <3>1, <3>2 DEF Lists
  <2>4. CASE Before(history, ip, NextRequest(history)) = {}
    <3>1. InWindow(history, now, ip, 1) = {}
      BY <1>1, <2>4 DEF Before, NextRequest, InWindow, Granted
    <3>2. 1 \in 1..NextRequest(history)
      BY <1>1 DEF NextRequest
    <3>3. QED BY <2>2, <2>3, <3>1, <3>2 DEF NewQuota
  <2>5. CASE Forgettable(history, ip, NextRequest(history))
    <3>1. InWindow(history, now, ip, NextRequest(history)) = {}
      BY <1>1 DEF NextRequest, InWindow, Granted
    <3>2. NextRequest(history) \in 1..NextRequest(history)
      BY <1>1 DEF NextRequest
    <3>3. QED BY <2>2, <2>3, <2>5, <3>1, <3>2 DEF NewQuota
  <2>6. QED BY <2>1, <2>4, <2>5 DEF LimiterInv, HeardInv
<1>4. QED BY <1>2, <1>3


(* What is remembered after a request: one timestamp more if it was        *)
(* granted and is the address's, the same otherwise.                       *)
LEMMA RemembersNext ==
  ASSUME NEW list, NEW h, NEW t, NEW ip, NEW n \in 1..NextRequest(h), NEW D,
         Remembers(list, h, t, ip, n, D),
         NEW g, NEW r \in Request, OneMore(g, h, r)
  PROVE  /\ r.ip = ip /\ r.granted =>
              Remembers(Append(list, r.at), g, t, ip, n, D \cup {Len(h) + 1})
         /\ ~(r.ip = ip /\ r.granted) => Remembers(list, g, t, ip, n, D)
<1> DEFINE x == Len(h) + 1
<1>1. /\ InWindow(h, t, ip, n) \subseteq D
      /\ D \subseteq Granted(h, ip, n)
      /\ Lists(list, Times(h), D)
  BY DEF Remembers
<1>2. /\ Granted(g, ip, n) = Granted(h, ip, n) \cup
           (IF r.ip = ip /\ r.granted THEN {x} ELSE {})
      /\ x \notin Granted(h, ip, n)
      /\ \A k \in Granted(h, ip, n) :
           g[k] = h[k] /\ Times(g)[k] = Times(h)[k]
      /\ Times(g)[x] = r.at
  <2>1. n \in 1..(Len(h) + 1)
    BY DEF NextRequest
  <2> HIDE DEF x
  <2>2. /\ Granted(g, ip, n) = Granted(h, ip, n) \cup
             (IF r.ip = ip /\ r.granted THEN {Len(h) + 1} ELSE {})
        /\ Len(h) + 1 \notin Granted(h, ip, n)
        /\ \A k \in Granted(h, ip, n) :
             g[k] = h[k] /\ Times(g)[k] = Times(h)[k]
        /\ Times(g)[Len(h) + 1] = r.at
    BY <2>1, GrantedAfter
  <2>3. QED BY <2>2 DEF x
<1>3. r.at \in Nat
  BY DEF Request
<1> HIDE DEF x
<1>4. Lists(list, Times(g), D)
  BY <1>1, <1>2, ListsSame
<1>5. Lists(Append(list, r.at), Times(g), D \cup {x})
  <2>1. x \notin D /\ Times(g)[x] \in Nat
    BY <1>1, <1>2, <1>3
  <2>2. Lists(Append(list, Times(g)[x]), Times(g), D \cup {x})
    BY <1>4, <2>1, ListsOneMore
  <2>3. QED BY <1>2, <2>2
<1>6. /\ r.ip = ip /\ r.granted =>
           /\ InWindow(g, t, ip, n) \subseteq D \cup {x}
           /\ D \cup {x} \subseteq Granted(g, ip, n)
      /\ ~(r.ip = ip /\ r.granted) =>
           /\ InWindow(g, t, ip, n) \subseteq D
           /\ D \subseteq Granted(g, ip, n)
  BY <1>1, <1>2 DEF InWindow
<1>7. QED BY <1>4, <1>5, <1>6 DEF x, Remembers

(* Each entry goes on remembering the grants of its own address.           *)
LEMMA CallGrants ==
  ASSUME LimiterInv, NEW i, NEW ip \in IPs, Call(i, ip)
  PROVE  GrantInv'
<1> DEFINE L == Len(history)
           e == Used(entries[i], ip)
           kept == Kept(entries[i], ip)
           r == Verdict(i, ip)
<1>1. /\ i \in Slots /\ Choice(i, ip) /\ now' = now
      /\ r \in Request /\ OneMore(history', history, r)
      /\ r.ip = ip /\ r.at = now /\ (r.granted <=> ~AtLimit(kept))
      /\ entries' = [j \in Slots |-> IF j = i THEN e ELSE entries[j]]
  BY DEF Call, Verdict
<1>2. /\ e.ip = ip
      /\ e.timestamps = IF AtLimit(kept) THEN kept ELSE Append(kept, now)
  BY DEF Used
<1> HIDE DEF e, kept, r
<1>3. L \in Nat /\ NextRequest(history') = NextRequest(history) + 1
        /\ 1..NextRequest(history) \subseteq 1..NextRequest(history')
  BY <1>1 DEF OneMore, NextRequest
<1>4. ASSUME NEW n \in 1..NextRequest(history), NEW o, NewQuota(history, o, n)
      PROVE  NewQuota(history', o, n)
  BY <1>1, <1>4, SamePast DEF NewQuota, NextRequest
<1>5. \E n \in 1..NextRequest(history') :
        /\ NewQuota(history', e.ip, n)
        /\ RemembersFrom(e, history', now, n)
  <2>1. PICK n \in 1..NextRequest(history) :
          /\ NewQuota(history, ip, n)
          /\ Lists(kept, Times(history), InWindow(history, now, ip, n))
    BY <1>1, KeptAreTheGrants DEF kept
  <2> DEFINE D == InWindow(history, now, ip, n)
  <2>2. Remembers(kept, history, now, ip, n, D)
    BY <2>1 DEF Remembers, InWindow
  <2> HIDE DEF D
  <2>3. /\ r.granted => Remembers(Append(kept, now), history', now, ip, n,
                                  D \cup {L + 1})
        /\ ~r.granted => Remembers(kept, history', now, ip, n, D)
    BY <1>1, <2>2, RemembersNext
  <2>4. RemembersFrom(e, history', now, n)
    BY <1>1, <1>2, <2>3 DEF RemembersFrom
  <2>5. QED BY <1>2, <1>3, <1>4, <2>1, <2>4
<1>6. ASSUME NEW j \in Slots, j # i, entries[j].active
      PROVE  \E n \in 1..NextRequest(history') :
               /\ NewQuota(history', entries[j].ip, n)
               /\ RemembersFrom(entries[j], history', now, n)
  <2> DEFINE o == entries[j].ip
  <2>1. PICK n \in 1..NextRequest(history) :
          /\ NewQuota(history, o, n)
          /\ RemembersFrom(entries[j], history, now, n)
    BY <1>6 DEF LimiterInv, GrantInv
  <2>2. PICK D : Remembers(entries[j].timestamps, history, now, o, n, D)
    BY <2>1 DEF RemembersFrom
  <2>3. r.ip # o
    <3> SUFFICES ASSUME o = ip PROVE FALSE
      BY <1>1
    <3>1. Holds(entries[j], ip)
      BY <1>6 DEF Holds
    <3>2. Holds(entries[i], ip)
      BY <1>1, <3>1 DEF Choice
    <3>3. QED
      BY <1>1, <1>6, <3>1, <3>2 DEF LimiterInv, TableInv, OneEntryPerIp, Holds
  <2>4. Remembers(entries[j].timestamps, history', now, o, n, D)
    BY <1>1, <2>2, <2>3, RemembersNext
  <2>5. RemembersFrom(entries[j], history', now, n)
    BY <2>4 DEF RemembersFrom
  <2>6. QED BY <1>3, <1>4, <2>1, <2>5
<1>7. \A j \in Slots : entries'[j] = IF j = i THEN e ELSE entries[j]
  BY <1>1
<1>8. \A j \in Slots : entries'[j].active =>
        \E n \in 1..NextRequest(history') :
          /\ NewQuota(history', entries'[j].ip, n)
          /\ RemembersFrom(entries'[j], history', now', n)
  BY <1>1, <1>5, <1>6, <1>7
<1>9. QED BY <1>8 DEF GrantInv, Slots

(* The only entry a call changes becomes the address's; any other entry    *)
(* the address had before would have been the one chosen.                  *)
LEMMA CallKeepsTable ==
  ASSUME TableInv, NEW i, NEW ip \in IPs, Call(i, ip)
  PROVE  TableInv'
<1> DEFINE e == Used(entries[i], ip)
<1>1. /\ entries' = [j \in Slots |-> IF j = i THEN e ELSE entries[j]]
      /\ e.ip = ip /\ i \in Slots /\ Choice(i, ip)
  BY DEF Call, Used
<1> HIDE DEF e
<1>2. entries' = [j \in Slots |-> entries'[j]]
  BY <1>1
<1>3. ASSUME NEW k \in Slots, k # i, entries[k].active
      PROVE  entries[k].ip # ip
  <2> SUFFICES ASSUME entries[k].ip = ip PROVE FALSE
    OBVIOUS
  <2>1. Holds(entries[k], ip) /\ Holds(entries[i], ip)
    BY <1>1, <1>3 DEF Choice, Holds
  <2>2. QED BY <1>1, <1>3, <2>1 DEF TableInv, OneEntryPerIp, Holds
<1>4. ASSUME NEW j \in Slots, NEW k \in Slots,
             entries'[j].active, entries'[k].active,
             entries'[j].ip = entries'[k].ip
      PROVE  j = k
  <2>1. CASE j # i /\ k # i
    BY <1>1, <1>4, <2>1 DEF TableInv, OneEntryPerIp
  <2>2. CASE j = i \/ k = i
    BY <1>1, <1>3, <1>4, <2>2
  <2>3. QED BY <2>1, <2>2
<1>5. OneEntryPerIp'
  BY <1>4 DEF OneEntryPerIp, Slots
<1>6. QED BY <1>2, <1>5 DEF TableInv, Slots

-----------------------------------------------------------------------------
(* The verdict of a call is one that SlidingWindow allows.                 *)
LEMMA CallRefines ==
  ASSUME LimiterInv, NEW i, NEW ip \in IPs, Call(i, ip)
  PROVE  Window!Grant(ip) \/ Window!Refuse(ip)
<1> DEFINE kept == Kept(entries[i], ip)
           granted == ~AtLimit(kept)
<1>1. /\ i \in Slots /\ Choice(i, ip)
      /\ Window!Answer(ip, granted)
  BY DEF Call, Verdict, Window!Answer
<1>2. PICK n \in 1..NextRequest(history) :
        /\ NewQuota(history, ip, n)
        /\ Lists(kept, Times(history), InWindow(history, now, ip, n))
  BY <1>1, KeptAreTheGrants
<1> HIDE DEF kept
<1> DEFINE D == InWindow(history, now, ip, n)
<1>3. IsFiniteSet(D) /\ Cardinality(D) = Len(kept) /\ Len(kept) \in Nat
  BY <1>2, ListsLength
<1>4. /\ Window!Cardinality(Window!Grants(ip, n)) = Len(kept)
      /\ n = 1 \/ Window!MayBeForgotten(ip, n)
  <2>1. Window!Grants(ip, n) = D
    BY SameNotions
  <2>2. Window!Cardinality(D) = Cardinality(D)
    BY SameCardinality
  <2>3. Window!MayBeForgotten(ip, n) <=> Forgettable(history, ip, n)
    BY SameNotions
  <2>4. QED BY <1>2, <1>3, <2>1, <2>2, <2>3 DEF NewQuota
<1>5. MAX_REQUESTS \in Nat
  BY SizesAssumption
<1>6. CASE granted
  <2>1. Len(kept) < MAX_REQUESTS
    BY <1>3, <1>5, <1>6 DEF AtLimit
  <2>2. n \in 1..(Len(history) + 1)
    BY DEF NextRequest
  <2>3. Window!Answer(ip, TRUE)
    BY <1>1, <1>6
  <2>4. QED BY <1>4, <2>1, <2>2, <2>3 DEF Window!Grant
<1>7. CASE ~granted
  <2>1. Len(kept) >= MAX_REQUESTS
    BY <1>7 DEF AtLimit
  <2>2. Window!Answer(ip, FALSE)
    BY <1>1, <1>7
  <2> DEFINE All == InWindow(history, now, ip, 1)
  <2>3. Len(history) \in Nat
    BY DEF LimiterInv, TypeOK
  <2>4. D \in SUBSET All
    BY <2>3 DEF InWindow, Granted, NextRequest
  <2>5. IsFiniteSet(All)
    <3>1. All \in SUBSET (1..Len(history))
      BY DEF InWindow, Granted
    <3>2. IsFiniteSet(1..Len(history))
      BY <2>3, FS_Interval
    <3> HIDE DEF All
    <3>3. QED BY <3>1, <3>2, FS_Subset
  <2> HIDE DEF All, D
  <2>6. Cardinality(D) <= Cardinality(All) /\ Cardinality(All) \in Nat
    BY <2>4, <2>5, FS_Subset, FS_CardinalityType
  <2>7. Window!Cardinality(Window!Grants(ip, 1)) = Cardinality(All)
    <3>1. Window!Grants(ip, 1) = All
      BY SameNotions DEF All
    <3>2. QED BY <3>1, SameCardinality
  <2>8. Cardinality(All) >= MAX_REQUESTS
    BY <1>3, <1>5, <2>1, <2>6
  <2>9. QED BY <2>2, <2>7, <2>8 DEF Window!Refuse
<1>8. QED BY <1>6, <1>7

-----------------------------------------------------------------------------
(* The steps together.                                                     *)

(* The empty table of the start.                                           *)
LEMMA InitLimiterInv == Init => LimiterInv
<1> SUFFICES ASSUME Init PROVE LimiterInv
  OBVIOUS
<1>1. /\ now = 1 /\ history = <<>> /\ Len(history) = 0
      /\ entries = [i \in Slots |-> FreeEntry]
  BY DEF Init
<1>2. FreeEntry \in Entry /\ Len(FreeEntry.timestamps) = 0
        /\ FreeEntry.active = FALSE
  BY DEF FreeEntry, Entry
<1> HIDE DEF FreeEntry
<1>3. TypeOK
  BY <1>1, <1>2, SizesAssumption DEF TypeOK
<1>4. TableInv
  BY <1>1, <1>2 DEF TableInv, OneEntryPerIp
<1>5. HeardInv
  <2>1. \A ip : Before(history, ip, NextRequest(history)) = {}
    BY <1>1 DEF Before, NextRequest
  <2>2. QED BY <1>1, <1>2, <2>1 DEF HeardInv
<1>6. GrantInv
  BY <1>1, <1>2 DEF GrantInv
<1>7. QED BY <1>3, <1>4, <1>5, <1>6 DEF LimiterInv

(* As time goes by requests only leave the window.                         *)
LEMMA TickLimiterInv ==
  ASSUME LimiterInv, Tick
  PROVE  LimiterInv'
<1>1. /\ now \in Nat /\ now' = now + 1
      /\ entries' = entries /\ history' = history
  BY DEF LimiterInv, TypeOK, Tick
<1>2. TypeOK'
  BY <1>1 DEF LimiterInv, TypeOK, Slots
<1>3. TableInv'
  BY <1>1 DEF LimiterInv, TableInv, OneEntryPerIp, Slots
<1>4. \A k \in 1..Len(history) : history[k].at \in Nat
  <2>1. history \in Seq(Request)
    BY DEF LimiterInv, TypeOK, Request
  <2>2. \A k \in 1..Len(history) : history[k] \in Request
    BY <2>1
  <2>3. QED BY <2>2 DEF Request
<1>5. HeardInv'
  <2>1. \A k \in 1..Len(history) : history[k].at <= now + 1
    BY <1>1, <1>4 DEF LimiterInv, HeardInv
  <2>2. QED BY <1>1, <2>1 DEF LimiterInv, HeardInv, Holds, Slots
<1>6. ASSUME NEW e, NEW n \in 1..NextRequest(history),
             RemembersFrom(e, history, now, n)
      PROVE  RemembersFrom(e, history, now + 1, n)
  <2>1. PICK D : Remembers(e.timestamps, history, now, e.ip, n, D)
    BY <1>6 DEF RemembersFrom
  <2>2. Len(history) \in Nat /\ WINDOW \in Nat
    BY SizesAssumption DEF LimiterInv, TypeOK
  <2>3. InWindow(history, now + 1, e.ip, n)
          \subseteq InWindow(history, now, e.ip, n)
    BY <1>1, <1>4, <2>2 DEF InWindow, Granted, NextRequest
  <2>4. Remembers(e.timestamps, history, now + 1, e.ip, n, D)
    BY <2>1, <2>3 DEF Remembers
  <2>5. QED BY <2>4 DEF RemembersFrom
<1>7. GrantInv'
  BY <1>1, <1>6 DEF LimiterInv, GrantInv, Slots
<1>8. QED BY <1>2, <1>3, <1>5, <1>7 DEF LimiterInv

(* Every step keeps the invariant.                                         *)
LEMMA StepLimiterInv == LimiterInv /\ [Next]_vars => LimiterInv'
<1> SUFFICES ASSUME LimiterInv, [Next]_vars
             PROVE  LimiterInv'
  OBVIOUS
<1>1. CASE Tick
  BY <1>1, TickLimiterInv
<1>2. ASSUME NEW ip \in IPs, rate_limit_allow(ip) PROVE LimiterInv'
  <2>1. PICK i : Call(i, ip)
    BY <1>2, CallHappens DEF LimiterInv
  <2>2. QED
    BY <2>1, CallTypes, CallKeepsTable, CallHeard, CallGrants DEF LimiterInv
<1>3. CASE UNCHANGED vars
  BY <1>3 DEF vars, LimiterInv, TypeOK, TableInv, OneEntryPerIp, HeardInv,
     GrantInv, Holds, Slots
<1>4. QED BY <1>1, <1>2, <1>3 DEF Next

(* The table is, at every instant, a digest of the history.                *)
THEOREM LimiterInvHolds == Spec => []LimiterInv
BY InitLimiterInv, StepLimiterInv, PTL DEF Spec

-----------------------------------------------------------------------------
(* An entry never holds more timestamps than its array has room for.       *)
THEOREM Types == Spec => []TypeOK
<1>1. LimiterInv => TypeOK
  BY DEF LimiterInv
<1>2. QED BY <1>1, LimiterInvHolds, PTL

(***************************************************************************)
(* No address ever holds two entries of the table, however full it is and  *)
(* in whatever order entries were given out and taken back.                *)
(***************************************************************************)
THEOREM OneEntry == Spec => []OneEntryPerIp
<1>1. LimiterInv => OneEntryPerIp
  BY DEF LimiterInv, TableInv
<1>2. QED BY <1>1, LimiterInvHolds, PTL

(***************************************************************************)
(* The table implements the sliding window: every verdict is the one that  *)
(* the whole history of requests calls for, unless the address may have    *)
(* been forgotten.                                                         *)
(***************************************************************************)
THEOREM Implementation == Spec => SlidingWindow
<1>1. Init => Window!Init
  BY DEF Init, Window!Init
<1>2. LimiterInv /\ [Next]_vars => [Window!Next]_(Window!vars)
  <2> SUFFICES ASSUME LimiterInv, [Next]_vars
               PROVE  [Window!Next]_(Window!vars)
    OBVIOUS
  <2>1. CASE Tick
    BY <2>1 DEF Tick, Window!Next, Window!Tick
  <2>2. ASSUME NEW ip \in IPs, rate_limit_allow(ip)
        PROVE  Window!Next
    <3>1. PICK i : Call(i, ip)
      BY <2>2, CallHappens DEF LimiterInv
    <3>2. QED BY <3>1, CallRefines DEF Window!Next
  <2>3. CASE UNCHANGED vars
    BY <2>3 DEF vars, Window!vars
  <2>4. QED BY <2>1, <2>2, <2>3 DEF Next
<1>3. QED
  BY <1>1, <1>2, LimiterInvHolds, PTL DEF Spec, SlidingWindow, Window!Spec

-----------------------------------------------------------------------------
(* With no more addresses than entries nobody is ever forgotten.           *)
LEMMA NobodyForgotten ==
  ASSUME IsFiniteSet(IPs), Cardinality(IPs) <= MAX_ENTRIES, NEW ip \in IPs,
         NEW n
  PROVE  ~Window!MayBeForgotten(ip, n)
<1> DEFINE others == OthersHeard(history, ip, n)
<1>1. others \in SUBSET (IPs \ {ip})
  BY DEF OthersHeard
<1>2. /\ IsFiniteSet(IPs \ {ip})
      /\ Cardinality(IPs \ {ip}) = Cardinality(IPs) - 1
      /\ Cardinality(IPs) \in Nat
  BY FS_RemoveElement, FS_CardinalityType
<1> HIDE DEF others
<1>3. Cardinality(others) <= Cardinality(IPs \ {ip})
        /\ Cardinality(others) \in Nat
  BY <1>1, <1>2, FS_Subset, FS_CardinalityType
<1>4. ~(Cardinality(others) >= MAX_ENTRIES)
  BY <1>2, <1>3, SizesAssumption
<1>5. QED BY <1>4, SameNotions DEF others, Forgettable

(***************************************************************************)
(* Then the limiter is exact: a request is granted if and only if its      *)
(* address was granted fewer than MAX_REQUESTS within the window.          *)
(***************************************************************************)
ExactVerdict(ip) ==
  rate_limit_allow(ip) =>
    (history'[Len(history')].granted
       <=> Window!Cardinality(Window!Grants(ip, 1)) < MAX_REQUESTS)

THEOREM ExactForFewAddresses ==
  ASSUME IsFiniteSet(IPs), Cardinality(IPs) <= MAX_ENTRIES
  PROVE  Spec => [][\A ip \in IPs : ExactVerdict(ip)]_vars
<1>1. ASSUME LimiterInv, NEW ip \in IPs, rate_limit_allow(ip)
      PROVE  history'[Len(history')].granted
               <=> Window!Cardinality(Window!Grants(ip, 1)) < MAX_REQUESTS
  <2>1. PICK i : Call(i, ip)
    BY <1>1, CallHappens DEF LimiterInv
  <2>2. \A g \in BOOLEAN :
          Window!Answer(ip, g) => history'[Len(history')].granted = g
    BY <1>1 DEF LimiterInv, TypeOK, Window!Answer
  <2>3. CASE Window!Grant(ip)
    <3>1. Window!Cardinality(Window!Grants(ip, 1)) < MAX_REQUESTS
      BY <2>3, NobodyForgotten DEF Window!Grant
    <3>2. QED BY <2>2, <2>3, <3>1 DEF Window!Grant
  <2>4. CASE Window!Refuse(ip)
    <3>1. /\ InWindow(history, now, ip, 1) \in SUBSET (1..Len(history))
          /\ IsFiniteSet(1..Len(history))
      BY <1>1, FS_Interval DEF InWindow, Granted, LimiterInv, TypeOK
    <3>2. Cardinality(InWindow(history, now, ip, 1)) \in Nat
      BY <3>1, FS_Subset, FS_CardinalityType
    <3>3. Window!Cardinality(Window!Grants(ip, 1)) \in Nat
      BY <3>2, SameNotions, SameCardinality
    <3>4. ~(Window!Cardinality(Window!Grants(ip, 1)) < MAX_REQUESTS)
      BY <2>4, <3>3, SizesAssumption DEF Window!Refuse
    <3>5. QED BY <2>2, <2>4, <3>4 DEF Window!Refuse
  <2>5. QED BY <1>1, <2>1, <2>3, <2>4, CallRefines
<1>2. LimiterInv => [\A ip \in IPs : ExactVerdict(ip)]_vars
  BY <1>1 DEF ExactVerdict
<1>3. QED BY <1>2, LimiterInvHolds, PTL

=============================================================================
