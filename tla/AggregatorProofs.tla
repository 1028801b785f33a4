--------------------------- MODULE AggregatorProofs ---------------------------
(***************************************************************************)
(* Proofs about Aggregator for any actors, names, selections and numbers   *)
(* of snapshots: type correctness, that one request is out at a time, and  *)
(* that a report is fresh and complete.                                    *)
(*                                                                         *)
(* The lists of names are built by a loop and by sorting; what they hold   *)
(* is shown by induction, as the absence of a least counterexample.        *)
(***************************************************************************)
EXTENDS Aggregator, FiniteSetTheorems, TLAPS

USE NamesAssumption, FailingAssumption, BoundAssumption

-------------------------------------------------------------------------------
(* Induction.                                                              *)

\* A set of natural numbers has a least element.
LEMMA LeastNatural ==
    ASSUME NEW T \in SUBSET Nat, T # {}
    PROVE  \E n \in T : \A m \in T : n <= m
  <1>1. IsWellFoundedOn(OpToRel(<, Nat), Nat)
    BY NatLessThanWellFounded
  <1>2. PICK R : R = OpToRel(<, Nat)
    OBVIOUS
  <1>3. PICK x \in T : \A y \in T : ~(<<y, x>> \in R)
    <2>1. IsWellFoundedOn(R, Nat)
      BY <1>1, <1>2
    <2>. QED
      BY <2>1, WFMin
  <1>4. \A m, n \in Nat : <<m, n>> \in R <=> m < n
    BY <1>2 DEF OpToRel
  <1>5. \A y \in T : x <= y
    <2>. TAKE y \in T
    <2>1. x \in Nat /\ y \in Nat
      OBVIOUS
    <2>2. ~(y < x)
      BY <1>3, <1>4, <2>1
    <2>. QED
      BY <2>1, <2>2
  <1>. QED
    BY <1>5

-------------------------------------------------------------------------------
(* The order of the BTreeMap.                                              *)

IsAscending(S, l) ==
    /\ l \in [1 .. Cardinality(S) -> S]
    /\ \A i, j \in 1 .. Cardinality(S) : i < j => l[i] < l[j]

\* A finite set of names can be put in order: its least one, then the others.
LEMMA AscendingExists ==
    ASSUME NEW S \in SUBSET Nat, IsFiniteSet(S)
    PROVE  \E l : IsAscending(S, l)
  <1>. DEFINE T == {n \in Nat : \E R \in SUBSET Nat :
                        IsFiniteSet(R) /\ Cardinality(R) = n /\ ~\E l : IsAscending(R, l)}
  <1>1. SUFFICES ASSUME ~\E l : IsAscending(S, l) PROVE FALSE
    OBVIOUS
  <1>2. T \in SUBSET Nat /\ Cardinality(S) \in T
    BY <1>1, FS_CardinalityType
  <1>3. PICK n \in T : \A m \in T : n <= m
    <2>. HIDE DEF T
    <2>. QED
      BY <1>2, LeastNatural
  <1>4. PICK R \in SUBSET Nat :
            IsFiniteSet(R) /\ Cardinality(R) = n /\ ~\E l : IsAscending(R, l)
    BY <1>3
  <1>5. n \in Nat
    BY <1>3
  <1>6. CASE R = {}
    <2>1. Cardinality(R) = 0
      BY <1>6, FS_EmptySet
    <2>2. IsAscending(R, [i \in 1 .. 0 |-> 0])
      BY <2>1 DEF IsAscending
    <2>. QED
      BY <1>4, <2>2
  <1>7. CASE R # {}
    <2>1. PICK x \in R : \A y \in R : x <= y
      BY <1>7, LeastNatural
    <2>2. /\ R \ {x} \in SUBSET Nat /\ IsFiniteSet(R \ {x})
          /\ Cardinality(R \ {x}) = n - 1 /\ Cardinality(R \ {x}) \in Nat
      BY <1>4, <2>1, FS_RemoveElement, FS_CardinalityType
    <2>3. n - 1 \notin T
      <3>1. \A m \in T : n <= m /\ n \in Nat
        BY <1>3, <1>5
      <3>. HIDE DEF T
      <3>. QED
        BY <3>1, <1>5
    <2>4. PICK l : IsAscending(R \ {x}, l)
      BY <2>2, <2>3
    <2>. DEFINE k == [i \in 1 .. n |-> IF i = 1 THEN x ELSE l[i - 1]]
    <2>5. /\ l \in [1 .. n - 1 -> R \ {x}]
          /\ \A i, j \in 1 .. n - 1 : i < j => l[i] < l[j]
      BY <2>2, <2>4 DEF IsAscending
    <2>6. \A i \in 1 .. n : i # 1 => /\ i - 1 \in 1 .. n - 1
                                     /\ k[i] = l[i - 1] /\ k[i] \in R /\ x < k[i]
      <3>. TAKE i \in 1 .. n
      <3>. HAVE i # 1
      <3>1. i - 1 \in 1 .. n - 1
        BY <1>5
      <3>2. k[i] = l[i - 1] /\ l[i - 1] \in R \ {x}
        BY <2>5, <3>1
      <3>3. x <= k[i] /\ x # k[i] /\ x \in Nat /\ k[i] \in Nat
        BY <2>1, <3>2
      <3>. QED
        BY <3>1, <3>2, <3>3
    <2>7. k \in [1 .. n -> R]
      <3>1. \A i \in 1 .. n : k[i] \in R
        BY <2>1, <2>6
      <3>. QED
        BY <3>1
    <2>8. ASSUME NEW i \in 1 .. n, NEW j \in 1 .. n, i < j PROVE k[i] < k[j]
      <3>1. j # 1 /\ j - 1 \in 1 .. n - 1 /\ k[j] = l[j - 1] /\ x < k[j]
        BY <1>5, <2>6, <2>8
      <3>2. CASE i = 1
        BY <3>1, <3>2
      <3>3. CASE i # 1
        <4>1. i - 1 \in 1 .. n - 1 /\ k[i] = l[i - 1] /\ i - 1 < j - 1
          BY <1>5, <2>6, <2>8, <3>3
        <4>. HIDE DEF k
        <4>. QED
          BY <2>5, <3>1, <4>1
      <3>. QED
        BY <3>2, <3>3
    <2>9. IsAscending(R, k)
      <3>. HIDE DEF k
      <3>. QED
        BY <1>4, <2>7, <2>8 DEF IsAscending
    <2>. QED
      BY <1>4, <2>9
  <1>. QED
    BY <1>6, <1>7

\* It lists every one of them.
LEMMA AscendingList ==
    ASSUME NEW S \in SUBSET Nat, IsFiniteSet(S)
    PROVE  Ascending(S) \in Seq(S) /\ ToSet(Ascending(S)) = S
  <1>1. PICK l : l = Ascending(S)
    OBVIOUS
  <1>2. IsAscending(S, l)
    <2>1. \E k \in [1 .. Cardinality(S) -> S] :
              \A i, j \in 1 .. Cardinality(S) : i < j => k[i] < k[j]
      BY AscendingExists DEF IsAscending
    <2>. QED
      BY <1>1, <2>1 DEF Ascending, IsAscending
  <1>3. PICK n \in Nat : n = Cardinality(S)
    BY FS_CardinalityType
  <1>4. l \in [1 .. n -> S] /\ \A i, j \in 1 .. n : i < j => l[i] < l[j]
    BY <1>2, <1>3 DEF IsAscending
  <1>5. l \in Injection(1 .. n, S)
    <2>1. \A i, j \in 1 .. n : l[i] = l[j] => i = j
      <3>. TAKE i \in 1 .. n, j \in 1 .. n
      <3>1. l[i] \in Nat /\ l[j] \in Nat
        BY <1>4
      <3>. QED
        BY <1>4, <3>1
    <2>. QED
      BY <1>4, <2>1 DEF Injection, IsInjective
  <1>6. IsFiniteSet(1 .. n) /\ Cardinality(1 .. n) = n
    BY FS_Interval
  <1>7. l \in Surjection(1 .. n, S)
    BY <1>3, <1>5, <1>6, FS_Injection
  <1>8. \A s \in S : \E i \in 1 .. n : l[i] = s
    BY <1>7 DEF Surjection
  <1>9. l \in Seq(S) /\ DOMAIN l = 1 .. n
    BY <1>4
  <1>10. ToSet(l) = S
    BY <1>4, <1>8, <1>9 DEF ToSet
  <1>. QED
    BY <1>1, <1>9, <1>10

-------------------------------------------------------------------------------
(* The names of a further snapshot.                                        *)

\* One turn of the loop of Extended, and the function that all turns define.
Turn(names, l, n) == IF names[n] \in ToSet(l) THEN l ELSE Append(l, names[n])
Turns(f, list, names, last) ==
    f = [n \in 0 .. last |-> IF n = 0 THEN list ELSE Turn(names, f[n - 1], n)]

LEMMA TurnsExist ==
    ASSUME NEW list, NEW names, NEW last \in Nat
    PROVE  \E f : Turns(f, list, names, last)
  <1>. DEFINE T == {n \in Nat : ~\E f : Turns(f, list, names, n)}
  <1>1. SUFFICES ASSUME T # {} PROVE FALSE
    OBVIOUS
  <1>2. PICK n \in T : \A m \in T : n <= m
    <2>1. T \in SUBSET Nat
      OBVIOUS
    <2>. HIDE DEF T
    <2>. QED
      BY <1>1, <2>1, LeastNatural
  <1>3. n \in Nat /\ ~\E f : Turns(f, list, names, n)
    OBVIOUS
  <1>4. CASE n = 0
    <2>. DEFINE f == [k \in 0 .. 0 |-> list]
    <2>1. f = [k \in 0 .. 0 |-> IF k = 0 THEN list ELSE Turn(names, f[k - 1], k)]
      OBVIOUS
    <2>2. Turns(f, list, names, 0)
      <3>. HIDE DEF f
      <3>. QED
        BY <2>1 DEF Turns
    <2>. QED
      BY <1>3, <1>4, <2>2
  <1>5. CASE n # 0
    <2>1. n - 1 \in Nat /\ n - 1 \notin T
      <3>1. \A m \in T : n <= m
        BY <1>2
      <3>. HIDE DEF T
      <3>. QED
        BY <1>3, <1>5, <3>1
    <2>2. PICK g : Turns(g, list, names, n - 1)
      BY <2>1
    <2>. DEFINE f == [k \in 0 .. n |-> IF k = n THEN Turn(names, g[n - 1], n) ELSE g[k]]
    <2>3. \A k \in 0 .. n - 1 : /\ f[k] = g[k]
                                /\ g[k] = IF k = 0 THEN list ELSE Turn(names, g[k - 1], k)
      BY <1>3, <2>2 DEF Turns
    <2>4. f[n] = Turn(names, g[n - 1], n)
      BY <1>3
    <2>5. \A k \in 0 .. n : f[k] = IF k = 0 THEN list ELSE Turn(names, f[k - 1], k)
      <3>. TAKE k \in 0 .. n
      <3>1. CASE k = 0
        <4>1. 0 \in 0 .. n - 1
          BY <2>1
        <4>2. f[0] = list
          <5>. HIDE DEF f
          <5>. QED
            BY <2>3, <4>1
        <4>. HIDE DEF f
        <4>. QED
          BY <3>1, <4>2
      <3>2. CASE k # 0 /\ k # n
        <4>1. k \in 0 .. n - 1 /\ k - 1 \in 0 .. n - 1
          BY <1>3, <3>2
        <4>. HIDE DEF f
        <4>. QED
          BY <2>3, <3>2, <4>1
      <3>3. CASE k = n
        <4>1. n - 1 \in 0 .. n - 1
          BY <2>1
        <4>. HIDE DEF f
        <4>. QED
          BY <1>5, <2>3, <2>4, <3>3, <4>1
      <3>. QED
        BY <3>1, <3>2, <3>3
    <2>6. f = [k \in 0 .. n |-> IF k = 0 THEN list ELSE Turn(names, f[k - 1], k)]
      <3>1. f = [k \in 0 .. n |-> f[k]]
        OBVIOUS
      <3>. HIDE DEF f
      <3>. QED
        BY <2>5, <3>1
    <2>7. Turns(f, list, names, n)
      <3>. HIDE DEF f
      <3>. QED
        BY <2>6 DEF Turns
    <2>. QED
      BY <1>3, <2>7
  <1>. QED
    BY <1>4, <1>5

LEMMA ExtendedTurns ==
    ASSUME NEW list, NEW names, Len(names) \in Nat
    PROVE  \E f : Turns(f, list, names, Len(names)) /\ Extended(list, names) = f[Len(names)]
  <1>. DEFINE extended[n \in 0 .. Len(names)] ==
                  IF n = 0 THEN list
                  ELSE IF names[n] \in ToSet(extended[n - 1]) THEN extended[n - 1]
                  ELSE Append(extended[n - 1], names[n])
  <1>1. \E f : f = [n \in 0 .. Len(names) |->
                        IF n = 0 THEN list
                        ELSE IF names[n] \in ToSet(f[n - 1]) THEN f[n - 1]
                        ELSE Append(f[n - 1], names[n])]
    <2>1. PICK f : Turns(f, list, names, Len(names))
      BY TurnsExist
    <2>2. f = [n \in 0 .. Len(names) |->
                  IF n = 0 THEN list
                  ELSE IF names[n] \in ToSet(f[n - 1]) THEN f[n - 1]
                  ELSE Append(f[n - 1], names[n])]
      BY <2>1 DEF Turns, Turn
    <2>. QED
      BY <2>2
  <1>2. extended = [n \in 0 .. Len(names) |->
                        IF n = 0 THEN list
                        ELSE IF names[n] \in ToSet(extended[n - 1]) THEN extended[n - 1]
                        ELSE Append(extended[n - 1], names[n])]
    BY <1>1
  <1>3. Extended(list, names) = extended[Len(names)]
    BY DEF Extended
  <1>. HIDE DEF extended
  <1>. QED
    BY <1>2, <1>3 DEF Turns, Turn

\* What one turn does to a list.
LEMMA TurnList ==
    ASSUME NEW names \in Seq(Names), NEW n \in 1 .. Len(names), NEW l \in Seq(Names)
    PROVE  /\ Turn(names, l, n) \in Seq(Names)
           /\ Len(l) \in Nat /\ Len(Turn(names, l, n)) \in Nat /\ Len(l) <= Len(Turn(names, l, n))
           /\ \A i \in 1 .. Len(l) : Turn(names, l, n)[i] = l[i]
           /\ \A i \in 1 .. Len(Turn(names, l, n)) : i \notin 1 .. Len(l) =>
                  /\ Turn(names, l, n)[i] = names[n] /\ names[n] \notin ToSet(l)
                  /\ i = Len(l) + 1
           /\ ToSet(Turn(names, l, n)) = ToSet(l) \cup {names[n]}
  <1>1. names[n] \in Names
    OBVIOUS
  <1>2. CASE names[n] \in ToSet(l)
    BY <1>2 DEF Turn
  <1>3. CASE names[n] \notin ToSet(l)
    <2>. DEFINE longer == Append(l, names[n])
    <2>1. /\ longer \in Seq(Names) /\ Len(l) \in Nat /\ Len(longer) = Len(l) + 1
          /\ \A i \in 1 .. Len(l) : longer[i] = l[i]
          /\ longer[Len(l) + 1] = names[n]
      BY <1>1
    <2>2. Turn(names, l, n) = longer
      BY <1>3 DEF Turn
    <2>. HIDE DEF longer
    <2>3. ToSet(longer) = ToSet(l) \cup {names[n]}
      <3>1. DOMAIN longer = 1 .. Len(l) + 1 /\ DOMAIN l = 1 .. Len(l)
        BY <2>1
      <3>2. \A x : x \in ToSet(longer) => x \in ToSet(l) \cup {names[n]}
        BY <2>1, <3>1 DEF ToSet
      <3>3. \A x : x \in ToSet(l) \cup {names[n]} => x \in ToSet(longer)
        BY <2>1, <3>1 DEF ToSet
      <3>. QED
        BY <3>2, <3>3
    <2>4. \A i \in 1 .. Len(longer) : i \notin 1 .. Len(l) => i = Len(l) + 1
      BY <2>1
    <2>. QED
      BY <1>3, <2>1, <2>2, <2>3, <2>4
  <1>. QED
    BY <1>2, <1>3

\* Names that are added to list, up to the n-th.
Added(list, names, l, n) ==
    /\ l \in Seq(Names) /\ Len(list) <= Len(l)
    /\ \A i \in 1 .. Len(list) : l[i] = list[i]
    /\ ToSet(l) = ToSet(list) \cup {names[k] : k \in 1 .. n}
    /\ \A i, j \in 1 .. Len(l) : i < j /\ j \notin 1 .. Len(list) => l[i] # l[j]

\* The list of a snapshot keeps what it has, gets every name it does not have yet, and
\* gets it once.
LEMMA ExtendedList ==
    ASSUME NEW list \in Seq(Names), NEW names \in Seq(Names)
    PROVE  Added(list, names, Extended(list, names), Len(names))
  <1>0. Len(names) \in Nat /\ Len(list) \in Nat /\ DOMAIN list = 1 .. Len(list)
    OBVIOUS
  <1>1. PICK f : Turns(f, list, names, Len(names)) /\ Extended(list, names) = f[Len(names)]
    BY <1>0, ExtendedTurns
  <1>2. \A n \in 0 .. Len(names) : f[n] = IF n = 0 THEN list ELSE Turn(names, f[n - 1], n)
    BY <1>1 DEF Turns
  <1>. DEFINE T == {n \in 0 .. Len(names) : ~Added(list, names, f[n], n)}
  <1>3. SUFFICES ASSUME T # {} PROVE FALSE
    BY <1>0, <1>1
  <1>4. PICK n \in T : \A m \in T : n <= m
    <2>1. T \in SUBSET Nat
      BY <1>0
    <2>. HIDE DEF T
    <2>. QED
      BY <1>3, <2>1, LeastNatural
  <1>5. n \in 0 .. Len(names) /\ ~Added(list, names, f[n], n)
    OBVIOUS
  <1>6. n # 0
    <2>1. {names[k] : k \in 1 .. 0} = {}
      OBVIOUS
    <2>2. Added(list, names, list, 0)
      BY <1>0, <2>1 DEF Added
    <2>3. f[0] = list
      BY <1>0, <1>2
    <2>. QED
      BY <1>5, <2>2, <2>3
  <1>7. n \in 1 .. Len(names) /\ n - 1 \in 0 .. Len(names) /\ n - 1 \notin T
    <2>1. \A m \in T : n <= m
      BY <1>4
    <2>. HIDE DEF T
    <2>. QED
      BY <1>0, <1>5, <1>6, <2>1
  <1>8. PICK l : l = f[n - 1]
    OBVIOUS
  <1>9. Added(list, names, l, n - 1)
    BY <1>7, <1>8
  <1>10. PICK t : t = Turn(names, l, n)
    OBVIOUS
  <1>11. f[n] = t
    BY <1>2, <1>5, <1>6, <1>8, <1>10
  <1>12. /\ l \in Seq(Names) /\ t \in Seq(Names)
         /\ Len(l) \in Nat /\ Len(t) \in Nat /\ Len(l) <= Len(t) /\ Len(list) <= Len(l)
         /\ \A i \in 1 .. Len(l) : t[i] = l[i]
         /\ \A i \in 1 .. Len(t) : i \notin 1 .. Len(l) =>
                t[i] = names[n] /\ names[n] \notin ToSet(l) /\ i = Len(l) + 1
         /\ ToSet(t) = ToSet(l) \cup {names[n]}
    BY <1>7, <1>9, <1>10, TurnList DEF Added
  <1>13. \A i \in 1 .. Len(list) : t[i] = list[i]
    BY <1>0, <1>9, <1>12 DEF Added
  <1>14. ToSet(t) = ToSet(list) \cup {names[k] : k \in 1 .. n}
    <2>1. {names[k] : k \in 1 .. n} = {names[k] : k \in 1 .. n - 1} \cup {names[n]}
      BY <1>7
    <2>2. ToSet(l) = ToSet(list) \cup {names[k] : k \in 1 .. n - 1}
      BY <1>9 DEF Added
    <2>. QED
      BY <1>12, <2>1, <2>2
  <1>15. ASSUME NEW i \in 1 .. Len(t), NEW j \in 1 .. Len(t), i < j, j \notin 1 .. Len(list)
         PROVE  t[i] # t[j]
    <2>1. CASE j \in 1 .. Len(l)
      <3>1. i \in 1 .. Len(l) /\ t[i] = l[i] /\ t[j] = l[j]
        BY <1>12, <1>15, <2>1
      <3>. QED
        BY <1>9, <1>15, <2>1, <3>1 DEF Added
    <2>2. CASE j \notin 1 .. Len(l)
      <3>1. j = Len(l) + 1 /\ t[j] = names[n] /\ names[n] \notin ToSet(l)
        BY <1>12, <2>2
      <3>2. i \in 1 .. Len(l) /\ t[i] = l[i] /\ DOMAIN l = 1 .. Len(l)
        BY <1>12, <1>15, <3>1
      <3>. QED
        BY <3>1, <3>2 DEF ToSet
    <2>. QED
      BY <2>1, <2>2
  <1>16. Added(list, names, t, n)
    BY <1>0, <1>12, <1>13, <1>14, <1>15 DEF Added
  <1>. QED
    BY <1>5, <1>11, <1>16

-------------------------------------------------------------------------------
(* The invariant.                                                          *)

\* The entries dict have their type.
EntriesOK(dict) ==
    /\ DOMAIN dict \subseteq Names /\ IsFiniteSet(DOMAIN dict)
    /\ \A n \in DOMAIN dict : dict[n] \in [addr : Addrs, metric_list : {None} \cup Rounds]

\* The list of n was measured in the round now, or n was registered in the middle of it.
Fresh(dict, n, now, new) ==
    dict[n].metric_list = now \/ (n \in new /\ dict[n].metric_list = Empty)

\* So are the first i of the list, but for the one that is asked.
AllFresh(dict, list, i, now, new) ==
    \A k \in 1 .. i : list[k] \in DOMAIN dict => Fresh(dict, list[k], now, new)
FreshBut(dict, list, i, now, new) ==
    \A k \in 1 .. i : list[k] \in DOMAIN dict =>
        \/ Fresh(dict, list[k], now, new)
        \/ dict[list[k]].metric_list = None /\ list[k] = list[i]

\* What is measured is of the snapshot in progress, which is not reported yet and goes
\* through all names that were selected.
InProgress ==
    /\ \A message \in network : message.kind = "Metrics" => message.metrics = round
    /\ state = "Processing" =>
        /\ reports < round
        /\ wanted \subseteq ToSet(snapshot_list)
        /\ FreshBut(actor_entry_dict, snapshot_list, requested_index, round, renewed)

TypeInv ==
    /\ TypeOK
    /\ EntriesOK(actor_entry_dict)
    /\ request_id_counter \in Nat /\ requested_index \in Nat

IInv == TypeInv /\ OneRequestOut /\ InProgress

-------------------------------------------------------------------------------
(* process_next_snapshot_and_notify.                                       *)

\* The report that Entries makes names every registered name of the list, and its
\* metrics are fresh if the entries are.
LEMMA EntriesReport ==
    ASSUME NEW dict, EntriesOK(dict), NEW list \in Seq(Names), NEW now \in Rounds, NEW new,
           AllFresh(dict, list, Len(list), now, new)
    PROVE  /\ Entries(dict, list) \subseteq [name : Names, metrics : Rounds]
           /\ \A e \in Entries(dict, list) :
                 e.metrics = now \/ (e.name \in new /\ e.metrics = Empty)
           /\ {e.name : e \in Entries(dict, list)} = ToSet(list) \cap DOMAIN dict
  <1>. DEFINE metrics(n) == IF dict[n].metric_list = None THEN Empty ELSE dict[n].metric_list
              entry(n) == [name |-> n, metrics |-> metrics(n)]
  <1>1. ASSUME NEW n \in ToSet(list) \cap DOMAIN dict
        PROVE  /\ entry(n) \in [name : Names, metrics : Rounds] /\ entry(n).name = n
               /\ entry(n).metrics = now \/ (n \in new /\ entry(n).metrics = Empty)
    <2>1. n \in Names /\ dict[n].metric_list \in {None} \cup Rounds
      BY <1>1 DEF EntriesOK
    <2>2. Fresh(dict, n, now, new)
      BY <1>1 DEF AllFresh, ToSet
    <2>3. now # None /\ Empty # None /\ Empty \in Rounds
      BY DEF None, Empty, Rounds
    <2>4. /\ metrics(n) = dict[n].metric_list /\ metrics(n) \in Rounds
          /\ metrics(n) = now \/ (n \in new /\ metrics(n) = Empty)
      BY <2>1, <2>2, <2>3 DEF Fresh
    <2>. HIDE DEF metrics
    <2>. QED
      BY <2>1, <2>4
  <1>2. Entries(dict, list) = {entry(n) : n \in ToSet(list) \cap DOMAIN dict}
    BY DEF Entries
  <1>. HIDE DEF entry
  <1>. QED
    BY <1>1, <1>2

\* The one that is asked next, or none: then the snapshot is reported.
LEMMA ProcessNextDoes ==
    ASSUME NEW dict, EntriesOK(dict), NEW list \in Seq(Names), NEW from \in Nat \ {0},
           NEW now \in Rounds, NEW new, AllFresh(dict, list, from - 1, now, new),
           ProcessNext(dict, list, from, {}), request_id_counter \in Nat
    PROVE  /\ EntriesOK(actor_entry_dict') /\ DOMAIN actor_entry_dict' = DOMAIN dict
           /\ request_id_counter' \in Nat /\ requested_index' \in Nat
           /\ request_id' \in 0 .. request_id_counter' /\ snapshot_list' \in Seq(Names)
           /\ \A m1, m2 \in network' : m1 = m2
           /\ \A m \in network' : /\ m.kind = "GetMetrics" /\ m.id = request_id'
                                  /\ m.id \in 1 .. request_id_counter'
                                  /\ state' = "Processing"
           /\ \/ /\ state' = "Idle" /\ reports' = reports + 1
                 /\ report'.entries \subseteq [name : Names, metrics : Rounds]
                 /\ \A e \in report'.entries :
                       e.metrics = now \/ (e.name \in new /\ e.metrics = Empty)
                 /\ {e.name : e \in report'.entries} = ToSet(list) \cap DOMAIN dict
              \/ /\ state' = "Processing" /\ UNCHANGED <<report, reports>>
                 /\ snapshot_list' = list /\ requested_index' \in 1 .. Len(list)
                 /\ FreshBut(actor_entry_dict', list, requested_index', now, new)
  <1>0. Len(list) \in Nat
    OBVIOUS
  <1>1. CASE \A i \in from .. Len(list) : list[i] \notin DOMAIN dict
    <2>1. FinishSnapshot(dict, list, {})
      BY <1>1 DEF ProcessNext
    <2>2. AllFresh(dict, list, Len(list), now, new)
      <3>. SUFFICES ASSUME NEW k \in 1 .. Len(list), list[k] \in DOMAIN dict
                    PROVE  Fresh(dict, list[k], now, new)
        BY DEF AllFresh
      <3>1. k \in 1 .. from - 1
        BY <1>0, <1>1
      <3>. QED
        BY <3>1 DEF AllFresh
    <2>3. /\ report'.entries = Entries(dict, list) /\ reports' = reports + 1
          /\ state' = "Idle" /\ network' = {} /\ actor_entry_dict' = dict
          /\ request_id' = 0 /\ requested_index' = 1 /\ snapshot_list' = <<>>
          /\ request_id_counter' = request_id_counter
      BY <2>1 DEF FinishSnapshot
    <2>4. <<>> \in Seq(Names)
      OBVIOUS
    <2>. QED
      BY <2>2, <2>3, <2>4, EntriesReport
  <1>2. ASSUME NEW i \in from .. Len(list), IsNext(dict, list, from, i), AskAt(dict, list, i, {})
        PROVE  /\ EntriesOK(actor_entry_dict') /\ DOMAIN actor_entry_dict' = DOMAIN dict
               /\ FreshBut(actor_entry_dict', list, i, now, new)
    <2>1. /\ list[i] \in DOMAIN dict /\ \A k \in from .. i - 1 : list[k] \notin DOMAIN dict
          /\ actor_entry_dict' = [dict EXCEPT ![list[i]].metric_list = None]
      BY <1>2 DEF IsNext, AskAt
    <2>2. /\ DOMAIN actor_entry_dict' = DOMAIN dict
          /\ \A n \in DOMAIN dict : n # list[i] => actor_entry_dict'[n] = dict[n]
          /\ actor_entry_dict'[list[i]] = [dict[list[i]] EXCEPT !.metric_list = None]
      BY <2>1
    <2>3. /\ dict[list[i]] \in [addr : Addrs, metric_list : {None} \cup Rounds]
          /\ actor_entry_dict'[list[i]] \in [addr : Addrs, metric_list : {None} \cup Rounds]
          /\ actor_entry_dict'[list[i]].metric_list = None
      BY <2>1, <2>2 DEF EntriesOK
    <2>4. EntriesOK(actor_entry_dict')
      BY <2>2, <2>3 DEF EntriesOK
    <2>5. ASSUME NEW k \in 1 .. i, list[k] \in DOMAIN dict
          PROVE  \/ Fresh(actor_entry_dict', list[k], now, new)
                 \/ actor_entry_dict'[list[k]].metric_list = None /\ list[k] = list[i]
      <3>1. CASE list[k] = list[i]
        BY <2>3, <3>1
      <3>2. CASE list[k] # list[i]
        <4>1. k \in 1 .. from - 1
          <5>1. k # i /\ ~(k \in from .. i - 1)
            BY <2>1, <2>5, <3>2
          <5>. QED
            BY <1>0, <5>1
        <4>2. Fresh(dict, list[k], now, new)
          BY <2>5, <4>1 DEF AllFresh
        <4>. QED
          BY <2>2, <2>5, <3>2, <4>2 DEF Fresh
      <3>. QED
        BY <3>1, <3>2
    <2>. QED
      BY <2>2, <2>4, <2>5 DEF FreshBut
  <1>3. CASE ~(\A i \in from .. Len(list) : list[i] \notin DOMAIN dict)
    <2>1. PICK i \in from .. Len(list) : IsNext(dict, list, from, i) /\ AskAt(dict, list, i, {})
      BY <1>3 DEF ProcessNext
    <2>2. /\ state' = "Processing" /\ UNCHANGED <<report, reports>>
          /\ snapshot_list' = list /\ requested_index' = i
          /\ request_id_counter' = request_id_counter + 1 /\ request_id' = request_id_counter'
          /\ network' = {[kind |-> "GetMetrics", id |-> request_id', addr |-> dict[list[i]].addr]}
      BY <2>1 DEF AskAt
    <2>3. i \in 1 .. Len(list)
      BY <1>0
    <2>. QED
      BY <1>0, <1>2, <2>1, <2>2, <2>3
  <1>. QED
    BY <1>1, <1>3

-------------------------------------------------------------------------------
(* The steps.                                                              *)

LEMMA Types ==
    ASSUME IInv
    PROVE  /\ EntriesOK(actor_entry_dict) /\ snapshot_list \in Seq(Names)
           /\ state \in {"Idle", "Processing"} /\ Len(snapshot_list) \in Nat
           /\ request_id_counter \in Nat /\ requested_index \in Nat
           /\ snapshots \in 0 .. MaxSnapshots /\ round \in 0 .. snapshots /\ round \in Rounds
           /\ reports \in 0 .. round /\ round # None
           /\ renewed \subseteq Names /\ wanted \subseteq Names
           /\ state = "Idle" => network = {}
           /\ state = "Processing" => /\ requested_index \in 1 .. Len(snapshot_list)
                                      /\ snapshot_list[requested_index] \in Names
  <1>1. /\ EntriesOK(actor_entry_dict) /\ snapshot_list \in Seq(Names)
        /\ state \in {"Idle", "Processing"} /\ Len(snapshot_list) \in Nat
        /\ request_id_counter \in Nat /\ requested_index \in Nat
        /\ snapshots \in 0 .. MaxSnapshots /\ round \in 0 .. snapshots
        /\ reports \in 0 .. round
        /\ renewed \subseteq Names /\ wanted \subseteq Names
    BY DEF IInv, TypeInv, TypeOK
  <1>2. /\ state = "Idle" => network = {}
        /\ state = "Processing" => requested_index \in 1 .. Len(snapshot_list)
    BY DEF IInv, OneRequestOut
  <1>. QED
    BY <1>1, <1>2 DEF Rounds, None

\* The names of a selection.
LEMMA SelectionList ==
    ASSUME IInv, NEW selection \in ActorSelections
    PROVE  SelectionToNames(selection) \in Seq(Names)
  <1>1. CASE selection.kind = "SelectedNames"
    BY <1>1 DEF SelectionToNames, ActorSelections
  <1>2. CASE selection.kind # "SelectedNames"
    <2>1. Selected(selection) \subseteq Registered
      BY <1>2 DEF Selected, ActorSelections
    <2>2. Registered \subseteq Names /\ IsFiniteSet(Registered)
      BY Types DEF EntriesOK, Registered
    <2>3. PICK S : S = Selected(selection)
      OBVIOUS
    <2>4. PICK R : R = Registered
      OBVIOUS
    <2>5. IsFiniteSet(R) /\ S \in SUBSET R
      BY <2>1, <2>2, <2>3, <2>4
    <2>6. S \in SUBSET Nat /\ S \subseteq Names /\ IsFiniteSet(S)
      BY <2>2, <2>4, <2>5, FS_Subset
    <2>7. Ascending(S) \in Seq(S)
      BY <2>6, AscendingList
    <2>8. Ascending(S) \in Seq(Names)
      <3>1. PICK l : l = Ascending(S)
        OBVIOUS
      <3>2. l \in Seq(S) /\ \A x \in S : x \in Names
        BY <2>6, <2>7, <3>1
      <3>3. l \in Seq(Names)
        BY <3>2
      <3>. QED
        BY <3>1, <3>3
    <2>. QED
      BY <1>2, <2>3, <2>8 DEF SelectionToNames
  <1>. QED
    BY <1>1, <1>2

\* A step that leaves the snapshot alone but for entries and messages.
LEMMA Beside ==
    ASSUME IInv, UNCHANGED <<processing, request_id_counter, snapshots, history>>,
           EntriesOK(actor_entry_dict'), observer_set' \subseteq Observers,
           renewed' \subseteq Names, failed' \in BOOLEAN,
           \A m \in network' : \E m1 \in network : m.id = m1.id,
           \A m1, m2 \in network' : m1 = m2,
           \A m \in network' : m.kind = "Metrics" => m.metrics = round,
           state = "Processing" =>
               FreshBut(actor_entry_dict', snapshot_list, requested_index, round, renewed')
    PROVE  IInv'
  <1>1. TypeInv'
    <2>1. \A m \in network' : m.id \in 1 .. request_id_counter
      BY DEF IInv, TypeInv, TypeOK
    <2>2. DOMAIN actor_entry_dict' \subseteq Names
      BY DEF EntriesOK
    <2>. QED
      BY <2>1, <2>2 DEF IInv, TypeInv, TypeOK, processing, history, Registered, EntriesOK
  <1>2. OneRequestOut'
    <2>1. \A m \in network' : state = "Processing" /\ m.id = request_id
      BY DEF IInv, OneRequestOut
    <2>. QED
      BY <2>1 DEF IInv, OneRequestOut, processing
  <1>3. InProgress'
    BY DEF IInv, InProgress, processing, history
  <1>. QED
    BY <1>1, <1>2, <1>3 DEF IInv

LEMMA RegistrationNext ==
    ASSUME IInv, NEW names_addresses \in NamesAddresses, RegisterProfiledActors(names_addresses)
    PROVE  IInv'
  <1>. DEFINE new == DOMAIN names_addresses
  <1>1. /\ new \subseteq Names /\ IsFiniteSet(new)
        /\ \A n \in new : names_addresses[n] \in Addrs
    BY DEF NamesAddresses
  <1>2. /\ DOMAIN actor_entry_dict' = new \cup DOMAIN actor_entry_dict
        /\ \A n \in new : actor_entry_dict'[n] = [addr |-> names_addresses[n], metric_list |-> Empty]
        /\ \A n \in DOMAIN actor_entry_dict \ new : actor_entry_dict'[n] = actor_entry_dict[n]
        /\ renewed' = renewed \cup new
        /\ UNCHANGED <<processing, request_id_counter, snapshots, history, network,
                       observer_set, failed>>
    BY DEF RegisterProfiledActors, Registered
  <1>. HIDE DEF new
  <1>3. EntriesOK(actor_entry_dict')
    <2>1. EntriesOK(actor_entry_dict)
      BY Types
    <2>2. IsFiniteSet(DOMAIN actor_entry_dict')
      <3>1. PICK D : D = DOMAIN actor_entry_dict
        OBVIOUS
      <3>2. IsFiniteSet(D) /\ DOMAIN actor_entry_dict' = new \cup D
        BY <1>2, <2>1, <3>1 DEF EntriesOK
      <3>3. IsFiniteSet(new \cup D)
        BY <1>1, <3>2, FS_Union
      <3>. QED
        BY <3>2, <3>3
    <2>3. \A n \in new : actor_entry_dict'[n] \in [addr : Addrs, metric_list : {None} \cup Rounds]
      BY <1>1, <1>2 DEF new, Rounds, Empty
    <2>. QED
      BY <1>1, <1>2, <2>1, <2>2, <2>3 DEF EntriesOK
  <1>4. ASSUME state = "Processing"
        PROVE  FreshBut(actor_entry_dict', snapshot_list, requested_index, round, renewed')
    <2>1. FreshBut(actor_entry_dict, snapshot_list, requested_index, round, renewed)
      BY <1>4 DEF IInv, InProgress
    <2>2. \A n \in new : Fresh(actor_entry_dict', n, round, renewed')
      BY <1>2 DEF Fresh
    <2>. QED
      BY <1>2, <2>1, <2>2 DEF FreshBut, Fresh
  <1>. QED
    BY <1>1, <1>2, <1>3, <1>4, Beside DEF IInv, TypeInv, TypeOK, OneRequestOut, InProgress

LEMMA UnregistrationNext ==
    ASSUME IInv, NEW selection, Unregister(selection)
    PROVE  IInv'
  <1>1. /\ DOMAIN actor_entry_dict' \subseteq DOMAIN actor_entry_dict
        /\ \A n \in DOMAIN actor_entry_dict' : actor_entry_dict'[n] = actor_entry_dict[n]
        /\ UNCHANGED <<processing, request_id_counter, snapshots, history, network,
                       observer_set, renewed, failed>>
    BY DEF Unregister, Registered
  <1>2. EntriesOK(actor_entry_dict')
    <2>1. EntriesOK(actor_entry_dict)
      BY Types
    <2>2. IsFiniteSet(DOMAIN actor_entry_dict')
      <3>1. PICK D : D = DOMAIN actor_entry_dict
        OBVIOUS
      <3>2. PICK R : R = DOMAIN actor_entry_dict'
        OBVIOUS
      <3>3. IsFiniteSet(D) /\ R \in SUBSET D
        BY <1>1, <2>1, <3>1, <3>2 DEF EntriesOK
      <3>4. IsFiniteSet(R)
        BY <3>3, FS_Subset
      <3>. QED
        BY <3>2, <3>4
    <2>. QED
      BY <1>1, <2>1, <2>2 DEF EntriesOK
  <1>3. ASSUME state = "Processing"
        PROVE  FreshBut(actor_entry_dict', snapshot_list, requested_index, round, renewed')
    <2>1. FreshBut(actor_entry_dict, snapshot_list, requested_index, round, renewed)
      BY <1>3 DEF IInv, InProgress
    <2>. QED
      BY <1>1, <2>1 DEF FreshBut, Fresh
  <1>. QED
    BY <1>1, <1>2, <1>3, Beside DEF IInv, TypeInv, TypeOK, OneRequestOut, InProgress

LEMMA ObserverNext ==
    ASSUME IInv, NEW o \in Observers, RegisterObserver(o) \/ UnregisterObserver(o)
    PROVE  IInv'
  <1>1. /\ observer_set' \subseteq Observers
        /\ UNCHANGED <<actor_entry_dict, processing, request_id_counter, snapshots, history,
                       network, renewed, failed>>
    BY DEF RegisterObserver, UnregisterObserver, IInv, TypeInv, TypeOK
  <1>2. EntriesOK(actor_entry_dict')
    BY <1>1, Types DEF EntriesOK
  <1>. QED
    BY <1>1, <1>2, Beside DEF IInv, TypeInv, TypeOK, OneRequestOut, InProgress

\* The request is answered, or lost with its answer, or an error arrives.
LEMMA AnswerNext ==
    ASSUME IInv, NEW message \in network,
           \/ AnswerMetrics(message) \/ AnswerError(message) \/ AnswerNothing(message)
           \/ HandleError(message)
    PROVE  IInv'
  <1>1. /\ network' \subseteq (network \ {message})
                 \cup {[kind |-> "Metrics", id |-> message.id, metrics |-> round],
                       [kind |-> "Error", id |-> message.id]}
        /\ \A m1, m2 \in network' : m1 = m2
        /\ failed' \in BOOLEAN
        /\ UNCHANGED <<actor_entry_dict, processing, request_id_counter, snapshots, history,
                       observer_set, renewed>>
    <2>1. network \ {message} = {} /\ failed \in BOOLEAN
      BY DEF IInv, OneRequestOut, TypeInv, TypeOK
    <2>. QED
      BY <2>1 DEF AnswerMetrics, AnswerError, AnswerNothing, HandleError, history
  <1>2. EntriesOK(actor_entry_dict')
    BY <1>1, Types DEF EntriesOK
  <1>3. \A m \in network' : \E m1 \in network : m.id = m1.id
    BY <1>1
  <1>4. \A m \in network' : m.kind = "Metrics" => m.metrics = round
    BY <1>1 DEF IInv, InProgress
  <1>. QED
    BY <1>1, <1>2, <1>3, <1>4, Beside DEF IInv, TypeInv, TypeOK, OneRequestOut, InProgress

\* What follows when the turn of the next actor has come.
LEMMA Continues ==
    ASSUME IInv, NEW dict, EntriesOK(dict), NEW list \in Seq(Names), NEW from \in Nat \ {0},
           NEW now \in Rounds, NEW new \in SUBSET Names, AllFresh(dict, list, from - 1, now, new),
           ProcessNext(dict, list, from, {}),
           round' = now, renewed' = new, snapshots' \in 0 .. MaxSnapshots, now <= snapshots',
           reports < now, wanted' \subseteq ToSet(list), wanted' \subseteq Names,
           observer_set' \subseteq Observers, failed' \in BOOLEAN
    PROVE  /\ IInv'
           /\ reports' # reports =>
                 /\ \A e \in report'.entries :
                       e.metrics = round' \/ (e.name \in renewed' /\ e.metrics = Empty)
                 /\ wanted' \cap DOMAIN actor_entry_dict' \subseteq {e.name : e \in report'.entries}
  <1>0. /\ request_id_counter \in Nat /\ reports \in Nat /\ now \in Nat
        /\ report.entries \subseteq [name : Names, metrics : Rounds]
    BY Types DEF IInv, TypeInv, TypeOK, Rounds
  <1>1. /\ EntriesOK(actor_entry_dict') /\ DOMAIN actor_entry_dict' = DOMAIN dict
        /\ request_id_counter' \in Nat /\ requested_index' \in Nat
        /\ request_id' \in 0 .. request_id_counter' /\ snapshot_list' \in Seq(Names)
        /\ \A m1, m2 \in network' : m1 = m2
        /\ \A m \in network' : /\ m.kind = "GetMetrics" /\ m.id = request_id'
                               /\ m.id \in 1 .. request_id_counter'
                               /\ state' = "Processing"
        /\ \/ /\ state' = "Idle" /\ reports' = reports + 1
              /\ report'.entries \subseteq [name : Names, metrics : Rounds]
              /\ \A e \in report'.entries :
                    e.metrics = now \/ (e.name \in new /\ e.metrics = Empty)
              /\ {e.name : e \in report'.entries} = ToSet(list) \cap DOMAIN dict
           \/ /\ state' = "Processing" /\ UNCHANGED <<report, reports>>
              /\ snapshot_list' = list /\ requested_index' \in 1 .. Len(list)
              /\ FreshBut(actor_entry_dict', list, requested_index', now, new)
    BY <1>0, ProcessNextDoes
  <1>2. TypeInv'
    <2>1. DOMAIN actor_entry_dict' \subseteq Names
      BY <1>1 DEF EntriesOK
    <2>2. report'.entries \subseteq [name : Names, metrics : Rounds] /\ reports' \in 0 .. now
      BY <1>0, <1>1
    <2>3. now \in 0 .. snapshots'
      BY <1>0
    <2>. QED
      BY <1>1, <2>1, <2>2, <2>3 DEF TypeInv, TypeOK, Registered, EntriesOK
  <1>3. OneRequestOut'
    BY <1>1 DEF OneRequestOut
  <1>4. InProgress'
    BY <1>1 DEF InProgress
  <1>5. reports' # reports =>
            /\ \A e \in report'.entries :
                  e.metrics = round' \/ (e.name \in renewed' /\ e.metrics = Empty)
            /\ wanted' \cap DOMAIN actor_entry_dict' \subseteq {e.name : e \in report'.entries}
    <2>. SUFFICES ASSUME reports' # reports
                  PROVE  /\ \A e \in report'.entries :
                               e.metrics = round' \/ (e.name \in renewed' /\ e.metrics = Empty)
                         /\ wanted' \cap DOMAIN actor_entry_dict'
                                \subseteq {e.name : e \in report'.entries}
      OBVIOUS
    <2>1. /\ \A e \in report'.entries :
                e.metrics = now \/ (e.name \in new /\ e.metrics = Empty)
          /\ {e.name : e \in report'.entries} = ToSet(list) \cap DOMAIN dict
          /\ DOMAIN actor_entry_dict' = DOMAIN dict
      BY <1>1
    <2>. QED
      BY <2>1
  <1>. QED
    BY <1>2, <1>3, <1>4, <1>5 DEF IInv

\* What a step that may report keeps.
Reports ==
    /\ IInv'
    /\ reports' # reports =>
        /\ \A e \in report'.entries :
              e.metrics = round' \/ (e.name \in renewed' /\ e.metrics = Empty)
        /\ wanted' \cap DOMAIN actor_entry_dict' \subseteq {e.name : e \in report'.entries}

LEMMA StartNext ==
    ASSUME IInv, NEW selection \in ActorSelections, StartSnapshot(selection)
    PROVE  Reports
  <1>1. PICK list : list = SelectionToNames(selection)
    OBVIOUS
  <1>2. PICK dict : dict = actor_entry_dict
    OBVIOUS
  <1>3. PICK now : now = round + 1
    OBVIOUS
  <1>4. /\ list \in Seq(Names) /\ ToSet(list) \subseteq Names
    <2>1. list \in Seq(Names)
      BY <1>1, SelectionList
    <2>. QED
      BY <2>1 DEF ToSet
  <1>5. /\ network = {} /\ state = "Idle" /\ snapshots < MaxSnapshots /\ snapshots' = snapshots + 1
        /\ round' = now /\ renewed' = {} /\ wanted' = ToSet(list) /\ failed' = FALSE
        /\ ProcessNext(dict, list, 1, {})
        /\ observer_set' = observer_set
    BY <1>1, <1>2, <1>3, Types DEF StartSnapshot
  <1>6. /\ EntriesOK(dict) /\ now \in Rounds /\ reports < now
        /\ snapshots' \in 0 .. MaxSnapshots /\ now <= snapshots'
        /\ observer_set' \subseteq Observers
    BY <1>2, <1>3, <1>5, Types DEF Rounds, IInv, TypeInv, TypeOK
  <1>7. PICK from : from = 1
    OBVIOUS
  <1>8. PICK new : new = {}
    OBVIOUS
  <1>9. from \in Nat \ {0} /\ ProcessNext(dict, list, from, {})
    BY <1>5, <1>7
  <1>10. new \in SUBSET Names /\ renewed' = new
    BY <1>5, <1>8
  <1>11. AllFresh(dict, list, from - 1, now, new)
    BY <1>7 DEF AllFresh
  <1>12. wanted' \subseteq ToSet(list) /\ wanted' \subseteq Names /\ failed' \in BOOLEAN
    BY <1>4, <1>5
  <1>. QED
    BY <1>4, <1>5, <1>6, <1>9, <1>10, <1>11, <1>12, Continues DEF Reports

\* The response to the request that is awaited.
LEMMA MetricsNext ==
    ASSUME IInv, NEW message \in network, HandleMetrics(message)
    PROVE  Reports
  <1>1. /\ state = "Processing" /\ message.id = request_id /\ network \ {message} = {}
        /\ message.kind = "Metrics" /\ message.metrics = round
        /\ FreshBut(actor_entry_dict, snapshot_list, requested_index, round, renewed)
        /\ reports < round /\ wanted \subseteq ToSet(snapshot_list)
    BY DEF HandleMetrics, IInv, OneRequestOut, InProgress
  <1>2. PICK name : name = snapshot_list[requested_index]
    OBVIOUS
  <1>3. PICK dict : dict = Stored(name, round)
    OBVIOUS
  <1>4. PICK list : list = snapshot_list
    OBVIOUS
  <1>5. PICK i : i = requested_index
    OBVIOUS
  <1>6. PICK now : now = round
    OBVIOUS
  <1>7. PICK new : new = renewed
    OBVIOUS
  <1>8. /\ ProcessNext(dict, list, i + 1, {})
        /\ UNCHANGED <<observer_set, snapshots, round, renewed, wanted, failed>>
    BY <1>1, <1>2, <1>3, <1>4, <1>5 DEF HandleMetrics
  <1>9. /\ list \in Seq(Names) /\ i \in 1 .. Len(list) /\ Len(list) \in Nat /\ list[i] = name
        /\ now \in Rounds /\ now # None /\ new \in SUBSET Names
        /\ EntriesOK(actor_entry_dict)
    BY <1>1, <1>2, <1>4, <1>5, <1>6, <1>7, Types
  <1>10. /\ DOMAIN dict = DOMAIN actor_entry_dict
         /\ \A n \in DOMAIN dict : n # name => dict[n] = actor_entry_dict[n]
         /\ name \in DOMAIN dict => dict[name] = [actor_entry_dict[name] EXCEPT !.metric_list = now]
    BY <1>3, <1>6 DEF Stored, Registered
  <1>11. EntriesOK(dict)
    <2>1. \A n \in DOMAIN dict : actor_entry_dict[n] \in [addr : Addrs, metric_list : {None} \cup Rounds]
      BY <1>9, <1>10 DEF EntriesOK
    <2>2. \A n \in DOMAIN dict : dict[n] \in [addr : Addrs, metric_list : {None} \cup Rounds]
      BY <1>9, <1>10, <2>1
    <2>. QED
      BY <1>9, <1>10, <2>2 DEF EntriesOK
  <1>12. AllFresh(dict, list, i + 1 - 1, now, new)
    <2>1. FreshBut(actor_entry_dict, list, i, now, new)
      BY <1>1, <1>4, <1>5, <1>6, <1>7
    <2>. SUFFICES ASSUME NEW k \in 1 .. i, list[k] \in DOMAIN dict
                  PROVE  Fresh(dict, list[k], now, new)
      BY <1>9 DEF AllFresh
    <2>2. CASE list[k] = name
      <3>1. actor_entry_dict[name] \in [addr : Addrs, metric_list : {None} \cup Rounds]
        BY <1>9, <1>10, <2>2 DEF EntriesOK
      <3>2. dict[name].metric_list = now
        BY <1>10, <2>2, <3>1
      <3>. QED
        BY <2>2, <3>2 DEF Fresh
    <2>3. CASE list[k] # name
      <3>1. Fresh(actor_entry_dict, list[k], now, new)
        BY <1>9, <1>10, <2>1, <2>3 DEF FreshBut
      <3>. QED
        BY <1>10, <2>3, <3>1 DEF Fresh
    <2>. QED
      BY <2>2, <2>3
  <1>13. /\ round' = now /\ renewed' = new /\ snapshots' \in 0 .. MaxSnapshots /\ now <= snapshots'
         /\ reports < now /\ wanted' \subseteq ToSet(list) /\ wanted' \subseteq Names
         /\ observer_set' \subseteq Observers /\ failed' \in BOOLEAN
    BY <1>1, <1>4, <1>6, <1>7, <1>8, Types DEF IInv, TypeInv, TypeOK
  <1>14. i + 1 \in Nat \ {0}
    BY <1>9
  <1>. QED
    BY <1>8, <1>9, <1>11, <1>12, <1>13, <1>14, Continues DEF Reports

\* A snapshot in progress gets more names: those that had their turn keep their place.
LEMMA ExtendNext ==
    ASSUME IInv, NEW selection \in ActorSelections, ExtendSnapshot(selection)
    PROVE  IInv'
  <1>1. PICK names : names = SelectionToNames(selection)
    OBVIOUS
  <1>2. PICK list : list = snapshot_list
    OBVIOUS
  <1>3. PICK longer : longer = snapshot_list'
    OBVIOUS
  <1>4. PICK i : i = requested_index
    OBVIOUS
  <1>5. /\ state = "Processing" /\ snapshots < MaxSnapshots /\ snapshots' = snapshots + 1
        /\ longer = Extended(list, names) /\ wanted' = wanted \cup ToSet(names)
        /\ UNCHANGED <<actor_entry_dict, observer_set, state, requested_index, request_id,
                       request_id_counter, network, round, renewed, report, reports, failed>>
    BY <1>1, <1>2, <1>3 DEF ExtendSnapshot
  <1>6. names \in Seq(Names) /\ list \in Seq(Names) /\ i \in 1 .. Len(list)
    BY <1>1, <1>2, <1>4, <1>5, SelectionList, Types
  <1>7. Added(list, names, longer, Len(names))
    BY <1>5, <1>6, ExtendedList
  <1>8. /\ longer \in Seq(Names) /\ Len(list) \in Nat /\ Len(longer) \in Nat
        /\ Len(list) <= Len(longer)
        /\ \A k \in 1 .. Len(list) : longer[k] = list[k]
        /\ ToSet(longer) = ToSet(list) \cup ToSet(names)
    <2>1. ToSet(names) = {names[k] : k \in 1 .. Len(names)}
      BY <1>6 DEF ToSet
    <2>. QED
      BY <1>6, <1>7, <2>1 DEF Added
  <1>9. TypeInv'
    <2>1. ToSet(names) \subseteq Names
      BY <1>6 DEF ToSet
    <2>2. wanted' \subseteq Names
      BY <1>5, <2>1, Types
    <2>3. snapshots' \in 0 .. MaxSnapshots /\ round' \in 0 .. snapshots'
      BY <1>5, Types
    <2>4. snapshot_list' \in Seq(Names)
      BY <1>3, <1>8
    <2>5. /\ TypeOK /\ EntriesOK(actor_entry_dict)
          /\ request_id_counter \in Nat /\ requested_index \in Nat
      BY DEF IInv, TypeInv
    <2>6. EntriesOK(actor_entry_dict')
      BY <1>5, <2>5 DEF EntriesOK
    <2>7. TypeOK'
      BY <1>5, <2>2, <2>3, <2>4, <2>5 DEF TypeOK, Registered
    <2>. QED
      BY <1>5, <2>5, <2>6, <2>7 DEF TypeInv
  <1>10. OneRequestOut'
    <2>1. requested_index' \in 1 .. Len(snapshot_list')
      BY <1>3, <1>4, <1>5, <1>6, <1>8
    <2>. QED
      BY <1>5, <2>1 DEF IInv, OneRequestOut
  <1>11. InProgress'
    <2>1. FreshBut(actor_entry_dict, list, i, round, renewed)
      BY <1>2, <1>4, <1>5 DEF IInv, InProgress
    <2>2. FreshBut(actor_entry_dict, longer, i, round, renewed)
      <3>1. \A k \in 1 .. i : longer[k] = list[k]
        BY <1>6, <1>8
      <3>2. longer[i] = list[i]
        BY <1>6, <1>8
      <3>. QED
        BY <2>1, <3>1, <3>2 DEF FreshBut
    <2>3. FreshBut(actor_entry_dict', snapshot_list', requested_index', round', renewed')
      BY <1>3, <1>4, <1>5, <2>2 DEF FreshBut, Fresh
    <2>4. wanted' \subseteq ToSet(snapshot_list')
      BY <1>2, <1>3, <1>5, <1>8 DEF IInv, InProgress
    <2>. QED
      BY <1>5, <2>3, <2>4 DEF IInv, InProgress
  <1>. QED
    BY <1>9, <1>10, <1>11 DEF IInv

LEMMA InvInit == Init => IInv
  <1>. SUFFICES ASSUME Init PROVE IInv
    OBVIOUS
  <1>. USE DEF Init
  <1>1. Registered = {}
    BY DEF Registered
  <1>2. snapshot_list \in Seq(Names)
    OBVIOUS
  <1>3. IsFiniteSet({})
    BY FS_EmptySet
  <1>4. EntriesOK(actor_entry_dict)
    BY <1>1, <1>3 DEF EntriesOK, Registered
  <1>5. TypeOK
    <2>1. /\ \A n \in Registered :
                actor_entry_dict[n] \in [addr : Addrs, metric_list : {None} \cup Rounds]
          /\ observer_set \subseteq Observers /\ state \in {"Idle", "Processing"}
      BY <1>1
    <2>2. /\ request_id \in 0 .. request_id_counter
          /\ \A message \in network : message.id \in 1 .. request_id_counter
          /\ snapshots \in 0 .. MaxSnapshots /\ round \in 0 .. snapshots /\ reports \in 0 .. round
      BY BoundAssumption
    <2>3. /\ renewed \subseteq Names /\ wanted \subseteq Names
          /\ report.entries \subseteq [name : Names, metrics : Rounds]
          /\ failed \in BOOLEAN
      OBVIOUS
    <2>. QED
      BY <1>1, <1>2, <2>1, <2>2, <2>3 DEF TypeOK
  <1>6. TypeInv
    BY <1>4, <1>5 DEF TypeInv
  <1>7. OneRequestOut
    BY DEF OneRequestOut
  <1>8. InProgress
    BY DEF InProgress
  <1>. QED
    BY <1>6, <1>7, <1>8 DEF IInv

\* Every step keeps the invariant and tells the truth if it reports.
LEMMA StepReports ==
    ASSUME IInv, Next
    PROVE  Reports
  <1>1. ASSUME NEW message \in network, HandleMetrics(message)
        PROVE  Reports
    BY <1>1, MetricsNext
  <1>2. ASSUME NEW selection \in ActorSelections, StartSnapshot(selection)
        PROVE  Reports
    BY <1>2, StartNext
  <1>3. ASSUME NEW message \in network,
               \/ AnswerMetrics(message) \/ AnswerError(message) \/ AnswerNothing(message)
               \/ HandleError(message)
        PROVE  Reports
    <2>1. IInv'
      BY <1>3, AnswerNext
    <2>2. UNCHANGED reports
      BY <1>3 DEF AnswerMetrics, AnswerError, AnswerNothing, HandleError, history
    <2>. QED
      BY <2>1, <2>2 DEF Reports
  <1>4. ASSUME NEW o \in Observers, RegisterObserver(o) \/ UnregisterObserver(o)
        PROVE  Reports
    <2>1. IInv'
      BY <1>4, ObserverNext
    <2>2. UNCHANGED reports
      BY <1>4 DEF RegisterObserver, UnregisterObserver, history
    <2>. QED
      BY <2>1, <2>2 DEF Reports
  <1>5. ASSUME NEW names_addresses \in NamesAddresses, RegisterProfiledActors(names_addresses)
        PROVE  Reports
    <2>1. IInv'
      BY <1>5, RegistrationNext
    <2>2. UNCHANGED reports
      BY <1>5 DEF RegisterProfiledActors, history
    <2>. QED
      BY <2>1, <2>2 DEF Reports
  <1>6. ASSUME NEW selection \in ActorSelections, Unregister(selection)
        PROVE  Reports
    <2>1. IInv'
      BY <1>6, UnregistrationNext
    <2>2. UNCHANGED reports
      BY <1>6 DEF Unregister, history
    <2>. QED
      BY <2>1, <2>2 DEF Reports
  <1>7. ASSUME NEW selection \in ActorSelections, ExtendSnapshot(selection)
        PROVE  Reports
    <2>1. IInv'
      BY <1>7, ExtendNext
    <2>2. UNCHANGED reports
      BY <1>7 DEF ExtendSnapshot
    <2>. QED
      BY <2>1, <2>2 DEF Reports
  <1>. QED
    BY <1>1, <1>2, <1>3, <1>4, <1>5, <1>6, <1>7 DEF Next, MessageStep

LEMMA InvStutter == ASSUME IInv, UNCHANGED vars PROVE Reports
  <1>1. UNCHANGED <<processing, request_id_counter, snapshots, history, network,
                    actor_entry_dict, observer_set, renewed, failed>>
    BY DEF vars
  <1>2. EntriesOK(actor_entry_dict')
    BY <1>1, Types DEF EntriesOK
  <1>3. IInv'
    BY <1>1, <1>2, Beside DEF IInv, TypeInv, TypeOK, OneRequestOut, InProgress
  <1>. QED
    BY <1>1, <1>3 DEF Reports, history

LEMMA Inv == Spec => []IInv
  <1>1. ASSUME IInv, [Next]_vars PROVE IInv'
    BY <1>1, StepReports, InvStutter DEF Reports
  <1>. QED
    BY <1>1, InvInit, PTL DEF Spec

-------------------------------------------------------------------------------
(* The theorems.                                                           *)

\* The aggregator's entries, list, index and ids have their types: the list that an actor
\* fills is none, empty or of a round.
THEOREM TypeCorrect == Spec => []TypeOK
  <1>1. IInv => TypeOK
    BY DEF IInv, TypeInv
  <1>. QED
    BY <1>1, Inv, PTL

\* process_next_snapshot_and_notify never has two requests out, each response that comes
\* is the one that is awaited, and requested_index is an index of the list when it comes,
\* whatever was registered, unregistered or selected since the request was sent.
THEOREM OneRequestAtATime == Spec => []OneRequestOut
  <1>1. IInv => OneRequestOut
    BY DEF IInv
  <1>. QED
    BY <1>1, Inv, PTL

\* notify_observers: what observers are told was measured in this snapshot, unless the
\* name was registered in the middle of it.
THEOREM ReportsFresh == Spec => ReportIsFresh
  <1>1. ASSUME IInv, [Next]_vars
        PROVE  [reports' # reports =>
                   \A e \in report'.entries :
                       e.metrics = round' \/ (e.name \in renewed' /\ e.metrics = Empty)]_vars
    BY <1>1, StepReports, InvStutter DEF Reports
  <1>. QED
    BY <1>1, Inv, PTL DEF Spec, ReportIsFresh

\* notify_observers: what was selected, by the first SnapshotMetrics or by one that
\* extended it, and is still registered at the end, is told.
THEOREM ReportsComplete == Spec => ReportIsComplete
  <1>1. ASSUME IInv, [Next]_vars
        PROVE  [reports' # reports =>
                   wanted' \cap DOMAIN actor_entry_dict'
                       \subseteq {e.name : e \in report'.entries}]_vars
    BY <1>1, StepReports, InvStutter DEF Reports
  <1>. QED
    BY <1>1, Inv, PTL DEF Spec, ReportIsComplete

===============================================================================
