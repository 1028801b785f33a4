------------------------- MODULE ReactivesRefinement --------------------------
(***************************************************************************)
(* Proof that Reactives keeps the promise of RequestReply, for any         *)
(* dispatchers, reactives and capacities and any number of messages.       *)
(*                                                                         *)
(* First: a request is in one place, as a request or as the response to    *)
(* it.  Then: each step of Reactives is one of RequestReply, or none.      *)
(***************************************************************************)
EXTENDS ReactivesProofs

USE HomeAssumption, QueueSizeAssumption, IdSpaceAssumption, BoundsAssumption

\* S has a message about the request n of a.
Has(S, a, n) == \E m \in S : About(m, a, n)

\* MadeBy, for numbered requests.
MadeIn(numbered, a, n) == n <= Len(numbered[Home[a]]) /\ numbered[Home[a]][n] = a

\* No two messages of a queue are about the same request.
Once(s) ==
    \A i, j \in 1 .. Len(s) :
        (\E a \in Reactives, n \in Numbers : About(s[i], a, n) /\ About(s[j], a, n)) => i = j

HeldOnce(holds) ==
    \A b \in Reactives : \A r, q \in holds[b] : r.src = q.src /\ r.n = q.n => r = q

\* One queue, one dispatcher that has it refused, or one behavior that holds it.
OnePlace(queues, refusals, holds, a, n) ==
    /\ \A d, e \in Dispatchers :
        /\ Has(InSeq(queues[d]), a, n) /\ Has(InSeq(queues[e]), a, n) => d = e
        /\ Has(refusals[d], a, n) /\ Has(refusals[e], a, n) => d = e
        /\ ~(Has(InSeq(queues[d]), a, n) /\ Has(refusals[e], a, n))
    /\ \A b, c \in Reactives : Has(holds[b], a, n) /\ Has(holds[c], a, n) => b = c
    /\ \A d \in Dispatchers, b \in Reactives :
        ~(Has(holds[b], a, n) /\ (Has(InSeq(queues[d]), a, n) \/ Has(refusals[d], a, n)))

Present(queues, refusals, holds, a, n) ==
    \/ \E d \in Dispatchers : Has(InSeq(queues[d]), a, n) \/ Has(refusals[d], a, n)
    \/ \E b \in Reactives : Has(holds[b], a, n)

UniqueIn(queues, refusals, holds, numbered) ==
    /\ \A d \in Dispatchers : Once(queues[d])
    /\ HeldOnce(holds)
    /\ \A a \in Reactives, n \in Numbers :
        /\ OnePlace(queues, refusals, holds, a, n)
        /\ Present(queues, refusals, holds, a, n) => MadeIn(numbered, a, n)

Unique == UniqueIn(queue, refused, held, made)

-------------------------------------------------------------------------------
(* What taking a message away and adding one does to the places.           *)

\* Where nothing is added, nothing comes to a second place.
LEMMA PlacesShrink ==
    ASSUME NEW queues, NEW refusals, NEW holds, NEW numbered,
           NEW queues2, NEW refusals2, NEW holds2,
           UniqueIn(queues, refusals, holds, numbered),
           \A d \in Dispatchers : Once(queues2[d]),
           \A d \in Dispatchers : InSeq(queues2[d]) \subseteq InSeq(queues[d]),
           \A d \in Dispatchers : refusals2[d] \subseteq refusals[d],
           \A b \in Reactives : holds2[b] \subseteq holds[b]
    PROVE  UniqueIn(queues2, refusals2, holds2, numbered)
  <1>1. HeldOnce(holds2)
    BY DEF UniqueIn, HeldOnce
  <1>2. ASSUME NEW a \in Reactives, NEW n \in Numbers
        PROVE  /\ OnePlace(queues2, refusals2, holds2, a, n)
               /\ Present(queues2, refusals2, holds2, a, n) => MadeIn(numbered, a, n)
    <2>1. /\ \A d \in Dispatchers :
                /\ Has(InSeq(queues2[d]), a, n) => Has(InSeq(queues[d]), a, n)
                /\ Has(refusals2[d], a, n) => Has(refusals[d], a, n)
          /\ \A b \in Reactives : Has(holds2[b], a, n) => Has(holds[b], a, n)
      BY DEF Has
    <2>2. /\ OnePlace(queues, refusals, holds, a, n)
          /\ Present(queues, refusals, holds, a, n) => MadeIn(numbered, a, n)
      BY DEF UniqueIn
    <2>. QED
      BY <2>1, <2>2 DEF OnePlace, Present
  <1>. QED
    BY <1>1, <1>2 DEF UniqueIn

\* A message about a request that is nowhere can be sent.
LEMMA SentUnique ==
    ASSUME NEW queues, NEW refusals, NEW holds, NEW numbered, QueuesOK(queues),
           UniqueIn(queues, refusals, holds, numbered),
           NEW m \in Messages, m.dst \in Reactives,
           \A a \in Reactives, n \in Numbers :
               About(m, a, n) => /\ ~Present(queues, refusals, holds, a, n)
                                 /\ MadeIn(numbered, a, n)
    PROVE  UniqueIn(Sent(queues, m), refusals, holds, numbered)
  <1>1. CASE ~HasRoom(queues, m.dst)
    BY <1>1 DEF Sent
  <1>2. CASE HasRoom(queues, m.dst)
    <2>. DEFINE h == Home[m.dst]
                s == queues[h]
                queues2 == Sent(queues, m)
    <2>1. h \in Dispatchers /\ s \in Seq(Messages)
      BY DEF QueuesOK
    <2>2. /\ queues2[h] = Append(s, m)
          /\ \A d \in Dispatchers \ {h} : queues2[d] = queues[d]
      BY <1>2, <2>1 DEF Sent, QueuesOK
    <2>3. InSeq(Append(s, m)) = InSeq(s) \cup {m}
      BY <2>1, AppendElements
    <2>4. Once(Append(s, m))
      <3>1. /\ Len(Append(s, m)) = Len(s) + 1 /\ Len(s) \in Nat
            /\ \A i \in 1 .. Len(s) : Append(s, m)[i] = s[i] /\ s[i] \in InSeq(s)
            /\ Append(s, m)[Len(s) + 1] = m
        BY <2>1 DEF InSeq
      <3>2. Once(s)
        BY <2>1 DEF UniqueIn
      <3>3. \A a \in Reactives, n \in Numbers : About(m, a, n) => ~Has(InSeq(s), a, n)
        BY <2>1 DEF Present
      <3>. HIDE DEF s
      <3>4. \A i \in 1 .. Len(s) : \A a \in Reactives, n \in Numbers :
               ~(About(m, a, n) /\ About(Append(s, m)[i], a, n))
        BY <3>1, <3>3 DEF Has
      <3>. SUFFICES ASSUME NEW i \in 1 .. Len(s) + 1, NEW j \in 1 .. Len(s) + 1,
                           NEW a \in Reactives, NEW n \in Numbers,
                           About(Append(s, m)[i], a, n), About(Append(s, m)[j], a, n)
                    PROVE  i = j
        BY <3>1 DEF Once
      <3>5. CASE i \in 1 .. Len(s) /\ j \in 1 .. Len(s)
        BY <3>1, <3>2, <3>5 DEF Once
      <3>6. CASE i = Len(s) + 1 /\ j \in 1 .. Len(s)
        BY <3>1, <3>4, <3>6
      <3>7. CASE j = Len(s) + 1 /\ i \in 1 .. Len(s)
        BY <3>1, <3>4, <3>7
      <3>. QED
        BY <3>1, <3>5, <3>6, <3>7
    <2>5. \A d \in Dispatchers : Once(queues2[d])
      BY <2>2, <2>4 DEF UniqueIn
    <2>6. ASSUME NEW a \in Reactives, NEW n \in Numbers
          PROVE  /\ OnePlace(queues2, refusals, holds, a, n)
                 /\ Present(queues2, refusals, holds, a, n) => MadeIn(numbered, a, n)
      <3>1. /\ OnePlace(queues, refusals, holds, a, n)
            /\ Present(queues, refusals, holds, a, n) => MadeIn(numbered, a, n)
        BY DEF UniqueIn
      <3>2. \A d \in Dispatchers :
               Has(InSeq(queues2[d]), a, n) => \/ Has(InSeq(queues[d]), a, n)
                                               \/ d = h /\ About(m, a, n)
        <4>1. \A d \in Dispatchers : InSeq(queues2[d]) \subseteq
                 IF d = h THEN InSeq(queues[d]) \cup {m} ELSE InSeq(queues[d])
          BY <2>2, <2>3
        <4>. HIDE DEF queues2, h
        <4>. QED
          BY <4>1 DEF Has
      <3>. HIDE DEF queues2, h
      <3>3. CASE About(m, a, n)
        <4>1. ~Present(queues, refusals, holds, a, n) /\ MadeIn(numbered, a, n)
          BY <3>3
        <4>2. \A d \in Dispatchers : Has(InSeq(queues2[d]), a, n) => d = h
          BY <3>2, <4>1 DEF Present
        <4>. QED
          BY <4>1, <4>2 DEF OnePlace, Present
      <3>4. CASE ~About(m, a, n)
        BY <3>1, <3>2, <3>4 DEF OnePlace, Present
      <3>. QED
        BY <3>3, <3>4
    <2>. QED
      BY <2>5, <2>6 DEF UniqueIn
  <1>. QED
    BY <1>1, <1>2

\* It can be refused.
LEMMA RefusedUnique ==
    ASSUME NEW queues, NEW refusals, NEW holds, NEW numbered, NEW refusals2,
           UniqueIn(queues, refusals, holds, numbered),
           NEW r, NEW x \in Dispatchers, refusals2[x] = {r},
           \A d \in Dispatchers \ {x} : refusals2[d] = refusals[d],
           \A a \in Reactives, n \in Numbers :
               About(r, a, n) => /\ ~Present(queues, refusals, holds, a, n)
                                 /\ MadeIn(numbered, a, n)
    PROVE  UniqueIn(queues, refusals2, holds, numbered)
  <1>. SUFFICES ASSUME NEW a \in Reactives, NEW n \in Numbers
                PROVE  /\ OnePlace(queues, refusals2, holds, a, n)
                       /\ Present(queues, refusals2, holds, a, n) => MadeIn(numbered, a, n)
    BY DEF UniqueIn
  <1>1. /\ OnePlace(queues, refusals, holds, a, n)
        /\ Present(queues, refusals, holds, a, n) => MadeIn(numbered, a, n)
    BY DEF UniqueIn
  <1>2. \A d \in Dispatchers :
           Has(refusals2[d], a, n) => Has(refusals[d], a, n) \/ (d = x /\ About(r, a, n))
    <2>1. ASSUME NEW d \in Dispatchers, NEW q \in refusals2[d]
          PROVE  q \in refusals[d] \/ (d = x /\ q = r)
      <3>1. CASE d = x
        BY <3>1
      <3>2. CASE d # x
        BY <3>2
      <3>. QED
        BY <3>1, <3>2
    <2>. QED
      BY <2>1 DEF Has
  <1>3. CASE About(r, a, n)
    <2>1. ~Present(queues, refusals, holds, a, n) /\ MadeIn(numbered, a, n)
      BY <1>3
    <2>2. \A d \in Dispatchers : Has(refusals2[d], a, n) => d = x
      BY <1>2, <2>1 DEF Present
    <2>. QED
      BY <2>1, <2>2 DEF OnePlace, Present
  <1>4. CASE ~About(r, a, n)
    BY <1>1, <1>2, <1>4 DEF OnePlace, Present
  <1>. QED
    BY <1>3, <1>4

\* And it can be held by a behavior.
LEMMA HeldUnique ==
    ASSUME NEW queues, NEW refusals, NEW holds, NEW numbered, NEW holds2,
           UniqueIn(queues, refusals, holds, numbered),
           \A b \in Reactives : holds[b] \subseteq Requests,
           NEW r \in Requests, NEW x \in Reactives, holds2[x] = holds[x] \cup {r},
           \A b \in Reactives \ {x} : holds2[b] = holds[b],
           ~Present(queues, refusals, holds, r.src, r.n),
           MadeIn(numbered, r.src, r.n)
    PROVE  UniqueIn(queues, refusals, holds2, numbered)
  <1>0. r.kind = "Request" /\ r.src \in Reactives /\ r.n \in Numbers
    BY DEF Requests
  <1>1. HeldOnce(holds2)
    <2>1. \A q \in holds[x] : ~(q.src = r.src /\ q.n = r.n)
      BY DEF Present, Has, About, Requests
    <2>2. ASSUME NEW b \in Reactives, NEW p \in holds2[b], NEW q \in holds2[b],
                 p.src = q.src, p.n = q.n
          PROVE  p = q
      <3>1. CASE b = x
        BY <2>1, <2>2, <3>1 DEF UniqueIn, HeldOnce
      <3>2. CASE b # x
        BY <2>2, <3>2 DEF UniqueIn, HeldOnce
      <3>. QED
        BY <3>1, <3>2
    <2>. QED
      BY <2>2 DEF HeldOnce
  <1>2. ASSUME NEW a \in Reactives, NEW n \in Numbers
        PROVE  /\ OnePlace(queues, refusals, holds2, a, n)
               /\ Present(queues, refusals, holds2, a, n) => MadeIn(numbered, a, n)
    <2>1. /\ OnePlace(queues, refusals, holds, a, n)
          /\ Present(queues, refusals, holds, a, n) => MadeIn(numbered, a, n)
      BY DEF UniqueIn
    <2>2. \A b \in Reactives :
             Has(holds2[b], a, n) => Has(holds[b], a, n) \/ (b = x /\ About(r, a, n))
      <3>1. ASSUME NEW b \in Reactives, NEW q \in holds2[b]
            PROVE  q \in holds[b] \/ (b = x /\ q = r)
        <4>1. CASE b = x
          BY <4>1
        <4>2. CASE b # x
          BY <4>2
        <4>. QED
          BY <4>1, <4>2
      <3>. QED
        BY <3>1 DEF Has
    <2>3. CASE About(r, a, n)
      <3>1. ~Present(queues, refusals, holds, a, n) /\ MadeIn(numbered, a, n)
        BY <1>0, <2>3 DEF About
      <3>2. \A b \in Reactives : Has(holds2[b], a, n) => b = x
        BY <2>2, <3>1 DEF Present
      <3>. QED
        BY <3>1, <3>2 DEF OnePlace, Present
    <2>4. CASE ~About(r, a, n)
      BY <2>1, <2>2, <2>4 DEF OnePlace, Present
    <2>. QED
      BY <2>3, <2>4
  <1>. QED
    BY <1>1, <1>2 DEF UniqueIn

\* The first message of a queue is about a request that is nowhere else.
LEMMA RestUnique ==
    ASSUME QueuesOK(queue), Unique, NEW d \in Dispatchers, queue[d] # <<>>
    PROVE  /\ UniqueIn(Rest(d), refused, held, made)
           /\ \A a \in Reactives, n \in Numbers :
                  About(Head(queue[d]), a, n) => /\ ~Present(Rest(d), refused, held, a, n)
                                                 /\ MadeIn(made, a, n)
  <1>. DEFINE s == queue[d]
  <1>1. /\ s \in Seq(Messages) /\ s # <<>> /\ Len(s) \in Nat \ {0} /\ Head(s) = s[1]
        /\ Head(s) \in InSeq(s)
    BY DEF QueuesOK, InSeq
  <1>2. /\ Len(Tail(s)) = Len(s) - 1
        /\ \A i \in 1 .. Len(Tail(s)) : Tail(s)[i] = s[i + 1] /\ i + 1 \in 2 .. Len(s)
    BY <1>1
  <1>3. Once(s)
    BY DEF Unique, UniqueIn
  <1>4. /\ Rest(d)[d] = Tail(s) /\ \A e \in Dispatchers \ {d} : Rest(d)[e] = queue[e]
        /\ \A e \in Dispatchers : InSeq(Rest(d)[e]) \subseteq InSeq(queue[e])
    BY Receiving DEF Rest, QueuesOK
  <1>. HIDE DEF s
  <1>5. Once(Tail(s))
    <2>. SUFFICES ASSUME NEW i \in 1 .. Len(Tail(s)), NEW j \in 1 .. Len(Tail(s)),
                         NEW a \in Reactives, NEW n \in Numbers,
                         About(Tail(s)[i], a, n), About(Tail(s)[j], a, n)
                  PROVE  i = j
      BY DEF Once
    <2>1. /\ i + 1 \in 1 .. Len(s) /\ j + 1 \in 1 .. Len(s)
          /\ About(s[i + 1], a, n) /\ About(s[j + 1], a, n)
      BY <1>2
    <2>2. i + 1 = j + 1
      BY <1>3, <2>1 DEF Once
    <2>. QED
      BY <2>2
  <1>6. \A e \in Dispatchers : Once(Rest(d)[e])
    BY <1>4, <1>5 DEF Unique, UniqueIn
  <1>7. UniqueIn(Rest(d), refused, held, made)
    BY <1>4, <1>6, PlacesShrink DEF Unique
  <1>8. ASSUME NEW a \in Reactives, NEW n \in Numbers, About(Head(s), a, n)
        PROVE  ~Present(Rest(d), refused, held, a, n) /\ MadeIn(made, a, n)
    <2>1. /\ OnePlace(queue, refused, held, a, n)
          /\ Present(queue, refused, held, a, n) => MadeIn(made, a, n)
      BY DEF Unique, UniqueIn
    <2>2. Has(InSeq(queue[d]), a, n)
      BY <1>1, <1>8 DEF Has, s
    <2>3. ~Has(InSeq(Rest(d)[d]), a, n)
      <3>1. \A i \in 2 .. Len(s) : ~About(s[i], a, n)
        BY <1>1, <1>3, <1>8 DEF Once
      <3>2. \A i \in 1 .. Len(Tail(s)) : ~About(Tail(s)[i], a, n)
        BY <1>2, <3>1
      <3>. QED
        BY <1>4, <3>2 DEF Has, InSeq
    <2>4. \A e \in Dispatchers : Has(InSeq(Rest(d)[e]), a, n) => Has(InSeq(queue[e]), a, n)
      BY <1>4 DEF Has
    <2>. QED
      BY <2>1, <2>2, <2>3, <2>4 DEF OnePlace, Present
  <1>. QED
    BY <1>7, <1>8 DEF s

\* An answered request is in one place, if it was nowhere else.
LEMMA AnsweredUnique ==
    ASSUME NEW queues, NEW refusals, NEW holds, QueuesOK(queues),
           UniqueIn(queues, refusals, holds, made),
           NEW r \in Requests, NEW ok \in BOOLEAN, queue' = Sent(queues, Response(r, ok)),
           ~Present(queues, refusals, holds, r.src, r.n), MadeIn(made, r.src, r.n)
    PROVE  UniqueIn(queue', refusals, holds, made)
  <1>1. /\ Response(r, ok) \in Messages /\ Response(r, ok).dst \in Reactives
        /\ \A a, n : About(Response(r, ok), a, n) => a = r.src /\ n = r.n
    BY ResponseFacts DEF About, Response
  <1>. QED
    BY <1>1, SentUnique

\* A request that is held is there and nowhere else.
LEMMA HeldAlone ==
    ASSUME TypeInv, Unique, NEW b \in Reactives, NEW r \in held[b]
    PROVE  /\ r \in Requests /\ r.src \in Reactives /\ r.n \in Numbers
           /\ About(r, r.src, r.n) /\ Open(r.src, r.n) /\ MadeIn(made, r.src, r.n)
           /\ \A d \in Dispatchers : /\ ~Has(InSeq(queue[d]), r.src, r.n)
                                     /\ ~Has(refused[d], r.src, r.n)
           /\ \A c \in Reactives : Has(held[c], r.src, r.n) => c = b
           /\ \A q \in held[b] : q.src = r.src /\ q.n = r.n => q = r
  <1>1. r \in Requests /\ r.src \in Reactives /\ r.n \in Numbers /\ r.kind = "Request"
    BY DEF TypeInv, HandsOK, Requests
  <1>2. About(r, r.src, r.n) /\ Has(held[b], r.src, r.n)
    BY <1>1 DEF About, Has
  <1>3. Open(r.src, r.n)
    BY <1>1, OpenMeans
  <1>4. OnePlace(queue, refused, held, r.src, r.n) /\ MadeIn(made, r.src, r.n) /\ HeldOnce(held)
    BY <1>1, <1>2 DEF Unique, UniqueIn, Present
  <1>. QED
    BY <1>1, <1>2, <1>3, <1>4 DEF OnePlace, HeldOnce

\* So it is with a request that was refused.
LEMMA RefusedAlone ==
    ASSUME TypeInv, Unique, NEW d \in Dispatchers, NEW r \in refused[d]
    PROVE  /\ r \in Requests /\ r.src \in Reactives /\ r.n \in Numbers /\ refused[d] = {r}
           /\ About(r, r.src, r.n) /\ Open(r.src, r.n) /\ MadeIn(made, r.src, r.n)
           /\ \A e \in Dispatchers : /\ ~Has(InSeq(queue[e]), r.src, r.n)
                                     /\ Has(refused[e], r.src, r.n) => e = d
           /\ \A b \in Reactives : ~Has(held[b], r.src, r.n)
  <1>1. /\ r \in Requests /\ r.src \in Reactives /\ r.n \in Numbers /\ r.kind = "Request"
        /\ refused[d] = {r}
    BY DEF TypeInv, HandsOK, Requests
  <1>2. About(r, r.src, r.n) /\ Has(refused[d], r.src, r.n)
    BY <1>1 DEF About, Has
  <1>3. Open(r.src, r.n)
    BY <1>1, OpenMeans
  <1>4. OnePlace(queue, refused, held, r.src, r.n) /\ MadeIn(made, r.src, r.n)
    BY <1>1, <1>2 DEF Unique, UniqueIn, Present
  <1>. QED
    BY <1>1, <1>2, <1>3, <1>4 DEF OnePlace

\* A new request has a number that no request had.
LEMMA NewUnique ==
    ASSUME TypeInv, Unique, NEW d \in Dispatchers, NEW a \in Reactives, Home[a] = d,
           made' = [made EXCEPT ![d] = Append(@, a)], Len(made[d]) + 1 \in Numbers
    PROVE  /\ UniqueIn(queue, refused, held, made')
           /\ ~Present(queue, refused, held, a, Len(made[d]) + 1)
           /\ MadeIn(made', a, Len(made[d]) + 1)
           /\ \A b \in Reactives, n \in Numbers :
                  n # Len(made[d]) + 1 \/ a # b => (MadeIn(made', b, n) <=> MadeIn(made, b, n))
  <1>. DEFINE k == Len(made[d]) + 1
  <1>1. made[d] \in Seq(Reactives) /\ Len(made[d]) \in Nat /\ Numbers \subseteq Nat \ {0}
    BY DEF TypeInv, IdsOK, Numbers
  <1>2. /\ made'[d] = Append(made[d], a) /\ Len(made'[d]) = k /\ made'[d][k] = a
        /\ \A i \in 1 .. Len(made[d]) : made'[d][i] = made[d][i]
        /\ \A e \in Dispatchers \ {d} : made'[e] = made[e]
    BY <1>1 DEF TypeInv, IdsOK
  <1>3. ASSUME NEW b \in Reactives, NEW n \in Numbers, n # k \/ a # b
        PROVE  MadeIn(made', b, n) <=> MadeIn(made, b, n)
    <2>1. CASE Home[b] # d
      BY <1>2, <2>1 DEF MadeIn
    <2>2. CASE Home[b] = d /\ n <= Len(made[d])
      BY <1>1, <1>2, <2>2 DEF MadeIn
    <2>3. CASE Home[b] = d /\ ~(n <= Len(made[d]))
      BY <1>1, <1>2, <1>3, <2>3 DEF MadeIn
    <2>. QED
      BY <2>1, <2>2, <2>3
  <1>4. ~MadeIn(made, a, k) /\ MadeIn(made', a, k)
    BY <1>1, <1>2 DEF MadeIn
  <1>5. k \in Numbers
    OBVIOUS
  <1>. HIDE DEF k
  <1>6. \A b \in Reactives, n \in Numbers : MadeIn(made, b, n) => MadeIn(made', b, n)
    BY <1>3, <1>4
  <1>7. UniqueIn(queue, refused, held, made')
    BY <1>6 DEF Unique, UniqueIn
  <1>8. ~Present(queue, refused, held, a, k)
    BY <1>4, <1>5 DEF Unique, UniqueIn
  <1>. QED
    BY <1>3, <1>4, <1>7, <1>8 DEF k

-------------------------------------------------------------------------------
(* A request is in one place.                                              *)

\* In the beginning there are no requests.
LEMMA UniqueInit == Init => Unique
  <1>. SUFFICES ASSUME Init PROVE Unique
    OBVIOUS
  <1>1. InSeq(<<>>) = {} /\ Len(<<>>) = 0
    BY DEF InSeq
  <1>2. /\ \A d \in Dispatchers : queue[d] = <<>> /\ InSeq(queue[d]) = {} /\ refused[d] = {}
        /\ \A b \in Reactives : held[b] = {}
    BY <1>1 DEF Init
  <1>3. (\A d \in Dispatchers : Once(queue[d])) /\ HeldOnce(held)
    BY <1>1, <1>2 DEF Once, HeldOnce
  <1>4. \A a \in Reactives, n \in Numbers :
           OnePlace(queue, refused, held, a, n) /\ ~Present(queue, refused, held, a, n)
    BY <1>2 DEF OnePlace, Present, Has
  <1>. QED
    BY <1>3, <1>4 DEF Unique, UniqueIn

\* Each step moves at most one request, to one place.
LEMMA UniqueNext == TypeInv /\ Unique /\ [Next]_vars => Unique'
  <1>. SUFFICES ASSUME TypeInv, Unique, [Next]_vars PROVE UniqueIn(queue', refused', held', made')
    BY DEF Unique
  <1>0. QueuesOK(queue) /\ CalledOK /\ HandsOK /\ IdsOK
        /\ UniqueIn(queue, refused, held, made)
    BY DEF TypeInv, Unique
  <1>1. CASE UNCHANGED vars
    BY <1>0, <1>1 DEF vars, behaviorVars
  <1>2. ASSUME NEW d \in Dispatchers, TakeNotification(d) \/ TakeResponse(d)
        PROVE  UniqueIn(queue', refused', held', made')
    <2>1. queue[d] # <<>> /\ queue' = Rest(d) /\ UNCHANGED <<refused, held, made>>
      BY <1>2 DEF TakeNotification, TakeResponse, Taking, CallBehavior, behaviorVars
    <2>. QED
      BY <1>0, <2>1, RestUnique
  <1>3. ASSUME NEW d \in Dispatchers, TakeRequest(d)
        PROVE  UniqueIn(queue', refused', held', made')
    <2>0. PICK m : m = Head(queue[d])
      OBVIOUS
    <2>1. /\ queue[d] # <<>> /\ queue' = Rest(d) /\ UNCHANGED <<refused, made>>
          /\ m.kind = "Request" /\ m.dst \in reactive_list
          /\ held' = [held EXCEPT ![m.dst] = @ \cup {m}]
      BY <1>3, <2>0 DEF TakeRequest, Taking, CallBehavior
    <2>2. m \in Requests /\ m.src \in Reactives /\ m.n \in Numbers /\ m.dst \in Reactives
      BY <1>0, <2>0, <2>1, Receiving, MessageKinds DEF Requests, CalledOK
    <2>3. /\ UniqueIn(Rest(d), refused, held, made)
          /\ ~Present(Rest(d), refused, held, m.src, m.n) /\ MadeIn(made, m.src, m.n)
      BY <1>0, <2>0, <2>1, <2>2, RestUnique DEF About
    <2>4. /\ held'[m.dst] = held[m.dst] \cup {m}
          /\ \A b \in Reactives \ {m.dst} : held'[b] = held[b]
          /\ \A b \in Reactives : held[b] \subseteq Requests
      BY <1>0, <2>1, <2>2 DEF HandsOK
    <2>5. UniqueIn(Rest(d), refused, held', made)
      BY <2>2, <2>3, <2>4, HeldUnique
    <2>. QED
      BY <2>1, <2>5
  <1>4. ASSUME NEW d \in Dispatchers, TakeUnknown(d)
        PROVE  UniqueIn(queue', refused', held', made')
    <2>0. PICK m : m = Head(queue[d])
      OBVIOUS
    <2>1. queue[d] # <<>> /\ UNCHANGED <<refused, held, made>>
      BY <1>4 DEF TakeUnknown, Taking, behaviorVars
    <2>2. UniqueIn(Rest(d), refused, held, made) /\ QueuesOK(Rest(d)) /\ m \in Messages
      BY <1>0, <2>0, <2>1, RestUnique, Receiving
    <2>3. CASE m.kind = "Request"
      <3>1. m \in Requests /\ m.src \in Reactives /\ m.n \in Numbers
        BY <2>2, <2>3, MessageKinds DEF Requests
      <3>2. ~Present(Rest(d), refused, held, m.src, m.n) /\ MadeIn(made, m.src, m.n)
        BY <1>0, <2>0, <2>1, <2>3, <3>1, RestUnique DEF About
      <3>3. queue' = Sent(Rest(d), Response(m, FALSE))
        BY <1>4, <2>0, <2>3 DEF TakeUnknown, Answer
      <3>4. UniqueIn(queue', refused, held, made)
        BY <2>2, <3>1, <3>2, <3>3, AnsweredUnique
      <3>. QED
        BY <2>1, <3>4
    <2>4. CASE m.kind # "Request"
      BY <1>4, <2>0, <2>1, <2>2, <2>4 DEF TakeUnknown
    <2>. QED
      BY <2>3, <2>4
  <1>5. ASSUME NEW d \in Dispatchers, TakeReplace(d) \/ TakeUnregister(d)
        PROVE  UniqueIn(queue', refused', held', made')
    <2>1. /\ queue[d] # <<>> /\ queue' = Rest(d) /\ UNCHANGED <<refused, made>>
          /\ held' = [held EXCEPT ![Head(queue[d]).dst] = {}]
      BY <1>5 DEF TakeReplace, TakeUnregister, Taking, DropBehavior
    <2>2. UniqueIn(Rest(d), refused, held, made)
      BY <1>0, <2>1, RestUnique
    <2>3. \A b \in Reactives : held'[b] \subseteq held[b]
      BY <1>0, <2>1 DEF HandsOK
    <2>4. UniqueIn(Rest(d), refused, held', made)
      <3>1. \A e \in Dispatchers : Once(Rest(d)[e])
        BY <2>2 DEF UniqueIn
      <3>. QED
        BY <2>2, <2>3, <3>1, PlacesShrink
    <2>. QED
      BY <2>1, <2>4
  <1>6. ASSUME NEW d \in Dispatchers, NEW a \in Reactives, NEW dst \in Reactives \cup {INVALID},
               SendRequest(d, a, dst)
        PROVE  UniqueIn(queue', refused', held', made')
    <2>0. PICK n, r : n = Len(made[d]) + 1 /\ r = Request(a, NextRequestId(d), n, dst)
      OBVIOUS
    <2>1. /\ r \in Requests /\ n \in Numbers /\ Len(made'[d]) = n
          /\ made' = [made EXCEPT ![d] = Append(@, a)]
      BY <1>0, <1>6, <2>0, Requesting
    <2>2. /\ own_actor_id[d] = {a} /\ refused[d] = {}
          /\ \/ dst # INVALID /\ queue' = Sent(queue, r) /\ UNCHANGED refused
             \/ refused' = [refused EXCEPT ![d] = {r}] /\ UNCHANGED queue
          /\ UNCHANGED held
      BY <1>6, <2>0, <2>1 DEF SendRequest, Handling
    <2>3. Home[a] = d
      BY <1>0, <2>2 DEF CalledOK
    <2>4. /\ UniqueIn(queue, refused, held, made')
          /\ ~Present(queue, refused, held, a, n) /\ MadeIn(made', a, n)
      BY <2>0, <2>1, <2>3, NewUnique
    <2>5. /\ r \in Messages /\ r.dst = dst
          /\ \A b \in Reactives, k \in Numbers : About(r, b, k) => b = a /\ k = n
      BY <2>0, <2>1 DEF Request, About, Messages
    <2>6. CASE dst # INVALID /\ queue' = Sent(queue, r) /\ UNCHANGED refused
      <3>1. UniqueIn(Sent(queue, r), refused, held, made')
        BY <1>0, <2>4, <2>5, <2>6, SentUnique
      <3>. QED
        BY <2>2, <2>6, <3>1
    <2>7. CASE refused' = [refused EXCEPT ![d] = {r}] /\ UNCHANGED queue
      <3>1. refused'[d] = {r} /\ \A e \in Dispatchers \ {d} : refused'[e] = refused[e]
        BY <1>0, <2>7 DEF HandsOK
      <3>2. UniqueIn(queue, refused', held, made')
        BY <2>4, <2>5, <3>1, RefusedUnique
      <3>. QED
        BY <2>2, <2>7, <3>2
    <2>. QED
      BY <2>2, <2>6, <2>7
  <1>7. ASSUME NEW d \in Dispatchers, AnswerRefused(d)
        PROVE  UniqueIn(queue', refused', held', made')
    <2>1. PICK r \in refused[d] : Answer(queue, r, FALSE)
      BY <1>7 DEF AnswerRefused
    <2>2. refused' = [refused EXCEPT ![d] = {}] /\ UNCHANGED <<held, made>>
      BY <1>7 DEF AnswerRefused, behaviorVars
    <2>3. refused'[d] = {} /\ \A e \in Dispatchers \ {d} : refused'[e] = refused[e]
      BY <1>0, <2>2 DEF HandsOK
    <2>4. UniqueIn(queue, refused', held, made)
      <3>1. \A e \in Dispatchers : Once(queue[e]) /\ refused'[e] \subseteq refused[e]
        BY <1>0, <2>3 DEF UniqueIn
      <3>. QED
        BY <1>0, <3>1, PlacesShrink
    <2>5. r \in Requests /\ MadeIn(made, r.src, r.n) /\ ~Present(queue, refused', held, r.src, r.n)
      <3>0. /\ r \in Requests /\ MadeIn(made, r.src, r.n)
            /\ \A e \in Dispatchers : /\ ~Has(InSeq(queue[e]), r.src, r.n)
                                      /\ Has(refused[e], r.src, r.n) => e = d
            /\ \A b \in Reactives : ~Has(held[b], r.src, r.n)
        BY <2>1, RefusedAlone
      <3>1. ~Has(refused'[d], r.src, r.n)
        BY <2>3 DEF Has
      <3>2. \A e \in Dispatchers \ {d} : ~Has(refused'[e], r.src, r.n)
        BY <2>3, <3>0
      <3>. QED
        BY <3>0, <3>1, <3>2 DEF Present
    <2>6. UniqueIn(queue', refused', held, made)
      BY <1>0, <2>1, <2>4, <2>5, AnsweredUnique DEF Answer
    <2>. QED
      BY <2>2, <2>6
  <1>8. ASSUME NEW d \in Dispatchers, NEW a \in Reactives, NEW r \in held[a], SendResponse(d, a, r)
        PROVE  UniqueIn(queue', refused', held', made')
    <2>1. /\ queue' = Sent(queue, Response(r, TRUE)) /\ held' = [held EXCEPT ![a] = @ \ {r}]
          /\ UNCHANGED <<refused, made>>
      BY <1>8 DEF SendResponse, Answer
    <2>2. held'[a] = held[a] \ {r} /\ \A b \in Reactives \ {a} : held'[b] = held[b]
      BY <1>0, <2>1 DEF HandsOK
    <2>3. UniqueIn(queue, refused, held', made)
      <3>1. /\ \A e \in Dispatchers : Once(queue[e])
            /\ \A b \in Reactives : held'[b] \subseteq held[b]
        BY <1>0, <2>2 DEF UniqueIn
      <3>. QED
        BY <1>0, <3>1, PlacesShrink
    <2>4. /\ r \in Requests /\ MadeIn(made, r.src, r.n)
          /\ ~Present(queue, refused, held', r.src, r.n)
      <3>1. \A q \in held[a] : q \in Requests /\ (q.src = r.src /\ q.n = r.n => q = r)
        BY HeldAlone
      <3>2. ~Has(held'[a], r.src, r.n)
        BY <2>2, <3>1 DEF Has, About, Requests
      <3>3. \A b \in Reactives \ {a} : ~Has(held'[b], r.src, r.n)
        BY <2>2, HeldAlone
      <3>. QED
        BY <3>2, <3>3, HeldAlone DEF Present
    <2>5. UniqueIn(queue', refused, held', made)
      BY <1>0, <2>1, <2>3, <2>4, AnsweredUnique
    <2>. QED
      BY <2>1, <2>5
  <1>9. ASSUME NEW d \in Dispatchers, Return(d) PROVE UniqueIn(queue', refused', held', made')
    BY <1>0, <1>9 DEF Return, behaviorVars
  <1>10. ASSUME NEW kind \in Calls, NEW a \in Reactives, Send(Call(kind, a))
         PROVE  UniqueIn(queue', refused', held', made')
    <2>0. PICK m : m = Call(kind, a)
      OBVIOUS
    <2>1. m \in Messages /\ m.dst \in Reactives /\ \A b, n : ~About(m, b, n)
      BY <2>0 DEF Call, Messages, Calls, About
    <2>2. queue' = Sent(queue, m) /\ UNCHANGED <<refused, held, made>>
      BY <1>10, <2>0 DEF Send, behaviorVars
    <2>3. UniqueIn(Sent(queue, m), refused, held, made)
      BY <1>0, <2>1, SentUnique
    <2>. QED
      BY <2>2, <2>3
  <1>. QED
    BY <1>1, <1>2, <1>3, <1>4, <1>5, <1>6, <1>7, <1>8, <1>9, <1>10 DEF Next, Take

-------------------------------------------------------------------------------
(* The statuses of requests.                                               *)

stat == [a \in Reactives |-> [n \in Numbers |-> Status(a, n)]]

Step == [Promise!Next]_(Promise!vars)

\* Nothing becomes of the messages about the request n of a.
Fixed(a, n) ==
    \A m : About(m, a, n) =>
        /\ \A d \in Dispatchers : /\ m \in InSeq(queue'[d]) <=> m \in InSeq(queue[d])
                                  /\ m \in refused'[d] <=> m \in refused[d]
        /\ \A b \in Reactives : m \in held'[b] <=> m \in held[b]

\* Then its status stays.
LEMMA StatusKept ==
    ASSUME NEW a \in Reactives, NEW n, Fixed(a, n), MadeIn(made', a, n) <=> MadeIn(made, a, n)
    PROVE  Status(a, n)' = Status(a, n)
  <1>1. Open(a, n)' <=> Open(a, n)
    BY OpenMeans, OpenMeansNext DEF Fixed, About
  <1>2. ASSUME NEW ok \in BOOLEAN PROVE Answered(a, n, ok)' <=> Answered(a, n, ok)
    BY DEF Fixed, About, Answered
  <1>3. MadeBy(a, n)' <=> MadeBy(a, n)
    BY DEF MadeIn, MadeBy
  <1>4. /\ Answered(a, n, TRUE)' <=> Answered(a, n, TRUE)
        /\ Answered(a, n, FALSE)' <=> Answered(a, n, FALSE)
    BY <1>2
  <1>5. CASE ~MadeBy(a, n)
    BY <1>3, <1>5 DEF Status
  <1>6. CASE MadeBy(a, n) /\ Open(a, n)
    BY <1>1, <1>3, <1>6 DEF Status
  <1>7. CASE MadeBy(a, n) /\ ~Open(a, n) /\ Answered(a, n, TRUE)
    BY <1>1, <1>3, <1>4, <1>7 DEF Status
  <1>8. CASE MadeBy(a, n) /\ ~Open(a, n) /\ ~Answered(a, n, TRUE)
    BY <1>1, <1>3, <1>4, <1>8 DEF Status
  <1>. QED
    BY <1>5, <1>6, <1>7, <1>8

\* A request that is queued, refused or held is open.
LEMMA StatusOpen ==
    ASSUME NEW a, NEW n, Open(a, n), MadeIn(made, a, n) PROVE Status(a, n) = "open"
  BY DEF Status, MadeBy, MadeIn

\* One that is nowhere is closed, unless it was not made.
LEMMA StatusClosed ==
    ASSUME NEW a \in Reactives, NEW n, ~Present(queue', refused', held', a, n),
           MadeIn(made', a, n)
    PROVE  Status(a, n)' = "closed"
  <1>1. ~Open(a, n)'
    BY OpenMeansNext DEF Present, Has, About
  <1>2. ~Answered(a, n, TRUE)' /\ ~Answered(a, n, FALSE)'
    BY DEF Answered, Present, Has, About
  <1>3. MadeBy(a, n)'
    BY DEF MadeIn, MadeBy
  <1>. QED
    BY <1>1, <1>2, <1>3 DEF Status

\* The response to a request tells its status: there are no others, and it is not open.
LEMMA StatusAnswered ==
    ASSUME TypeInv, Unique, NEW d \in Dispatchers, NEW m \in InSeq(queue[d]), m.kind = "Response"
    PROVE  /\ m.dst \in Reactives /\ m.n \in Numbers /\ m.ok \in BOOLEAN
           /\ Status(m.dst, m.n) = IF m.ok THEN "ok" ELSE "error"
  <1>. DEFINE a == m.dst
              n == m.n
  <1>1. a \in Reactives /\ n \in Numbers /\ m.ok \in BOOLEAN /\ Home[a] = d /\ About(m, a, n)
    <2>1. m \in Messages /\ Home[a] = d
      BY DEF TypeInv, QueuesOK, InSeq
    <2>. QED
      BY <2>1, MessageKinds DEF Responses, About
  <1>. HIDE DEF a, n
  <1>2. /\ OnePlace(queue, refused, held, a, n) /\ Has(InSeq(queue[d]), a, n)
        /\ MadeIn(made, a, n)
    BY <1>1 DEF Unique, UniqueIn, Present, Has
  <1>3. \A x \in InSeq(queue[d]) : About(x, a, n) => x = m
    <2>1. Once(queue[d])
      BY DEF Unique, UniqueIn
    <2>. QED
      BY <1>1, <2>1 DEF Once, InSeq
  <1>4. ~Open(a, n)
    <2>1. \A e \in Dispatchers, b \in Reactives :
             ~Has(refused[e], a, n) /\ ~Has(held[b], a, n)
      BY <1>2 DEF OnePlace
    <2>2. \A e \in Dispatchers : \A r \in InSeq(queue[e]) :
             ~(r.kind = "Request" /\ r.src = a /\ r.n = n)
      <3>1. \A e \in Dispatchers : Has(InSeq(queue[e]), a, n) => e = d
        BY <1>2 DEF OnePlace
      <3>2. \A r \in InSeq(queue[d]) : ~(r.kind = "Request" /\ r.src = a /\ r.n = n)
        BY <1>3 DEF About
      <3>. QED
        BY <3>1, <3>2 DEF Has, About
    <2>3. /\ \A e \in Dispatchers : \A r \in refused[e] : ~(r.kind = "Request" /\ r.src = a /\ r.n = n)
          /\ \A b \in Reactives : \A r \in held[b] : ~(r.kind = "Request" /\ r.src = a /\ r.n = n)
      BY <1>1, <2>1 DEF Has, About
    <2>. QED
      BY <2>2, <2>3, OpenMeans
  <1>5. \A ok \in BOOLEAN : Answered(a, n, ok) <=> m.ok = ok
    BY <1>1, <1>3 DEF Answered, About, a, n
  <1>6. MadeBy(a, n)
    BY <1>2 DEF MadeBy, MadeIn
  <1>7. Status(a, n) = IF m.ok THEN "ok" ELSE "error"
    BY <1>1, <1>4, <1>5, <1>6 DEF Status
  <1>. QED
    BY <1>1, <1>7 DEF a, n

\* One status changes.
LEMMA StatBecomes ==
    ASSUME NEW a \in Reactives, NEW n \in Numbers, NEW statuses, Status(a, n)' \in statuses,
           \A b \in Reactives, j \in Numbers : b # a \/ j # n => Status(b, j)' = Status(b, j)
    PROVE  Promise!Becomes(a, n, statuses)
  <1>1. PICK s \in statuses : s = Status(a, n)'
    OBVIOUS
  <1>2. stat' = [stat EXCEPT ![a][n] = s]
    BY <1>1 DEF stat
  <1>. QED
    BY <1>1, <1>2 DEF Promise!Becomes, stat

\* None does.
LEMMA Stutters ==
    ASSUME UNCHANGED last, \A a \in Reactives, n \in Numbers : Status(a, n)' = Status(a, n)
    PROVE  Step
  <1>1. stat' = stat
    BY DEF stat
  <1>. QED
    BY <1>1 DEF Step, stat, Promise!vars

\* An open request is answered, or its response is lost.
LEMMA Settles ==
    ASSUME NEW a \in Reactives, NEW n \in Numbers, Status(a, n) = "open",
           MadeIn(made, a, n), UNCHANGED <<made, last>>,
           \A b \in Reactives, j \in Numbers : b # a \/ j # n => Fixed(b, j)
    PROVE  Step
  <1>1. \A b \in Reactives, j \in Numbers : b # a \/ j # n => Status(b, j)' = Status(b, j)
    BY StatusKept
  <1>2. Status(a, n)' \in {"open", "ok", "error", "closed"}
    <2>1. MadeBy(a, n)'
      BY DEF MadeBy, MadeIn
    <2>. QED
      BY <2>1 DEF Status
  <1>3. CASE Status(a, n)' = "open"
    BY <1>1, <1>3, Stutters
  <1>4. CASE Status(a, n)' \in {"ok", "error", "closed"}
    <2>1. Promise!Becomes(a, n, Promise!Answers \cup {"closed"})
      BY <1>1, <1>4, StatBecomes DEF Promise!Answers
    <2>2. stat[a][n] = "open"
      BY DEF stat
    <2>3. Promise!Answer(a, n)
      BY <2>1, <2>2 DEF Promise!Answer, stat
    <2>. QED
      BY <2>3 DEF Step, Promise!Next
  <1>. QED
    BY <1>2, <1>3, <1>4

-------------------------------------------------------------------------------
(* Each step is one of RequestReply.                                       *)

RInv == WInv /\ Unique

\* In the beginning every request is unsent.
LEMMA PromiseInit == Init => Promise!Init
  <1>. SUFFICES ASSUME Init PROVE Promise!Init
    OBVIOUS
  <1>1. ASSUME NEW a \in Reactives, NEW n \in Numbers PROVE Status(a, n) = "unsent"
    <2>1. n \in Nat \ {0} /\ Len(made[Home[a]]) = 0
      BY DEF Numbers, Init
    <2>. QED
      BY <2>1 DEF Status, MadeBy
  <1>2. last = [a \in Reactives |-> 0]
    BY DEF Init
  <1>. QED
    BY <1>1, <1>2 DEF Promise!Init

\* What is taken from a queue leaves other requests alone.
LEMMA RestFixed ==
    ASSUME QueuesOK(queue), NEW d \in Dispatchers, queue[d] # <<>>,
           NEW a, NEW n, ~About(Head(queue[d]), a, n)
    PROVE  \A m : About(m, a, n) =>
               \A e \in Dispatchers : m \in InSeq(Rest(d)[e]) <=> m \in InSeq(queue[e])
  BY Receiving, ReceivingKeeps

\* So does what is put into it.
LEMMA SentFixed ==
    ASSUME NEW queues, QueuesOK(queues), NEW x \in Messages, x.dst \in Reactives,
           NEW a, NEW n, ~About(x, a, n)
    PROVE  \A m : About(m, a, n) =>
               \A e \in Dispatchers : m \in InSeq(Sent(queues, x)[e]) <=> m \in InSeq(queues[e])
  BY Sending, SendingKeeps

\* A notification that is taken is about no request.
LEMMA StepNotification ==
    ASSUME RInv, NEW d \in Dispatchers, TakeNotification(d) PROVE Step
  <1>1. /\ queue[d] # <<>> /\ queue' = Rest(d) /\ Head(queue[d]).kind = "Notification"
        /\ UNCHANGED <<refused, held, made, last>>
    BY DEF TakeNotification, Taking, CallBehavior, behaviorVars
  <1>2. QueuesOK(queue)
    BY DEF RInv, WInv, IInv, TypeInv
  <1>3. \A a \in Reactives, n \in Numbers : Fixed(a, n)
    BY <1>1, <1>2, RestFixed DEF Fixed, About
  <1>. QED
    BY <1>1, <1>3, StatusKept, Stutters

\* A request that is taken is open, first queued and then held.
LEMMA StepRequest ==
    ASSUME RInv, NEW d \in Dispatchers, TakeRequest(d) PROVE Step
  <1>0. PICK m : m = Head(queue[d])
    OBVIOUS
  <1>1. /\ queue[d] # <<>> /\ queue' = Rest(d) /\ m.kind = "Request" /\ m.dst \in reactive_list
        /\ held' = [held EXCEPT ![m.dst] = @ \cup {m}]
        /\ UNCHANGED <<refused, made, last>>
    BY <1>0 DEF TakeRequest, Taking, CallBehavior
  <1>2. QueuesOK(queue) /\ CalledOK /\ HandsOK /\ Unique
    BY DEF RInv, WInv, IInv, TypeInv
  <1>3. /\ m \in Requests /\ m.src \in Reactives /\ m.n \in Numbers /\ m.dst \in Reactives
        /\ m \in InSeq(queue[d])
    BY <1>0, <1>1, <1>2, Receiving, MessageKinds DEF Requests, CalledOK
  <1>4. MadeIn(made, m.src, m.n)
    BY <1>0, <1>1, <1>2, <1>3, RestUnique DEF About
  <1>5. Open(m.src, m.n)
    BY <1>1, <1>3, OpenMeans
  <1>6. \A b \in Reactives : held'[b] = IF b = m.dst THEN held[b] \cup {m} ELSE held[b]
    BY <1>1, <1>2 DEF HandsOK
  <1>7. ASSUME NEW b \in Reactives, NEW j \in Numbers, b # m.src \/ j # m.n PROVE Fixed(b, j)
    <2>1. ~About(m, b, j)
      BY <1>1, <1>7 DEF About
    <2>2. \A x : About(x, b, j) => x # m
      BY <2>1
    <2>3. \A x : About(x, b, j) =>
             \A e \in Dispatchers : x \in InSeq(queue'[e]) <=> x \in InSeq(queue[e])
      BY <1>0, <1>1, <1>2, <2>1, RestFixed
    <2>4. \A x : About(x, b, j) => \A c \in Reactives : x \in held'[c] <=> x \in held[c]
      BY <1>6, <2>2
    <2>. QED
      BY <1>1, <2>3, <2>4 DEF Fixed
  <1>. QED
    BY <1>1, <1>3, <1>4, <1>5, <1>7, StatusOpen, Settles

\* Whoever answers a request has it; its sender gets the response or not.
LEMMA StepAnswer ==
    ASSUME RInv, NEW queues, QueuesOK(queues), NEW r \in Requests, NEW ok \in BOOLEAN,
           Answer(queues, r, ok), Open(r.src, r.n), MadeIn(made, r.src, r.n),
           UNCHANGED <<made, last>>,
           \A e \in Dispatchers : /\ InSeq(queues[e]) \subseteq InSeq(queue[e])
                                  /\ InSeq(queue[e]) \subseteq InSeq(queues[e]) \cup {r}
                                  /\ refused'[e] \subseteq refused[e]
                                  /\ refused[e] \subseteq refused'[e] \cup {r},
           \A b \in Reactives : /\ held'[b] \subseteq held[b]
                                /\ held[b] \subseteq held'[b] \cup {r}
    PROVE  Step
  <1>1. /\ r.kind = "Request" /\ r.src \in Reactives /\ r.n \in Numbers
        /\ Response(r, ok) \in Messages /\ Response(r, ok).dst = r.src
        /\ Response(r, ok).n = r.n /\ Response(r, ok).kind = "Response"
    BY ResponseFacts DEF Requests, Response
  <1>2. queue' = Sent(queues, Response(r, ok))
    BY DEF Answer
  <1>3. ASSUME NEW b \in Reactives, NEW j \in Numbers, b # r.src \/ j # r.n PROVE Fixed(b, j)
    <2>1. ~About(r, b, j) /\ ~About(Response(r, ok), b, j)
      BY <1>1, <1>3 DEF About
    <2>2. \A x : About(x, b, j) => x # r
      BY <2>1
    <2>3. \A x : About(x, b, j) =>
             \A e \in Dispatchers : x \in InSeq(queue'[e]) <=> x \in InSeq(queues[e])
      BY <1>1, <1>2, <2>1, SentFixed
    <2>. QED
      BY <2>2, <2>3 DEF Fixed
  <1>. QED
    BY <1>1, <1>3, StatusOpen, Settles

\* A response is taken for the request that its behavior waits for, or passed over.
LEMMA StepResponse ==
    ASSUME RInv, NEW d \in Dispatchers, NEW m, m = Head(queue[d]), queue[d] # <<>>,
           m.kind = "Response", queue' = Rest(d), UNCHANGED <<refused, held, made>>,
           \/ last[m.dst] = m.n /\ last' = [last EXCEPT ![m.dst] = 0]
           \/ last[m.dst] # m.n /\ UNCHANGED last
    PROVE  Step
  <1>. DEFINE ended == {"closed"}
  <1>1. TypeInv /\ QueuesOK(queue) /\ IdsOK /\ Unique
    BY DEF RInv, WInv, IInv, TypeInv
  <1>2. PICK a, n : a = m.dst /\ n = m.n
    OBVIOUS
  <1>3. m \in InSeq(queue[d])
    BY <1>1, Receiving
  <1>4. /\ a \in Reactives /\ n \in Numbers /\ m.ok \in BOOLEAN
        /\ Status(a, n) = IF m.ok THEN "ok" ELSE "error"
        /\ n \in Nat \ {0}
    BY <1>1, <1>2, <1>3, StatusAnswered DEF Numbers
  <1>5. About(m, a, n) /\ \A b \in Reactives, j \in Numbers : b # a \/ j # n => ~About(m, b, j)
    BY <1>2 DEF About
  <1>6. Status(a, n)' = "closed"
    <2>1. ~Present(Rest(d), refused, held, a, n) /\ MadeIn(made, a, n)
      BY <1>1, <1>4, <1>5, RestUnique
    <2>2. ~Present(queue', refused', held', a, n) /\ MadeIn(made', a, n)
      BY <2>1
    <2>. QED
      BY <1>4, <2>2, StatusClosed
  <1>7. \A b \in Reactives, j \in Numbers : b # a \/ j # n => Status(b, j)' = Status(b, j)
    <2>1. \A b \in Reactives, j \in Numbers : b # a \/ j # n => Fixed(b, j)
      BY <1>1, <1>5, RestFixed DEF Fixed
    <2>. QED
      BY <2>1, StatusKept
  <1>8. Promise!Becomes(a, n, ended)
    BY <1>4, <1>6, <1>7, StatBecomes
  <1>9. stat[a][n] = IF m.ok THEN "ok" ELSE "error"
    BY <1>4 DEF stat
  <1>10. CASE last[a] = n /\ last' = [last EXCEPT ![a] = 0]
    <2>1. Promise!Stops(a)
      BY <1>4, <1>10 DEF Promise!Stops
    <2>2. CASE m.ok
      <3>1. Promise!TakeOk(a)
        BY <1>8, <1>9, <1>10, <2>1, <2>2 DEF Promise!TakeOk, stat
      <3>. QED
        BY <1>4, <3>1 DEF Step, Promise!Next
    <2>3. CASE ~m.ok
      <3>1. Promise!TakeError(a, n)
        BY <1>8, <1>9, <2>1, <2>3 DEF Promise!TakeError, stat
      <3>. QED
        BY <1>4, <3>1 DEF Step, Promise!Next
    <2>. QED
      BY <2>2, <2>3
  <1>11. CASE last[a] # n /\ UNCHANGED last
    <2>1. Promise!PassOver(a, n)
      BY <1>4, <1>8, <1>9, <1>11 DEF Promise!PassOver, Promise!Answers, stat
    <2>. QED
      BY <1>4, <2>1 DEF Step, Promise!Next
  <1>. QED
    BY <1>2, <1>10, <1>11

\* A reactive that is dropped ends: with it the requests that it held.
LEMMA StepDrop ==
    ASSUME RInv, NEW d \in Dispatchers, TakeReplace(d) \/ TakeUnregister(d) PROVE Step
  <1>0. PICK m, b : m = Head(queue[d]) /\ b = m.dst
    OBVIOUS
  <1>1. /\ queue[d] # <<>> /\ queue' = Rest(d) /\ m.kind \in {"Replace", "Unregister"}
        /\ held' = [held EXCEPT ![b] = {}] /\ last' = [last EXCEPT ![b] = 0]
        /\ UNCHANGED <<refused, made>>
    BY <1>0 DEF TakeReplace, TakeUnregister, Taking, DropBehavior
  <1>2. TypeInv /\ QueuesOK(queue) /\ HandsOK /\ IdsOK /\ Unique
    BY DEF RInv, WInv, IInv, TypeInv
  <1>3. b \in Reactives
    BY <1>0, <1>1, <1>2, Receiving, MessageKinds DEF Calls
  <1>4. /\ held'[b] = {} /\ \A c \in Reactives \ {b} : held'[c] = held[c]
        /\ \A c \in Reactives : last'[c] = IF c = b THEN 0 ELSE last[c]
        /\ last' \in [Reactives -> {0} \cup Numbers]
    BY <1>1, <1>2, <1>3 DEF HandsOK, IdsOK
  <1>5. PICK ended : ended = {<<r.src, r.n>> : r \in held[b]}
    OBVIOUS
  <1>6. ASSUME NEW r \in held[b]
        PROVE  /\ r.src \in Reactives /\ r.n \in Numbers
               /\ Status(r.src, r.n) = "open" /\ Status(r.src, r.n)' = "closed"
    <2>1. PICK a, n : a = r.src /\ n = r.n
      OBVIOUS
    <2>2. /\ a \in Reactives /\ n \in Numbers /\ Open(a, n) /\ MadeIn(made, a, n)
          /\ \A e \in Dispatchers : ~Has(InSeq(queue[e]), a, n) /\ ~Has(refused[e], a, n)
          /\ \A c \in Reactives : Has(held[c], a, n) => c = b
      BY <1>2, <1>3, <2>1, HeldAlone
    <2>3. \A e \in Dispatchers : ~Has(InSeq(Rest(d)[e]), a, n)
      <3>1. \A e \in Dispatchers : InSeq(Rest(d)[e]) \subseteq InSeq(queue[e])
        BY <1>1, <1>2, Receiving
      <3>. QED
        BY <2>2, <3>1 DEF Has
    <2>4. ~Has(held'[b], a, n) /\ \A c \in Reactives \ {b} : ~Has(held'[c], a, n)
      BY <1>4, <2>2 DEF Has
    <2>5. ~Present(queue', refused', held', a, n) /\ MadeIn(made', a, n)
      BY <1>1, <2>2, <2>3, <2>4 DEF Present
    <2>6. Status(a, n) = "open" /\ Status(a, n)' = "closed"
      BY <2>2, <2>5, StatusOpen, StatusClosed
    <2>. QED
      BY <2>1, <2>2, <2>6
  <1>7. ASSUME NEW a \in Reactives, NEW n \in Numbers, <<a, n>> \notin ended
        PROVE  Status(a, n)' = Status(a, n)
    <2>1. ~About(m, a, n)
      BY <1>1 DEF About
    <2>2. ~Has(held[b], a, n)
      <3>1. \A r \in held[b] : r.kind = "Request" /\ ~(r.src = a /\ r.n = n)
        BY <1>2, <1>3, <1>5, <1>7 DEF HandsOK, Requests
      <3>. QED
        BY <3>1 DEF Has, About
    <2>3. \A x : About(x, a, n) => \A e \in Dispatchers : x \in InSeq(queue'[e]) <=> x \in InSeq(queue[e])
      BY <1>0, <1>1, <1>2, <2>1, RestFixed
    <2>4. \A x : About(x, a, n) => \A c \in Reactives : x \in held'[c] <=> x \in held[c]
      BY <1>4, <2>2 DEF Has
    <2>5. Fixed(a, n)
      BY <1>1, <2>3, <2>4 DEF Fixed
    <2>. QED
      BY <1>1, <2>5, StatusKept
  <1>8. ended \in SUBSET Promise!Losable
    BY <1>5, <1>6 DEF Promise!Losable, stat
  <1>9. stat' = [a \in Reactives |-> [n \in Numbers |->
                    IF <<a, n>> \in ended THEN "closed" ELSE stat[a][n]]]
    <2>1. ASSUME NEW a \in Reactives, NEW n \in Numbers
          PROVE  Status(a, n)' = IF <<a, n>> \in ended THEN "closed" ELSE Status(a, n)
      <3>1. CASE <<a, n>> \in ended
        <4>1. PICK r \in held[b] : a = r.src /\ n = r.n
          BY <1>5, <3>1
        <4>. QED
          BY <1>6, <3>1, <4>1
      <3>2. CASE <<a, n>> \notin ended
        BY <1>7, <3>2
      <3>. QED
        BY <3>1, <3>2
    <2>. QED
      BY <2>1 DEF stat
  <1>10. last' = [a \in Reactives |-> IF a \in {b} THEN 0 ELSE last[a]]
    BY <1>4
  <1>11. Promise!End(ended, {b})
    BY <1>9, <1>10 DEF Promise!End, stat
  <1>. QED
    BY <1>3, <1>8, <1>11 DEF Step, Promise!Next

\* A reactive that makes a request asks, and waits for nothing else any more.
LEMMA StepAsk ==
    ASSUME RInv, NEW d \in Dispatchers, NEW a \in Reactives, NEW dst \in Reactives \cup {INVALID},
           SendRequest(d, a, dst)
    PROVE  Step
  <1>0. PICK n, r : n = Len(made[d]) + 1 /\ r = Request(a, NextRequestId(d), n, dst)
    OBVIOUS
  <1>1. TypeInv /\ QueuesOK(queue) /\ CalledOK /\ HandsOK /\ IdsOK /\ Unique
    BY DEF RInv, WInv, IInv, TypeInv
  <1>2. /\ r \in Requests /\ n \in Numbers /\ n \in Nat \ {0} /\ Len(made'[d]) = n
        /\ Len(made[d]) \in Nat /\ made' = [made EXCEPT ![d] = Append(@, a)]
    BY <1>0, <1>1, Requesting DEF Numbers
  <1>3. /\ own_actor_id[d] = {a} /\ refused[d] = {}
        /\ \/ dst # INVALID /\ HasRoom(queue, dst) /\ queue' = Sent(queue, r) /\ UNCHANGED refused
           \/ refused' = [refused EXCEPT ![d] = {r}] /\ UNCHANGED queue
        /\ last' = [last EXCEPT ![a] = r.n]
        /\ UNCHANGED held
    BY <1>0, <1>2 DEF SendRequest, Handling
  <1>4. Home[a] = d
    BY <1>1, <1>3 DEF CalledOK
  <1>5. /\ r.kind = "Request" /\ r.src = a /\ r.n = n /\ r.dst = dst /\ r \in Messages
        /\ \A b \in Reactives, j \in Numbers : b # a \/ j # n => ~About(r, b, j)
    BY <1>0, <1>2 DEF Request, Messages, About
  <1>6. /\ MadeIn(made', a, n)
        /\ \A b \in Reactives, j \in Numbers :
               j # n \/ a # b => (MadeIn(made', b, j) <=> MadeIn(made, b, j))
    BY <1>0, <1>1, <1>2, <1>4, NewUnique
  <1>7. /\ Open(a, n)'
        /\ \A b \in Reactives, j \in Numbers : b # a \/ j # n => Fixed(b, j)
    <2>1. CASE dst # INVALID /\ HasRoom(queue, dst) /\ queue' = Sent(queue, r) /\ UNCHANGED refused
      <3>1. r \in InSeq(queue'[Home[dst]]) /\ Home[dst] \in Dispatchers
        BY <1>1, <1>5, <2>1, SendingKeeps
      <3>2. \A b \in Reactives, j \in Numbers : b # a \/ j # n => Fixed(b, j)
        BY <1>1, <1>3, <1>5, <2>1, SentFixed DEF Fixed
      <3>. QED
        BY <1>5, <3>1, <3>2, OpenMeansNext
    <2>2. CASE refused' = [refused EXCEPT ![d] = {r}] /\ UNCHANGED queue
      <3>1. refused'[d] = {r} /\ \A e \in Dispatchers \ {d} : refused'[e] = refused[e]
        BY <1>1, <2>2 DEF HandsOK
      <3>2. \A b \in Reactives, j \in Numbers : b # a \/ j # n => Fixed(b, j)
        BY <1>3, <1>5, <2>2, <3>1 DEF Fixed
      <3>. QED
        BY <1>5, <3>1, <3>2, OpenMeansNext
    <2>. QED
      BY <1>3, <2>1, <2>2
  <1>8. Status(a, n)' = "open"
    <2>1. MadeBy(a, n)'
      BY <1>6 DEF MadeBy, MadeIn
    <2>. QED
      BY <1>7, <2>1 DEF Status
  <1>9. \A b \in Reactives, j \in Numbers : b # a \/ j # n => Status(b, j)' = Status(b, j)
    BY <1>6, <1>7, StatusKept
  <1>10. Promise!Becomes(a, n, {"open", "error", "closed"})
    BY <1>2, <1>8, <1>9, StatBecomes
  <1>11. \A j \in Numbers : j >= n => stat[a][j] = "unsent"
    <2>1. ASSUME NEW j \in Numbers, j >= n PROVE Status(a, j) = "unsent"
      <3>1. j \in Nat /\ ~(j <= Len(made[Home[a]]))
        BY <1>0, <1>2, <1>4, <2>1 DEF Numbers
      <3>. QED
        BY <3>1 DEF Status, MadeBy
    <2>. QED
      BY <2>1 DEF stat
  <1>12. last' = [last EXCEPT ![a] = n]
    BY <1>3, <1>5
  <1>13. Promise!Ask(a, n)
    BY <1>10, <1>11, <1>12 DEF Promise!Ask, stat
  <1>. QED
    BY <1>2, <1>13 DEF Step, Promise!Next

\* Each step of Reactives is one of RequestReply, or changes nothing that it sees.
LEMMA StepNext == RInv /\ [Next]_vars => Step
  <1>. SUFFICES ASSUME RInv, [Next]_vars PROVE Step
    OBVIOUS
  <1>0. /\ TypeInv /\ QueuesOK(queue) /\ HandsOK /\ IdsOK /\ CalledOK /\ Unique
        /\ Numbered /\ NumberedIn(queue) /\ RegisteredOK
    BY DEF RInv, WInv, IInv, TypeInv, Numbered
  <1>1. ASSUME UNCHANGED <<queue, refused, held, made, last>> PROVE Step
    <2>1. \A a \in Reactives, n \in Numbers : Fixed(a, n)
      BY <1>1 DEF Fixed
    <2>. QED
      BY <1>1, <2>1, StatusKept, Stutters
  <1>2. CASE UNCHANGED vars
    BY <1>1, <1>2 DEF vars, behaviorVars
  <1>3. ASSUME NEW d \in Dispatchers, TakeResponse(d) PROVE Step
    <2>0. PICK m : m = Head(queue[d])
      OBVIOUS
    <2>1. /\ queue[d] # <<>> /\ m.kind = "Response" /\ queue' = Rest(d)
          /\ \/ IsAwaited(m) /\ last' = [last EXCEPT ![m.dst] = 0]
             \/ ~IsAwaited(m) /\ UNCHANGED last
          /\ UNCHANGED <<refused, held, made>>
      BY <1>3, <2>0 DEF TakeResponse, Taking, CallBehavior
    <2>2. m \in InSeq(queue[d]) /\ m.id = m.n
      BY <1>0, <2>0, <2>1, Receiving DEF NumberedIn
    <2>3. m.dst \in Reactives /\ m.n \in Nat \ {0}
      BY <1>0, <2>1, <2>2, StatusAnswered DEF Numbers
    <2>4. IsAwaited(m) <=> last[m.dst] = m.n
      BY <1>0, <2>2, <2>3 DEF IsAwaited, Numbered, IdsOK
    <2>. QED
      BY <2>0, <2>1, <2>4, StepResponse
  <1>4. ASSUME NEW d \in Dispatchers, TakeUnknown(d) PROVE Step
    <2>0. PICK m : m = Head(queue[d])
      OBVIOUS
    <2>1. /\ queue[d] # <<>> /\ m.kind \in {"Request", "Response", "Notification"}
          /\ m.dst \notin reactive_list
          /\ UNCHANGED <<refused, held, made, last>>
      BY <1>4, <2>0 DEF TakeUnknown, Taking, behaviorVars
    <2>2. /\ m \in InSeq(queue[d]) /\ m \in Messages /\ QueuesOK(Rest(d))
          /\ \A e \in Dispatchers : /\ InSeq(Rest(d)[e]) \subseteq InSeq(queue[e])
                                    /\ InSeq(queue[e]) \subseteq InSeq(Rest(d)[e]) \cup {m}
      BY <1>0, <2>0, <2>1, Receiving, ReceivingKeeps
    <2>3. CASE m.kind = "Request"
      <3>1. m \in Requests /\ m.src \in Reactives /\ m.n \in Numbers
        BY <2>2, <2>3, MessageKinds DEF Requests
      <3>2. MadeIn(made, m.src, m.n)
        BY <1>0, <2>0, <2>1, <2>3, <3>1, RestUnique DEF About
      <3>3. Open(m.src, m.n)
        BY <2>2, <2>3, OpenMeans
      <3>4. Answer(Rest(d), m, FALSE)
        BY <1>4, <2>0, <2>3 DEF TakeUnknown
      <3>. QED
        BY <2>1, <2>2, <3>1, <3>2, <3>3, <3>4, StepAnswer
    <2>4. CASE m.kind = "Response"
      <3>1. queue' = Rest(d)
        BY <1>4, <2>0, <2>4 DEF TakeUnknown
      <3>2. m.dst \in Reactives /\ m.n \in Nat \ {0}
        BY <1>0, <2>2, <2>4, StatusAnswered DEF Numbers
      <3>3. last[m.dst] # m.n
        BY <1>0, <2>1, <3>2 DEF RegisteredOK
      <3>. QED
        BY <2>0, <2>1, <2>4, <3>1, <3>3, StepResponse
    <2>5. CASE m.kind = "Notification"
      <3>1. queue' = Rest(d)
        BY <1>4, <2>0, <2>5 DEF TakeUnknown
      <3>2. \A a \in Reactives, n \in Numbers : Fixed(a, n)
        BY <1>0, <2>0, <2>1, <2>5, <3>1, RestFixed DEF Fixed, About
      <3>. QED
        BY <2>1, <3>2, StatusKept, Stutters
    <2>. QED
      BY <2>1, <2>3, <2>4, <2>5
  <1>5. ASSUME NEW d \in Dispatchers, AnswerRefused(d) PROVE Step
    <2>1. PICK r \in refused[d] : Answer(queue, r, FALSE)
      BY <1>5 DEF AnswerRefused
    <2>2. refused' = [refused EXCEPT ![d] = {}] /\ UNCHANGED <<held, made, last>>
      BY <1>5 DEF AnswerRefused, behaviorVars
    <2>3. r \in Requests /\ refused[d] = {r} /\ Open(r.src, r.n) /\ MadeIn(made, r.src, r.n)
      BY <1>0, <2>1, RefusedAlone
    <2>4. \A e \in Dispatchers : /\ refused'[e] \subseteq refused[e]
                                 /\ refused[e] \subseteq refused'[e] \cup {r}
      BY <1>0, <2>2, <2>3 DEF HandsOK
    <2>. QED
      BY <1>0, <2>1, <2>2, <2>3, <2>4, StepAnswer
  <1>6. ASSUME NEW d \in Dispatchers, NEW a \in Reactives, NEW r \in held[a], SendResponse(d, a, r)
        PROVE  Step
    <2>1. /\ Answer(queue, r, TRUE) /\ held' = [held EXCEPT ![a] = @ \ {r}]
          /\ UNCHANGED <<refused, made, last>>
      BY <1>6 DEF SendResponse
    <2>2. r \in Requests /\ Open(r.src, r.n) /\ MadeIn(made, r.src, r.n)
      BY <1>0, HeldAlone
    <2>3. \A b \in Reactives : /\ held'[b] \subseteq held[b]
                               /\ held[b] \subseteq held'[b] \cup {r}
      BY <1>0, <2>1 DEF HandsOK
    <2>. QED
      BY <1>0, <2>1, <2>2, <2>3, StepAnswer
  <1>7. ASSUME NEW d \in Dispatchers, Return(d) PROVE Step
    BY <1>1, <1>7 DEF Return, behaviorVars
  <1>8. ASSUME NEW kind \in Calls, NEW a \in Reactives, Send(Call(kind, a)) PROVE Step
    <2>0. PICK m : m = Call(kind, a)
      OBVIOUS
    <2>1. m \in Messages /\ m.dst \in Reactives /\ \A b, n : ~About(m, b, n)
      BY <2>0 DEF Call, Messages, Calls, About
    <2>2. queue' = Sent(queue, m) /\ UNCHANGED <<refused, held, made, last>>
      BY <1>8, <2>0 DEF Send, behaviorVars
    <2>3. \A b \in Reactives, n \in Numbers : Fixed(b, n)
      BY <1>0, <2>1, <2>2, SentFixed DEF Fixed
    <2>. QED
      BY <2>2, <2>3, StatusKept, Stutters
  <1>. QED
    BY <1>2, <1>3, <1>4, <1>5, <1>6, <1>7, <1>8, StepNotification, StepRequest, StepDrop, StepAsk
    DEF Next, Take

\* As long as request ids do not wrap around, requests between reactives keep the promise
\* of RequestReply: each is asked once and answered at most once, an ok answer is taken by
\* the reactive that waits for it and by no other, and the answer to a request that a
\* reactive waits for does not vanish once it is queued.  This holds for any dispatchers,
\* reactives, capacities and numbers of messages, although reactives make new requests
\* while they wait, and are replaced and unregistered.
THEOREM RequestsKeepPromise == ASSUME NoIdReuse PROVE Spec => KeepsPromise
  <1>1. Init => RInv /\ Promise!Init
    BY TypeInvInit, NumberedInit, WaitingInit, UniqueInit, PromiseInit DEF RInv, WInv, IInv
  <1>2. RInv /\ [Next]_vars => RInv'
    BY NumberedNext, TypeInvNext, RegisteredNext, AwaitedNext, UniqueNext DEF RInv, WInv, IInv
  <1>3. RInv /\ [Next]_vars => [Promise!Next]_(Promise!vars)
    BY StepNext DEF Step
  <1>. QED
    BY <1>1, <1>2, <1>3, PTL DEF Spec, KeepsPromise, Promise!Spec
===============================================================================
