------------------------- MODULE RateLimiterProofs -------------------------
(***************************************************************************)
(* RateLimiter: the promise of retry_after_seconds and the size of bursts, *)
(* for any clients, requests, windows and limits.                          *)
(***************************************************************************)
EXTENDS RateLimiter, FiniteSetTheorems, TLAPS

\* While all requests since the buckets were cleared brought the settings j:
\* a client that has to wait has a full bucket that ends when the wait does;
\* one that has waited, and has not been let in since, has no current bucket.
PromiseBacked ==
    \A j \in judged : judged = {j} =>
        \A c \in Clients : promised[c] # None =>
            /\ promised[c] > 0 => /\ bucket[c] # None
                                  /\ bucket[c].age + promised[c] = j[1]
                                  /\ bucket[c].count >= j[2]
            /\ promised[c] = 0 /\ ~served[c] => bucket[c] = None \/ bucket[c].age >= j[1]

\* Of the last v ticks, the bucket of a client has counted all those since it
\* began; what came before belongs to one other bucket.
BurstBacked ==
    \A w \in Windows, most \in Limits : Within(w, most) =>
        \A c \in Clients, v \in 0 .. w :
            /\ bucket[c] = None => recent[c][v] <= most
            /\ bucket[c] # None => /\ bucket[c].count <= most
                                   /\ recent[c][v] <= bucket[c].count + most
                                   /\ v <= bucket[c].age => recent[c][v] <= bucket[c].count

LimiterInv ==
    /\ LimiterTypeOK
    /\ IsFiniteSet(judged)
    /\ \A c \in Clients : promised[c] # None => judged # {}
    /\ PromiseBacked
    /\ BurstBacked

LEMMA SpanLongest == Span \in Windows /\ Span \in Nat /\ Span > 0 /\ \A w \in Windows : w <= Span
<1>1. Span \in Windows /\ \A w \in Windows : w <= Span
  BY LimiterAssumption DEF Span
<1> QED
  BY <1>1, LimiterAssumption

LEMMA MaxOfTwo ==
  ASSUME NEW x \in Int, NEW y \in Int
  PROVE  Max({x, y}) = IF x >= y THEN x ELSE y
BY DEF Max

LEMMA RequestType ==
  ASSUME LimiterTypeOK, NEW q \in Requests, request[q] # None
  PROVE  /\ request[q].client \in Clients /\ request[q].by \in Settings
         /\ request[q].by.window \in Windows /\ request[q].by.most \in Limits
         /\ request[q].by.window \in Nat /\ request[q].by.window > 0
         /\ request[q].by.window <= Span
         /\ request[q].by.most \in Nat /\ request[q].by.most > 0
<1>1. request[q] \in [client : Clients, by : Settings]
  BY DEF LimiterTypeOK
<1>2. request[q].client \in Clients /\ request[q].by \in Settings
  BY <1>1
<1>3. request[q].by.window \in Windows /\ request[q].by.most \in Limits
  BY <1>2 DEF Settings
<1>4. request[q].by.window <= Span
  BY <1>3, SpanLongest
<1>5. request[q].by.window \in Nat \ {0} /\ request[q].by.most \in Nat \ {0}
  BY <1>3, LimiterAssumption, Zenon
<1> QED
  BY <1>2, <1>3, <1>4, <1>5

\* The bucket a request is counted in.
LEMMA CurrentBucket ==
  ASSUME NEW b \in Buckets \cup {None}, NEW w \in Nat, w > 0
  PROVE  /\ Current(b, w) \in Buckets
         /\ Current(b, w).age < w
         /\ Current(b, w).count # 0 => b # None /\ Current(b, w) = b
         /\ b # None /\ b.age < w => Current(b, w) = b
         /\ b = None \/ b.age >= w => Current(b, w).count = 0
<1>0. [age |-> 0, count |-> 0] \in Buckets
  BY SpanLongest DEF Buckets
<1>1. CASE b = None
  BY <1>0, <1>1 DEF Current, Retained
<1>2. CASE b # None
  <2>1. b \in Buckets /\ b.age \in Nat /\ b.count \in Nat
    BY <1>2, SpanLongest DEF Buckets
  <2>2. CASE b.age < w
    <3>1. Current(b, w) = b
      BY <1>2, <2>1, <2>2 DEF Current, Retained, Over
    <3> QED
      BY <1>2, <2>1, <2>2, <3>1
  <2>3. CASE b.age >= w
    <3>1. Current(b, w) = [age |-> 0, count |-> 0]
      BY <2>1, <2>3 DEF Current, Retained, Over
    <3> QED
      BY <1>0, <1>2, <2>1, <2>3, <3>1
  <2> QED
    BY <2>1, <2>2, <2>3
<1> QED
  BY <1>1, <1>2

\* Counting a request keeps the buckets buckets.
LEMMA CountedType ==
  ASSUME LimiterTypeOK, NEW c \in Clients, NEW b \in Buckets, NEW w, Counted(c, b, w)
  PROVE  /\ bucket' \in [Clients -> Buckets \cup {None}]
         /\ bucket'[c] = b
         /\ \A d \in Clients \ {c} : bucket'[d] = IF Retained(bucket[d], w) THEN bucket[d] ELSE None
BY DEF LimiterTypeOK, Counted

\* What the burst bound is about, in numbers.
LEMMA BurstTypes ==
  ASSUME LimiterTypeOK, NEW w \in Windows, NEW most \in Limits, NEW c \in Clients
  PROVE  /\ w \in Nat /\ w > 0 /\ w <= Span /\ Span \in Nat /\ most \in Nat /\ most > 0
         /\ \A v \in 0 .. w : v \in Nat /\ recent[c][v] \in Nat
         /\ bucket[c] # None => /\ bucket[c] \in Buckets
                                /\ bucket[c].age \in Nat /\ bucket[c].count \in Nat
<1>1. w \in Nat /\ w > 0 /\ w <= Span /\ Span \in Nat /\ most \in Nat /\ most > 0
  <2>1. w \in Nat \ {0} /\ most \in Nat \ {0}
    BY LimiterAssumption, Zenon
  <2> QED
    BY <2>1, SpanLongest
<1>2. recent[c] \in [0 .. Span -> Nat]
  BY DEF LimiterTypeOK
<1>3. ASSUME NEW v \in 0 .. w PROVE v \in Nat /\ recent[c][v] \in Nat
  <2>1. v \in 0 .. Span /\ v \in Nat
    BY <1>1
  <2>2. recent[c][v] \in Nat
    BY <1>2, <2>1, Zenon
  <2> QED
    BY <2>1, <2>2
<1>4. ASSUME bucket[c] # None
      PROVE  bucket[c] \in Buckets /\ bucket[c].age \in Nat /\ bucket[c].count \in Nat
  <2>1. bucket[c] \in Buckets
    BY <1>4 DEF LimiterTypeOK
  <2> QED
    BY <1>1, <2>1 DEF Buckets
<1> QED
  BY <1>1, <1>3, <1>4

\* The bound for pairs of window and limit that cover a new judgement covers
\* the earlier ones.
LEMMA WithinBefore ==
  ASSUME NEW w, NEW most, NEW a, NEW b, judged' = judged \cup {<<a, b>>}, Within(w, most)'
  PROVE  Within(w, most) /\ w <= a /\ b <= most
<1>1. \A j \in judged' : w <= j[1] /\ j[2] <= most
  BY DEF Within
<1>2. <<a, b>> \in judged' /\ \A j \in judged : j \in judged'
  OBVIOUS
<1>3. w <= <<a, b>>[1] /\ <<a, b>>[2] <= most
  BY <1>1, <1>2, Zenon
<1>4. Within(w, most)
  BY <1>1, <1>2, Zenon DEF Within
<1> QED
  BY <1>3, <1>4

\* Once a bucket is over or gone, only its own admissions are recent.
LEMMA EndedBurst ==
  ASSUME LimiterInv, NEW w \in Windows, NEW most \in Limits, Within(w, most), NEW c \in Clients,
         bucket[c] = None \/ bucket[c].age >= w, NEW v \in 0 .. w
  PROVE  recent[c][v] <= most
<1>1. /\ bucket[c] = None => recent[c][v] <= most
      /\ bucket[c] # None => /\ bucket[c].count <= most
                             /\ v <= bucket[c].age => recent[c][v] <= bucket[c].count
  BY DEF LimiterInv, BurstBacked
<1>2. /\ w \in Nat /\ most \in Nat /\ v \in Nat /\ recent[c][v] \in Nat
      /\ bucket[c] # None => bucket[c].age \in Nat /\ bucket[c].count \in Nat
  BY BurstTypes DEF LimiterInv
<1> QED
  BY <1>1, <1>2

\* Counting a request of one client leaves the bound for the others.
LEMMA OthersBurst ==
  ASSUME LimiterInv, NEW c \in Clients, NEW b \in Buckets, NEW a \in Nat, Counted(c, b, a),
         NEW w \in Windows, NEW most \in Limits, Within(w, most), w <= a,
         NEW d \in Clients \ {c}, NEW v \in 0 .. w
  PROVE  /\ bucket'[d] = None => recent[d][v] <= most
         /\ bucket'[d] # None => /\ bucket'[d].count <= most
                                 /\ recent[d][v] <= bucket'[d].count + most
                                 /\ v <= bucket'[d].age => recent[d][v] <= bucket'[d].count
<1>1. bucket'[d] = IF Retained(bucket[d], a) THEN bucket[d] ELSE None
  BY CountedType DEF LimiterInv
<1>2. /\ w \in Nat /\ w > 0
      /\ bucket[d] # None => bucket[d].age \in Nat
  BY BurstTypes DEF LimiterInv
<1>3. CASE Retained(bucket[d], a)
  BY <1>1, <1>3 DEF Retained, LimiterInv, BurstBacked
<1>4. CASE ~Retained(bucket[d], a)
  <2>1. bucket'[d] = None
    BY <1>1, <1>4
  <2>2. bucket[d] = None \/ bucket[d].age >= w
    BY <1>2, <1>4 DEF Retained
  <2>3. recent[d][v] <= most
    BY <2>2, EndedBurst
  <2> QED
    BY <2>1, <2>3
<1> QED
  BY <1>3, <1>4

LEMMA AdmitBurst ==
  ASSUME LimiterInv, NEW q \in Requests, Admit(q)
  PROVE  BurstBacked'
<1> DEFINE c == request[q].client
           a == request[q].by.window
           m == request[q].by.most
           b == Current(bucket[c], a)
           n == [b EXCEPT !.count = @ + 1]
<1>0. c \in Clients /\ a \in Nat /\ a > 0 /\ m \in Nat /\ m > 0
  BY RequestType DEF LimiterInv, Admit
<1>1. /\ b.count < m /\ Counted(c, n, a)
      /\ judged' = judged \cup {<<a, m>>}
      /\ recent' = [recent EXCEPT ![c] = [v \in 0 .. Span |->
                                             IF v = 0 THEN 0 ELSE recent[c][v] + 1]]
  BY DEF Admit
<1>2. bucket[c] \in Buckets \cup {None}
  BY <1>0 DEF LimiterInv, LimiterTypeOK
<1>3. /\ b \in Buckets /\ b.count \in Nat /\ b.age \in Nat
      /\ n \in Buckets /\ n.count = b.count + 1 /\ n.age = b.age
  <2>1. b \in Buckets
    BY <1>0, <1>2, CurrentBucket
  <2> QED
    BY <2>1, SpanLongest DEF Buckets
<1>4. \/ bucket[c] # None /\ b = bucket[c]
      \/ (bucket[c] = None \/ bucket[c].age >= a) /\ b = [age |-> 0, count |-> 0]
  <2>1. bucket[c] # None => bucket[c].age \in Nat
    BY <1>2, SpanLongest DEF Buckets
  <2>2. CASE Retained(bucket[c], a) /\ ~Over(bucket[c], a)
    <3>1. b = bucket[c]
      BY <2>2 DEF Current
    <3> QED
      BY <2>2, <3>1 DEF Retained
  <2>3. CASE ~(Retained(bucket[c], a) /\ ~Over(bucket[c], a))
    <3>1. b = [age |-> 0, count |-> 0]
      BY <2>3 DEF Current
    <3>2. bucket[c] = None \/ bucket[c].age >= a
      BY <1>0, <2>1, <2>3 DEF Retained, Over
    <3> QED
      BY <3>1, <3>2
  <2> QED
    BY <2>2, <2>3
<1>5. n # None
  <2>1. None \notin [age : Nat, count : Nat]
    BY LimiterAssumption
  <2>2. Buckets \subseteq [age : Nat, count : Nat]
    BY SpanLongest DEF Buckets
  <2> QED
    BY <1>3, <2>1, <2>2
<1> HIDE DEF b, n
<1> SUFFICES ASSUME NEW w \in Windows, NEW most \in Limits, Within(w, most)',
                    NEW d \in Clients, NEW v \in 0 .. w
             PROVE  /\ bucket'[d] = None => recent'[d][v] <= most
                    /\ bucket'[d] # None => /\ bucket'[d].count <= most
                                            /\ recent'[d][v] <= bucket'[d].count + most
                                            /\ v <= bucket'[d].age => recent'[d][v] <= bucket'[d].count
  BY DEF BurstBacked
<1>6. Within(w, most) /\ w <= a /\ m <= most
  BY <1>1, WithinBefore
<1>7. /\ w \in Nat /\ w > 0 /\ w <= Span /\ Span \in Nat /\ most \in Nat /\ v \in Nat
      /\ recent[d][v] \in Nat
      /\ bucket[d] # None => bucket[d].age \in Nat /\ bucket[d].count \in Nat
  BY BurstTypes DEF LimiterInv
<1>8. CASE d # c
  <2>1. recent'[d] = recent[d]
    BY <1>1, <1>8 DEF LimiterInv, LimiterTypeOK
  <2> QED
    BY <1>0, <1>1, <1>3, <1>6, <1>8, <2>1, OthersBurst
<1>9. CASE d = c
  <2>1. recent'[c][v] = IF v = 0 THEN 0 ELSE recent[c][v] + 1
    <3>1. v \in 0 .. Span
      BY <1>7
    <3> QED
      BY <1>0, <1>1, <3>1 DEF LimiterInv, LimiterTypeOK
  <2>2. bucket'[c] = n
    BY <1>0, <1>1, <1>3, CountedType DEF LimiterInv
  <2>3. CASE bucket[c] # None /\ b = bucket[c]
    <3>1. /\ bucket[c].count <= most
          /\ recent[c][v] <= bucket[c].count + most
          /\ v <= bucket[c].age => recent[c][v] <= bucket[c].count
      BY <1>0, <1>6, <1>9, <2>3 DEF LimiterInv, BurstBacked
    <3>2. bucket'[c].count = bucket[c].count + 1 /\ bucket'[c].age = bucket[c].age
      BY <1>3, <2>2, <2>3
    <3>3. /\ bucket[c].age \in Nat /\ bucket[c].count \in Nat
          /\ bucket[c].count < m /\ recent[c][v] \in Nat
      BY <1>1, <1>7, <1>9, <2>3
    <3>4. /\ bucket'[c].count <= most
          /\ recent'[c][v] <= bucket'[c].count + most
          /\ v <= bucket'[c].age => recent'[c][v] <= bucket'[c].count
      BY <1>0, <1>6, <1>7, <2>1, <3>1, <3>2, <3>3
    <3>5. bucket'[c] # None
      BY <1>5, <2>2
    <3> QED
      BY <1>9, <3>4, <3>5
  <2>4. CASE (bucket[c] = None \/ bucket[c].age >= a) /\ b = [age |-> 0, count |-> 0]
    <3>1. bucket[c] = None \/ bucket[c].age >= w
      BY <1>0, <1>6, <1>7, <1>9, <2>4
    <3>2. recent[c][v] <= most
      BY <1>0, <1>6, <3>1, EndedBurst
    <3>3. b.age = 0 /\ b.count = 0
      BY <2>4
    <3> QED
      BY <1>0, <1>1, <1>3, <1>5, <1>6, <1>7, <1>9, <2>1, <2>2, <3>2, <3>3
  <2> QED
    BY <1>4, <2>3, <2>4
<1> QED
  BY <1>8, <1>9

\* A request is denied only by a bucket that is there, which stays.
LEMMA DenyBurst ==
  ASSUME LimiterInv, NEW q \in Requests, Deny(q)
  PROVE  BurstBacked'
<1> DEFINE c == request[q].client
           a == request[q].by.window
           m == request[q].by.most
           b == Current(bucket[c], a)
<1>0. c \in Clients /\ a \in Nat /\ a > 0 /\ m \in Nat /\ m > 0
  BY RequestType DEF LimiterInv, Deny
<1>1. /\ b.count >= m /\ Counted(c, b, a)
      /\ judged' = judged \cup {<<a, m>>} /\ recent' = recent
  BY DEF Deny
<1>2. bucket[c] \in Buckets \cup {None}
  BY <1>0 DEF LimiterInv, LimiterTypeOK
<1>3. b \in Buckets /\ bucket[c] # None /\ b = bucket[c]
  <2>1. b \in Buckets /\ (b.count # 0 => bucket[c] # None /\ b = bucket[c])
    BY <1>0, <1>2, CurrentBucket
  <2>2. b.count # 0
    BY <1>0, <1>1
  <2> QED
    BY <2>1, <2>2
<1> HIDE DEF b
<1>4. bucket'[c] = bucket[c]
  BY <1>0, <1>1, <1>3, CountedType DEF LimiterInv
<1> SUFFICES ASSUME NEW w \in Windows, NEW most \in Limits, Within(w, most)',
                    NEW d \in Clients, NEW v \in 0 .. w
             PROVE  /\ bucket'[d] = None => recent[d][v] <= most
                    /\ bucket'[d] # None => /\ bucket'[d].count <= most
                                            /\ recent[d][v] <= bucket'[d].count + most
                                            /\ v <= bucket'[d].age => recent[d][v] <= bucket'[d].count
  BY <1>1 DEF BurstBacked
<1>5. Within(w, most) /\ w <= a
  BY <1>1, WithinBefore
<1>6. CASE d # c
  BY <1>0, <1>1, <1>3, <1>5, <1>6, OthersBurst
<1>7. CASE d = c
  BY <1>4, <1>5, <1>7 DEF LimiterInv, BurstBacked
<1> QED
  BY <1>6, <1>7

\* As time passes a bucket grows older with what it counted.
LEMMA TickBurst ==
  ASSUME LimiterInv, Tick
  PROVE  BurstBacked'
<1>1. /\ bucket' = [c \in Clients |-> IF bucket[c] = None THEN None
                                      ELSE [bucket[c] EXCEPT !.age = Older(@)]]
      /\ recent' = [c \in Clients |-> [v \in 0 .. Span |->
                        IF v = 0 THEN 0 ELSE recent[c][v - 1]]]
      /\ judged' = judged
  BY DEF Tick
<1> SUFFICES ASSUME NEW w \in Windows, NEW most \in Limits, Within(w, most),
                    NEW c \in Clients, NEW v \in 0 .. w
             PROVE  /\ bucket'[c] = None => recent'[c][v] <= most
                    /\ bucket'[c] # None => /\ bucket'[c].count <= most
                                            /\ recent'[c][v] <= bucket'[c].count + most
                                            /\ v <= bucket'[c].age => recent'[c][v] <= bucket'[c].count
  BY <1>1 DEF BurstBacked, Within
<1>2. /\ w \in Nat /\ w <= Span /\ Span \in Nat /\ most \in Nat /\ v \in Nat
      /\ \A u \in 0 .. w : recent[c][u] \in Nat
      /\ bucket[c] # None => /\ bucket[c] \in Buckets
                             /\ bucket[c].age \in Nat /\ bucket[c].count \in Nat
  BY BurstTypes DEF LimiterInv
<1>3. recent'[c][v] = IF v = 0 THEN 0 ELSE recent[c][v - 1]
  <2>1. v \in 0 .. Span
    BY <1>2
  <2> QED
    BY <1>1, <2>1
<1>4. \A u \in 0 .. w :
         /\ bucket[c] = None => recent[c][u] <= most
         /\ bucket[c] # None => /\ bucket[c].count <= most
                                /\ recent[c][u] <= bucket[c].count + most
                                /\ u <= bucket[c].age => recent[c][u] <= bucket[c].count
  BY DEF LimiterInv, BurstBacked
<1>5. v # 0 => v - 1 \in 0 .. w
  BY <1>2
<1>6. CASE bucket[c] = None
  <2>1. bucket'[c] = None
    BY <1>1, <1>6
  <2> QED
    BY <1>2, <1>3, <1>4, <1>5, <1>6, <2>1
<1>7. CASE bucket[c] # None
  <2>1. bucket'[c] = [bucket[c] EXCEPT !.age = Older(@)]
    BY <1>1, <1>7
  <2>2. bucket'[c].count = bucket[c].count /\ bucket'[c].age = Older(bucket[c].age)
    BY <1>2, <1>7, <2>1 DEF Buckets
  <2>3. v <= Older(bucket[c].age) /\ v # 0 => v - 1 <= bucket[c].age
    BY <1>2, <1>7 DEF Older
  <2>4. bucket'[c] # None => /\ bucket'[c].count <= most
                             /\ recent'[c][v] <= bucket'[c].count + most
                             /\ v <= bucket'[c].age => recent'[c][v] <= bucket'[c].count
    <3>1. CASE v = 0
      BY <1>2, <1>3, <1>4, <1>7, <2>2, <3>1
    <3>2. CASE v # 0
      BY <1>2, <1>3, <1>4, <1>5, <1>7, <2>2, <2>3, <3>2
    <3> QED
      BY <3>1, <3>2
  <2>5. bucket'[c] # None
    <3>1. None \notin [age : Nat, count : Nat]
      BY LimiterAssumption
    <3>2. Older(bucket[c].age) \in Nat
      BY <1>2, <1>7 DEF Older
    <3>3. bucket'[c] \in [age : Nat, count : Nat]
      BY <1>2, <1>7, <2>1, <3>2 DEF Buckets
    <3> QED
      BY <3>1, <3>3
  <2> QED
    BY <2>4, <2>5
<1> QED
  BY <1>6, <1>7

LEMMA InitLimiter == LimiterInit => LimiterInv
<1> SUFFICES ASSUME LimiterInit PROVE LimiterInv
  OBVIOUS
<1>1. LimiterTypeOK
  BY DEF LimiterInit, LimiterTypeOK
<1>2. IsFiniteSet(judged)
  BY FS_EmptySet DEF LimiterInit
<1>3. BurstBacked
  <2> SUFFICES ASSUME NEW w \in Windows, NEW most \in Limits, NEW c \in Clients, NEW v \in 0 .. w
               PROVE  bucket[c] = None /\ recent[c][v] <= most
    BY DEF BurstBacked
  <2>1. v \in 0 .. Span /\ most \in Nat
    BY <1>1, BurstTypes
  <2> QED
    BY <2>1 DEF LimiterInit
<1> QED
  BY <1>1, <1>2, <1>3 DEF LimiterInit, LimiterInv, PromiseBacked

LEMMA ClearedInv ==
  ASSUME LimiterInv, Cleared, settings' \in Settings,
         request' \in [Requests -> [client : Clients, by : Settings] \cup {None}],
         uncleared' \in BOOLEAN
  PROVE  LimiterInv'
<1>1. LimiterTypeOK'
  BY DEF LimiterTypeOK, Cleared
<1>2. IsFiniteSet(judged')
  BY FS_EmptySet DEF Cleared
<1>3. BurstBacked'
  <2> SUFFICES ASSUME NEW w \in Windows, NEW most \in Limits, NEW c \in Clients, NEW v \in 0 .. w
               PROVE  bucket'[c] = None /\ recent'[c][v] <= most
    BY DEF BurstBacked
  <2>1. v \in 0 .. Span /\ most \in Nat
    BY BurstTypes DEF LimiterInv
  <2> QED
    BY <2>1 DEF Cleared
<1> QED
  BY <1>1, <1>2, <1>3 DEF Cleared, LimiterInv, PromiseBacked

\* A client whose wait is not over keeps its bucket when others are counted.
LEMMA OthersKeep ==
  ASSUME LimiterInv, NEW c \in Clients, NEW b \in Buckets, NEW w \in Nat, NEW m \in Nat, w > 0,
         Counted(c, b, w), NEW j \in judged, judged = {j}, j = <<w, m>>,
         NEW d \in Clients \ {c}, promised[d] # None
  PROVE  /\ promised[d] > 0 => /\ bucket'[d] # None
                               /\ bucket'[d].age + promised[d] = w
                               /\ bucket'[d].count >= m
         /\ promised[d] = 0 /\ ~served[d] => bucket'[d] = None \/ bucket'[d].age >= w
<1>1. bucket'[d] = IF Retained(bucket[d], w) THEN bucket[d] ELSE None
  BY CountedType DEF LimiterInv
<1>2. /\ promised[d] > 0 => /\ bucket[d] # None
                            /\ bucket[d].age + promised[d] = w
                            /\ bucket[d].count >= m
      /\ promised[d] = 0 /\ ~served[d] => bucket[d] = None \/ bucket[d].age >= w
  BY DEF LimiterInv, PromiseBacked
<1>3. promised[d] \in Nat /\ (bucket[d] # None => bucket[d].age \in Nat)
  BY SpanLongest DEF LimiterInv, LimiterTypeOK, Buckets
<1>4. promised[d] > 0 => Retained(bucket[d], w)
  BY <1>2, <1>3 DEF Retained
<1> QED
  BY <1>1, <1>2, <1>4

\* Only one pair of window and limit so far, and now.
LEMMA SamePair ==
  ASSUME NEW p, judged' = judged \cup {p}, NEW j \in judged', judged' = {j}
  PROVE  j = p /\ (judged # {} => j \in judged /\ judged = {j})
OBVIOUS

LEMMA AdmitInv ==
  ASSUME LimiterInv, NEW q \in Requests, Admit(q)
  PROVE  LimiterInv'
<1> DEFINE c == request[q].client
           w == request[q].by.window
           m == request[q].by.most
           b == Current(bucket[c], w)
           n == [b EXCEPT !.count = @ + 1]
<1>0. /\ c \in Clients /\ w \in Windows /\ m \in Limits /\ w \in Nat /\ w > 0 /\ w <= Span
      /\ m \in Nat /\ m > 0
  BY RequestType DEF LimiterInv, Admit
<1>1. /\ b.count < m /\ Counted(c, n, w)
      /\ judged' = judged \cup {<<w, m>>}
      /\ recent' = [recent EXCEPT ![c] = [v \in 0 .. Span |->
                                        IF v = 0 THEN 0 ELSE recent[c][v] + 1]]
      /\ served' = [served EXCEPT ![c] = @ \/ promised[c] = 0]
      /\ request' = [request EXCEPT ![q] = None]
      /\ UNCHANGED <<settings, uncleared, promised>>
  BY DEF Admit
<1>2. bucket[c] \in Buckets \cup {None}
  BY <1>0 DEF LimiterInv, LimiterTypeOK
<1>3. b \in Buckets /\ b.count \in Nat /\ n \in Buckets
  <2>1. b \in Buckets
    BY <1>0, <1>2, CurrentBucket
  <2> QED
    BY <2>1 DEF Buckets
<1> HIDE DEF b, n
<1>4. LimiterTypeOK'
  <2>1. bucket' \in [Clients -> Buckets \cup {None}]
    BY <1>0, <1>1, <1>3, CountedType DEF LimiterInv
  <2>2. recent' \in [Clients -> [0 .. Span -> Nat]]
    <3> DEFINE f == [v \in 0 .. Span |-> IF v = 0 THEN 0 ELSE recent[c][v] + 1]
    <3>1. \A v \in 0 .. Span : recent[c][v] \in Nat
      BY <1>0 DEF LimiterInv, LimiterTypeOK
    <3>2. f \in [0 .. Span -> Nat]
      BY <3>1
    <3>3. recent' = [recent EXCEPT ![c] = f]
      BY <1>1
    <3> HIDE DEF f
    <3> QED
      BY <3>2, <3>3 DEF LimiterInv, LimiterTypeOK
  <2>3. served' \in [Clients -> BOOLEAN]
    BY <1>1 DEF LimiterInv, LimiterTypeOK
  <2>4. judged' \subseteq Windows \X Limits
    BY <1>0, <1>1 DEF LimiterInv, LimiterTypeOK
  <2>5. request' \in [Requests -> [client : Clients, by : Settings] \cup {None}]
    BY <1>1 DEF LimiterInv, LimiterTypeOK
  <2> QED
    BY <1>1, <2>1, <2>2, <2>3, <2>4, <2>5 DEF LimiterInv, LimiterTypeOK
<1>5. IsFiniteSet(judged')
  BY <1>1, FS_AddElement DEF LimiterInv
<1>6. PromiseBacked'
  <2> SUFFICES ASSUME NEW j \in judged', judged' = {j}, NEW d \in Clients, promised[d] # None
               PROVE  /\ promised[d] > 0 => /\ bucket'[d] # None
                                            /\ bucket'[d].age + promised[d] = j[1]
                                            /\ bucket'[d].count >= j[2]
                      /\ promised[d] = 0 /\ ~served'[d] => bucket'[d] = None \/ bucket'[d].age >= j[1]
    BY <1>1 DEF PromiseBacked
  <2>1. j = <<w, m>> /\ j \in judged /\ judged = {j}
    BY <1>1, SamePair DEF LimiterInv
  <2>2. CASE d = c
    <3>1. ~(promised[c] > 0)
      <4> SUFFICES ASSUME promised[c] > 0 PROVE FALSE
        OBVIOUS
      <4>1. bucket[c] # None /\ bucket[c].age + promised[c] = w /\ bucket[c].count >= m
        BY <1>0, <2>1, <2>2 DEF LimiterInv, PromiseBacked
      <4>2. bucket[c].age \in Nat /\ bucket[c].count \in Nat /\ promised[c] \in Nat
        BY <1>2, <2>2, <4>1, SpanLongest DEF Buckets, LimiterInv, LimiterTypeOK
      <4>3. bucket[c].age < w
        BY <1>0, <4>1, <4>2
      <4>4. b = bucket[c]
        BY <1>0, <1>2, <4>1, <4>3, CurrentBucket DEF b
      <4> QED
        BY <1>0, <1>1, <4>1, <4>2, <4>4
    <3>2. promised[c] = 0
      BY <2>2, <3>1, SpanLongest DEF LimiterInv, LimiterTypeOK
    <3>3. served'[c]
      BY <1>0, <1>1, <3>2 DEF LimiterInv, LimiterTypeOK
    <3> QED
      BY <2>2, <3>1, <3>3
  <2>3. CASE d # c
    <3>1. served'[d] = served[d]
      BY <1>0, <1>1, <2>3 DEF LimiterInv, LimiterTypeOK
    <3> QED
      BY <1>0, <1>1, <1>3, <2>1, <2>3, <3>1, OthersKeep
  <2> QED
    BY <2>2, <2>3
<1>7. \A d \in Clients : promised'[d] # None => judged' # {}
  BY <1>1 DEF LimiterInv
<1> QED
  BY <1>4, <1>5, <1>6, <1>7, AdmitBurst DEF LimiterInv

LEMMA DenyInv ==
  ASSUME LimiterInv, NEW q \in Requests, Deny(q)
  PROVE  LimiterInv'
<1> DEFINE c == request[q].client
           w == request[q].by.window
           m == request[q].by.most
           b == Current(bucket[c], w)
<1>0. /\ c \in Clients /\ w \in Windows /\ m \in Limits /\ w \in Nat /\ w > 0 /\ w <= Span
      /\ m \in Nat /\ m > 0
  BY RequestType DEF LimiterInv, Deny
<1>1. /\ b.count >= m /\ Counted(c, b, w)
      /\ judged' = judged \cup {<<w, m>>}
      /\ promised' = [promised EXCEPT ![c] = RetryAfter(b, w)]
      /\ served' = [served EXCEPT ![c] = FALSE]
      /\ request' = [request EXCEPT ![q] = None]
      /\ UNCHANGED <<settings, uncleared, recent>>
  BY DEF Deny
<1>2. bucket[c] \in Buckets \cup {None}
  BY <1>0 DEF LimiterInv, LimiterTypeOK
<1>3. /\ b \in Buckets /\ b.count \in Nat /\ b.age \in Nat /\ b.age < w /\ b # None
      /\ RetryAfter(b, w) = w - b.age
  <2>1. b \in Buckets /\ b.age < w
    BY <1>0, <1>2, CurrentBucket
  <2>2. b.age \in Nat /\ b.count \in Nat
    BY <2>1, SpanLongest DEF Buckets
  <2>3. b # None
    <3>1. None \notin [age : Nat, count : Nat]
      BY LimiterAssumption
    <3>2. Buckets \subseteq [age : Nat, count : Nat]
      BY SpanLongest DEF Buckets
    <3> QED
      BY <2>1, <3>1, <3>2
  <2>4. w - b.age \in Int /\ 1 \in Int /\ w - b.age >= 1
    BY <1>0, <2>1, <2>2
  <2>5. RetryAfter(b, w) = w - b.age
    BY <2>4, MaxOfTwo DEF RetryAfter
  <2> QED
    BY <2>1, <2>2, <2>3, <2>5
<1> HIDE DEF b
<1>4. LimiterTypeOK'
  <2>1. bucket' \in [Clients -> Buckets \cup {None}]
    BY <1>0, <1>1, <1>3, CountedType DEF LimiterInv
  <2>2. promised' \in [Clients -> (0 .. Span) \cup {None}]
    <3>1. w - b.age \in 0 .. Span
      BY <1>0, <1>3, SpanLongest
    <3> QED
      BY <1>1, <1>3, <3>1 DEF LimiterInv, LimiterTypeOK
  <2>3. served' \in [Clients -> BOOLEAN]
    BY <1>1 DEF LimiterInv, LimiterTypeOK
  <2>4. judged' \subseteq Windows \X Limits
    BY <1>0, <1>1 DEF LimiterInv, LimiterTypeOK
  <2>5. request' \in [Requests -> [client : Clients, by : Settings] \cup {None}]
    BY <1>1 DEF LimiterInv, LimiterTypeOK
  <2> QED
    BY <1>1, <2>1, <2>2, <2>3, <2>4, <2>5 DEF LimiterInv, LimiterTypeOK
<1>5. IsFiniteSet(judged')
  BY <1>1, FS_AddElement DEF LimiterInv
<1>6. PromiseBacked'
  <2> SUFFICES ASSUME NEW j \in judged', judged' = {j}, NEW d \in Clients, promised'[d] # None
               PROVE  /\ promised'[d] > 0 => /\ bucket'[d] # None
                                             /\ bucket'[d].age + promised'[d] = j[1]
                                             /\ bucket'[d].count >= j[2]
                      /\ promised'[d] = 0 /\ ~served'[d] => bucket'[d] = None \/ bucket'[d].age >= j[1]
    BY DEF PromiseBacked
  <2>1. j = <<w, m>>
    BY <1>1, SamePair
  <2>2. CASE d = c
    <3>1. promised'[c] = w - b.age
      BY <1>0, <1>1, <1>3 DEF LimiterInv, LimiterTypeOK
    <3>2. bucket'[c] = b
      BY <1>0, <1>1, <1>3, CountedType DEF LimiterInv
    <3> QED
      BY <1>0, <1>1, <1>3, <2>1, <2>2, <3>1, <3>2
  <2>3. CASE d # c
    <3>1. served'[d] = served[d] /\ promised'[d] = promised[d]
      BY <1>0, <1>1, <2>3 DEF LimiterInv, LimiterTypeOK
    <3>2. j \in judged /\ judged = {j}
      BY <1>1, <3>1, SamePair DEF LimiterInv
    <3> QED
      BY <1>0, <1>1, <1>3, <2>1, <2>3, <3>1, <3>2, OthersKeep
  <2> QED
    BY <2>2, <2>3
<1>7. \A d \in Clients : promised'[d] # None => judged' # {}
  BY <1>1
<1> QED
  BY <1>4, <1>5, <1>6, <1>7, DenyBurst DEF LimiterInv

LEMMA TickInv ==
  ASSUME LimiterInv, Tick
  PROVE  LimiterInv'
<1>1. /\ bucket' = [c \in Clients |-> IF bucket[c] = None THEN None
                                      ELSE [bucket[c] EXCEPT !.age = Older(@)]]
      /\ recent' = [c \in Clients |-> [v \in 0 .. Span |->
                        IF v = 0 THEN 0 ELSE recent[c][v - 1]]]
      /\ promised' = [c \in Clients |-> IF promised[c] \in {None, 0} THEN promised[c]
                                        ELSE promised[c] - 1]
      /\ UNCHANGED <<settings, request, uncleared, judged, served>>
  BY DEF Tick
<1>2. ASSUME NEW c \in Clients, bucket[c] # None
      PROVE  /\ bucket'[c] \in Buckets /\ bucket'[c] # None
             /\ bucket[c].age \in 0 .. 2 * Span
             /\ bucket'[c].age = Older(bucket[c].age)
             /\ bucket'[c].count = bucket[c].count
  <2>1. bucket[c] \in Buckets /\ bucket[c].age \in 0 .. 2 * Span /\ bucket[c].count \in Nat
    BY <1>2 DEF LimiterInv, LimiterTypeOK, Buckets
  <2>2. Older(bucket[c].age) \in 0 .. 2 * Span
    BY <2>1, SpanLongest DEF Older
  <2>3. bucket'[c] = [bucket[c] EXCEPT !.age = Older(@)]
    BY <1>1, <1>2
  <2>4. /\ bucket'[c] \in Buckets /\ bucket'[c].age = Older(bucket[c].age)
        /\ bucket'[c].count = bucket[c].count
    BY <2>1, <2>2, <2>3 DEF Buckets
  <2>5. bucket'[c] # None
    <3>1. None \notin [age : Nat, count : Nat]
      BY LimiterAssumption
    <3>2. Buckets \subseteq [age : Nat, count : Nat]
      BY SpanLongest DEF Buckets
    <3> QED
      BY <2>4, <3>1, <3>2
  <2> QED
    BY <2>1, <2>4, <2>5
<1>3. LimiterTypeOK'
  <2>1. bucket' \in [Clients -> Buckets \cup {None}]
    BY <1>1, <1>2
  <2>2. recent' \in [Clients -> [0 .. Span -> Nat]]
    <3>1. ASSUME NEW c \in Clients, NEW v \in 0 .. Span, v # 0
          PROVE  recent[c][v - 1] \in Nat
      <4>1. v - 1 \in 0 .. Span
        BY <3>1, SpanLongest
      <4> QED
        BY <4>1 DEF LimiterInv, LimiterTypeOK
    <3> QED
      BY <1>1, <3>1
  <2>3. promised' \in [Clients -> (0 .. Span) \cup {None}]
    <3>1. ASSUME NEW c \in Clients, promised[c] \notin {None, 0}
          PROVE  promised[c] - 1 \in 0 .. Span
      BY <3>1, SpanLongest DEF LimiterInv, LimiterTypeOK
    <3> QED
      BY <1>1, <3>1 DEF LimiterInv, LimiterTypeOK
  <2> QED
    BY <1>1, <2>1, <2>2, <2>3 DEF LimiterInv, LimiterTypeOK
<1>4. \A d \in Clients : promised'[d] # None => promised[d] # None
  BY <1>1
<1>5. PromiseBacked'
  <2> SUFFICES ASSUME NEW j \in judged, judged = {j}, NEW d \in Clients, promised'[d] # None
               PROVE  /\ promised'[d] > 0 => /\ bucket'[d] # None
                                             /\ bucket'[d].age + promised'[d] = j[1]
                                             /\ bucket'[d].count >= j[2]
                      /\ promised'[d] = 0 /\ ~served[d] => bucket'[d] = None \/ bucket'[d].age >= j[1]
    BY <1>1 DEF PromiseBacked
  <2>0. j[1] \in Nat /\ j[1] <= Span /\ j[2] \in Nat /\ promised[d] \in 0 .. Span /\ Span \in Nat
    BY <1>4, LimiterAssumption, SpanLongest DEF LimiterInv, LimiterTypeOK
  <2>1. CASE promised[d] > 0
    <3>1. bucket[d] # None /\ bucket[d].age + promised[d] = j[1] /\ bucket[d].count >= j[2]
      BY <1>4, <2>1 DEF LimiterInv, PromiseBacked
    <3>2. promised'[d] = promised[d] - 1
      BY <1>1, <1>4, <2>1
    <3>3. bucket[d].age \in Nat /\ bucket[d].age # 2 * Span
      BY <1>2, <2>0, <2>1, <3>1
    <3>4. bucket'[d].age = bucket[d].age + 1
      BY <1>2, <3>1, <3>3 DEF Older
    <3> QED
      BY <1>2, <2>0, <2>1, <3>1, <3>2, <3>3, <3>4
  <2>2. CASE promised[d] = 0
    <3>1. promised'[d] = 0
      BY <1>1, <2>2
    <3>2. CASE served[d]
      BY <3>1, <3>2
    <3>3. CASE bucket[d] = None
      BY <1>1, <3>1, <3>3
    <3>4. CASE bucket[d] # None /\ bucket[d].age >= j[1]
      <4>1. bucket[d].age \in 0 .. 2 * Span /\ bucket'[d].age = Older(bucket[d].age)
        BY <1>2, <3>4
      <4>2. Older(bucket[d].age) >= j[1]
        BY <2>0, <3>4, <4>1 DEF Older
      <4> QED
        BY <3>1, <4>1, <4>2
    <3> QED
      BY <1>4, <2>2, <3>2, <3>3, <3>4 DEF LimiterInv, PromiseBacked
  <2> QED
    BY <2>0, <2>1, <2>2
<1> QED
  BY <1>1, <1>3, <1>4, <1>5, TickBurst DEF LimiterInv

LEMMA LimiterStep == LimiterInv /\ [LimiterNext]_lvars => LimiterInv'
<1> SUFFICES ASSUME LimiterInv, [LimiterNext]_lvars PROVE LimiterInv'
  OBVIOUS
<1>0. ASSUME UNCHANGED <<bucket, judged, recent, promised, served>>,
             settings' \in Settings, uncleared' \in BOOLEAN,
             request' \in [Requests -> [client : Clients, by : Settings] \cup {None}]
      PROVE  LimiterInv'
  BY <1>0 DEF LimiterInv, LimiterTypeOK, PromiseBacked, BurstBacked, Within
<1>1. ASSUME NEW q \in Requests, NEW c \in Clients, Arrive(q, c) PROVE LimiterInv'
  <2>1. [client |-> c, by |-> settings] \in [client : Clients, by : Settings]
    BY DEF LimiterInv, LimiterTypeOK
  <2> QED
    BY <1>0, <1>1, <2>1 DEF Arrive, LimiterInv, LimiterTypeOK
<1>2. ASSUME NEW q \in Requests, Pass(q) PROVE LimiterInv'
  BY <1>0, <1>2 DEF Pass, LimiterInv, LimiterTypeOK
<1>3. CASE Save
  BY <1>0, <1>3 DEF Save, LimiterInv, LimiterTypeOK
<1>4. CASE Clear
  BY <1>4, ClearedInv DEF Clear, LimiterInv, LimiterTypeOK
<1>5. CASE Restart
  BY <1>5, ClearedInv DEF Restart, LimiterInv, LimiterTypeOK
<1>6. CASE UNCHANGED lvars
  BY <1>0, <1>6 DEF lvars, LimiterInv, LimiterTypeOK
<1> QED
  BY <1>1, <1>2, <1>3, <1>4, <1>5, <1>6, AdmitInv, DenyInv, TickInv DEF LimiterNext

LEMMA LimiterInvariant == LimiterSpec => []LimiterInv
BY InitLimiter, LimiterStep, PTL DEF LimiterSpec

\* Buckets, requests and waits have values of their kind; no client is told to
\* wait longer than the longest window.
THEOREM LimiterTypeCorrect == LimiterSpec => []LimiterTypeOK
<1>1. LimiterInv => LimiterTypeOK
  BY DEF LimiterInv
<1> QED
  BY <1>1, LimiterInvariant, PTL

LEMMA PromiseStep ==
  ASSUME LimiterInv, [LimiterNext]_lvars, NEW c \in Clients,
         promised[c] = 0, ~served[c], Cardinality(judged') = 1
  PROVE  promised'[c] \in {None, 0}
<1>1. ASSUME NEW q \in Requests, Deny(q) PROVE promised'[c] \in {None, 0}
  <2> DEFINE d == request[q].client
             w == request[q].by.window
             m == request[q].by.most
             b == Current(bucket[d], w)
  <2>0. d \in Clients /\ w \in Nat /\ w > 0 /\ m \in Nat /\ m > 0
    BY <1>1, RequestType DEF LimiterInv, Deny
  <2>1. /\ b.count >= m
        /\ judged' = judged \cup {<<w, m>>}
        /\ promised' = [promised EXCEPT ![d] = RetryAfter(b, w)]
    BY <1>1 DEF Deny
  <2>2. CASE d # c
    BY <2>0, <2>1, <2>2 DEF LimiterInv, LimiterTypeOK
  <2>3. CASE d = c
    <3>1. IsFiniteSet(judged')
      BY <2>1, FS_AddElement DEF LimiterInv
    <3>2. PICK j : judged' = {j}
      BY <3>1, FS_Singleton
    <3>3. 0 # None
      BY LimiterAssumption
    <3>4. judged # {}
      BY <3>3 DEF LimiterInv
    <3>5. j = <<w, m>> /\ j \in judged /\ judged = {j}
      BY <2>1, <3>2, <3>4
    <3>6. bucket[c] = None \/ bucket[c].age >= w
      BY <3>3, <3>5 DEF LimiterInv, PromiseBacked
    <3>7. bucket[c] \in Buckets \cup {None}
      BY DEF LimiterInv, LimiterTypeOK
    <3>8. b.count = 0
      BY <2>0, <2>3, <3>6, <3>7, CurrentBucket
    <3> QED
      BY <2>0, <2>1, <3>8
  <2> QED
    BY <2>2, <2>3
<1>2. CASE UNCHANGED promised
  BY <1>2
<1>3. CASE Cleared
  BY <1>3 DEF Cleared
<1>4. CASE Tick
  BY <1>4 DEF Tick
<1> QED
  BY <1>1, <1>2, <1>3, <1>4 DEF LimiterNext, lvars, Arrive, Pass, Admit, Save, Clear, Restart

\* A client that waits as long as it was told is let in.
THEOREM PromisesHold == LimiterSpec => PromiseKept
<1>1. LimiterInv /\ [LimiterNext]_lvars =>
        [\A c \in Clients :
          /\ promised[c] = 0 /\ ~served[c]
          /\ Cardinality(judged') = 1
          => promised'[c] \in {None, 0}]_lvars
  BY PromiseStep
<1> QED
  BY <1>1, LimiterInvariant, PTL DEF LimiterSpec, PromiseKept

\* A client gets at most twice the limit within a window.
THEOREM BurstsBounded == LimiterSpec => []BurstBounded
<1>1. LimiterInv => BurstBounded
  <2> SUFFICES ASSUME LimiterInv, NEW w \in Windows, NEW most \in Limits, Within(w, most),
                      NEW c \in Clients
               PROVE  recent[c][w] <= 2 * most
    BY DEF BurstBounded
  <2>1. w \in 0 .. w
    BY BurstTypes DEF LimiterInv
  <2>2. /\ bucket[c] = None => recent[c][w] <= most
        /\ bucket[c] # None => /\ bucket[c].count <= most
                               /\ recent[c][w] <= bucket[c].count + most
    BY <2>1 DEF LimiterInv, BurstBacked
  <2>3. /\ most \in Nat /\ recent[c][w] \in Nat
        /\ bucket[c] # None => bucket[c].count \in Nat
    BY <2>1, BurstTypes DEF LimiterInv
  <2> QED
    BY <2>2, <2>3
<1> QED
  BY <1>1, LimiterInvariant, PTL
=============================================================================
