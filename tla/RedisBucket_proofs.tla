------------------------- MODULE RedisBucket_proofs -------------------------
(***************************************************************************)
(* WindowBound for every capacity, rate, TTL granularity and clock skew.   *)
(***************************************************************************)
EXTENDS RedisBucket, TLAPS

\* A rounded-up quotient times its divisor is at least the dividend.
LEMMA CeilDivBound ==
  ASSUME NEW a \in Nat, NEW b \in Nat \ {0}
  PROVE  /\ CeilDiv(a, b) \in Nat
         /\ b * CeilDiv(a, b) >= a
<1> DEFINE q == (a + b - 1) \div b
<1>1. q \in Int /\ a + b - 1 \in Nat
  OBVIOUS
<1>2. b * q <= a + b - 1 /\ a + b - 1 < b * q + b
  OBVIOUS
<1> QED
  BY <1>1, <1>2 DEF CeilDiv

\* The key lives for at least two full refills.
LEMMA TtlCoversRefill ==
  /\ ttl_seconds(Cap) \in Nat
  /\ Refill * (TicksPerSecond * ttl_seconds(Cap)) >= 2 * Cap
<1>1. 2 * Cap \in Nat /\ Refill * TicksPerSecond \in Nat \ {0}
  BY BucketAssumption DEF Cap
<1>2. /\ ttl_seconds(Cap) \in Nat
      /\ (Refill * TicksPerSecond) * ttl_seconds(Cap) >= 2 * Cap
  BY <1>1, CeilDivBound DEF ttl_seconds
<1> QED
  BY <1>2, BucketAssumption

\* Every state has the types of TypeOK: in particular the stored amount stays
\* between empty and the capacity although the script subtracts from a refill
\* that a clock stepping back can make negative.
THEOREM TypeCorrect == Spec => []TypeOK
<1>1. Init => TypeOK
  <2>1. Cap \in Nat
    BY BucketAssumption DEF Cap
  <2>2. Init => present \in BOOLEAN
    BY Zenon DEF Init
  <2> QED
    BY <2>1, <2>2, BucketAssumption DEF Init, TypeOK, Times, NoPromise
<1>2. TypeOK /\ [Next]_vars => TypeOK'
  <2> SUFFICES ASSUME TypeOK, [Next]_vars
               PROVE  TypeOK'
    OBVIOUS
  <2> USE BucketAssumption
  <2>1. CASE Tick
    BY <2>1 DEF Tick, TypeOK, Times
  <2>2. ASSUME NEW skew \in 0..MaxSkew, ScriptAllows(now + skew)
        PROVE  TypeOK'
    <3>1. NewTokens(now + skew) \in Int /\ NewTokens(now + skew) <= Cap /\ Cap \in Nat
      BY DEF NewTokens, Smaller, Held, LastRefill, TypeOK, Times, Cap
    <3>2. tokens' \in 0..Cap
      BY <2>2, <3>1 DEF ScriptAllows
    <3>3. expires_at' \in Nat
      BY <2>2, TtlCoversRefill DEF ScriptAllows, TypeOK, Times
    <3>4. granted' \in Nat
      BY <2>2 DEF ScriptAllows, TypeOK, Times
    <3> QED
      BY <2>2, <3>2, <3>3, <3>4 DEF ScriptAllows, TypeOK, Times, NoPromise
  <2>3. ASSUME NEW skew \in 0..MaxSkew, ScriptDenies(now + skew)
        PROVE  TypeOK'
    <3>1. NewTokens(now + skew) \in Int
      BY DEF NewTokens, Smaller, Held, LastRefill, TypeOK, Times, Cap
    <3>2. RetryAfter(NewTokens(now + skew)) \in Int
      BY <3>1 DEF RetryAfter, CeilDiv
    <3> QED
      BY <2>3, <3>2 DEF ScriptDenies, TypeOK, Times
  <2>4. CASE UNCHANGED vars
    BY <2>4 DEF vars, TypeOK
  <2> QED
    BY <2>1, <2>2, <2>3, <2>4 DEF Next
<1> QED
  BY <1>1, <1>2, PTL DEF Spec

\* A grant takes its unit out of the reserve, at whichever reading of the clock.
LEMMA GrantFromReserve ==
  ASSUME TypeOK, Accounted, NEW skew \in 0..MaxSkew, ScriptAllows(now + skew),
         TypeOK'
  PROVE  Reserve' \in Int /\ Reserve' <= Reserve - Unit
<1> USE BucketAssumption
<1> DEFINE S == Refill * MaxSkew
           L == tokens + Refill * (now + MaxSkew - last_refill_ms)
           N == NewTokens(now + skew)
<1>1. Cap \in Nat /\ S \in Nat /\ L \in Int /\ N \in Int /\ now \in Nat /\ skew \in Nat
  BY DEF Cap, TypeOK, Times, NewTokens, Smaller, Held, LastRefill
<1>2. Reserve' \in Int /\ Reserve' <= (N - Unit) + Refill * (now + MaxSkew - (now + skew))
  <2>1. tokens' = N - Unit /\ last_refill_ms' = now + skew /\ now' = now
    BY DEF ScriptAllows
  <2>2. Live'
    <3>1. present' /\ expires_at' = now + TicksPerSecond * ttl_seconds(Cap)
      BY DEF ScriptAllows
    <3>2. TicksPerSecond * ttl_seconds(Cap) \in Nat
      BY TtlCoversRefill
    <3> QED
      BY <1>1, <2>1, <3>1, <3>2 DEF Live
  <2>3. Reserve' = Smaller(Cap + S, (N - Unit) + Refill * (now + MaxSkew - (now + skew)))
    BY <2>1, <2>2 DEF Reserve, Cap
  <2> QED
    BY <1>1, <2>3 DEF Smaller
<1>3. Refill * (now + MaxSkew - (now + skew)) = S - Refill * skew /\ Refill * skew \in Nat
  BY <1>1
<1>4. N <= Cap
  BY <1>1 DEF NewTokens, Smaller, Held, LastRefill, TypeOK, Times
<1>5. CASE Live
  <2>1. N <= tokens + Refill * (now + skew - last_refill_ms)
    BY <1>1, <1>5 DEF NewTokens, Smaller, Held, LastRefill, TypeOK, Times
  <2>2. Refill * (now + MaxSkew - last_refill_ms)
          = Refill * (now + skew - last_refill_ms) + (S - Refill * skew)
    BY <1>1 DEF TypeOK, Times
  <2>3. Reserve = Smaller(Cap + S, L)
    BY <1>5 DEF Reserve
  <2>4. tokens \in Int /\ Refill * (now + skew - last_refill_ms) \in Int
    BY <1>1 DEF TypeOK, Times
  <2>5. Reserve' <= L - Unit
    BY <1>1, <1>2, <1>3, <2>1, <2>2, <2>4
  <2>6. Reserve' <= Cap + S - Unit
    BY <1>1, <1>2, <1>3, <1>4
  <2> QED
    BY <1>1, <1>2, <2>3, <2>5, <2>6 DEF Smaller
<1>6. CASE ~Live
  BY <1>1, <1>2, <1>3, <1>4, <1>6 DEF Reserve
<1> QED
  BY <1>5, <1>6

\* A tick adds at most one tick's refill to the reserve, also when the key
\* expires in it: by then the refill since the last grant had filled it.
LEMMA TickRefillsReserve ==
  ASSUME TypeOK, Accounted, Tick
  PROVE  Reserve' \in Int /\ Reserve' <= Reserve + Refill
<1> USE BucketAssumption
<1> DEFINE S == Refill * MaxSkew
           L == tokens + Refill * (now + MaxSkew - last_refill_ms)
           T == TicksPerSecond * ttl_seconds(Cap)
<1>1. /\ Cap \in Nat /\ S \in Nat /\ L \in Int /\ T \in Nat
      /\ now \in Nat /\ tokens \in Nat /\ last_refill_ms \in Nat /\ expires_at \in Nat
  BY TtlCoversRefill DEF Cap, TypeOK, Times
<1>2. /\ now' = now + 1 /\ present' = present /\ tokens' = tokens
      /\ last_refill_ms' = last_refill_ms /\ expires_at' = expires_at
  BY DEF Tick
<1>3. tokens + Refill * ((now + 1) + MaxSkew - last_refill_ms) = L + Refill
  BY <1>1
<1>4. CASE Live'
  <2>1. Live
    BY <1>1, <1>2, <1>4 DEF Live
  <2>2. Reserve' = Smaller(Cap + S, L + Refill)
    BY <1>2, <1>3, <1>4 DEF Reserve, Cap
  <2>3. Reserve = Smaller(Cap + S, L)
    BY <2>1 DEF Reserve
  <2> QED
    BY <1>1, <2>2, <2>3 DEF Smaller
<1>5. CASE ~Live' /\ Live
  <2>1. now = expires_at
    BY <1>1, <1>2, <1>5 DEF Live
  <2>2. T <= now + MaxSkew - last_refill_ms
    BY <1>1, <1>5, <2>1 DEF Live, Accounted
  <2>3. Refill * T <= Refill * (now + MaxSkew - last_refill_ms)
    BY <1>1, <2>2
  <2>4. Cap + S <= L
    <3>1. Refill * T >= 2 * Cap /\ Refill * T \in Int
      BY <1>1, TtlCoversRefill
    <3>2. S <= Cap
      BY SkewAssumption DEF Cap
    <3> QED
      BY <1>1, <2>3, <3>1, <3>2
  <2>5. Reserve = Cap + S
    BY <1>1, <1>5, <2>4 DEF Reserve, Smaller
  <2>6. Reserve' = Cap + S
    BY <1>5 DEF Reserve, Cap
  <2> QED
    BY <1>1, <2>5, <2>6
<1>6. CASE ~Live' /\ ~Live
  BY <1>1, <1>6 DEF Reserve, Cap
<1> QED
  BY <1>4, <1>5, <1>6

\* The reserve is between nothing and a full bucket plus the skew's refill.
LEMMA ReserveBounds ==
  ASSUME TypeOK, Accounted
  PROVE  Reserve \in Int /\ 0 <= Reserve /\ Reserve <= Cap + Refill * MaxSkew
<1> USE BucketAssumption
<1>1. Cap \in Nat /\ Refill * MaxSkew \in Nat
  BY DEF Cap
<1>2. CASE Live
  <2>1. now + MaxSkew - last_refill_ms \in Nat
    BY <1>2 DEF Live, Accounted, TypeOK, Times
  <2>2. Refill * (now + MaxSkew - last_refill_ms) \in Nat
    BY <2>1
  <2>3. tokens \in Nat
    BY <1>1 DEF TypeOK
  <2> QED
    BY <1>1, <1>2, <2>2, <2>3 DEF Reserve, Smaller
<1>3. CASE ~Live
  BY <1>1, <1>3 DEF Reserve
<1> QED
  BY <1>2, <1>3

\* In any window the script grants at most the capacity, the refill of the
\* window and the refill of the clock skew, for every capacity, rate, TTL
\* granularity and skew up to one full refill (lua.rs, bucket.rs ttl_seconds).
THEOREM WindowBounded == Spec => []WindowBound
<1> USE BucketAssumption
<1>1. Init /\ TypeOK => Accounted
  <2> SUFFICES ASSUME Init, TypeOK
               PROVE  Accounted
    OBVIOUS
  <2>1. ~present /\ granted = 0 /\ now = 0
    BY DEF Init
  <2>2. Reserve = Cap + Refill * MaxSkew
    BY <2>1 DEF Reserve, Live
  <2>3. Cap \in Nat /\ opened \in Nat
    BY DEF Cap, TypeOK, Times
  <2>4. now >= opened => now - opened = 0
    BY <2>1, <2>3
  <2> QED
    BY <2>1, <2>2, <2>3, <2>4 DEF Accounted
<1>2. TypeOK /\ TypeOK' /\ Accounted /\ [Next]_vars => Accounted'
  <2> SUFFICES ASSUME TypeOK, TypeOK', Accounted, [Next]_vars
               PROVE  Accounted'
    OBVIOUS
  <2>0. /\ Cap \in Nat /\ Refill * MaxSkew \in Nat
        /\ now \in Nat /\ opened \in Nat /\ granted \in Nat
        /\ ttl_seconds(Cap) \in Nat /\ last_refill_ms \in Nat /\ expires_at \in Nat
    BY TtlCoversRefill DEF Cap, TypeOK, Times
  <2>r. Reserve \in Int /\ 0 <= Reserve /\ Reserve <= Cap + Refill * MaxSkew
    BY ReserveBounds
  <2>1. CASE Tick
    <3>1. /\ now' = now + 1 /\ present' = present /\ opened' = opened
          /\ granted' = granted /\ last_refill_ms' = last_refill_ms
          /\ expires_at' = expires_at
      BY <2>1 DEF Tick
    <3>2. present' =>
            /\ last_refill_ms' <= now' + MaxSkew
            /\ last_refill_ms' + TicksPerSecond * ttl_seconds(Cap) <= expires_at' + MaxSkew
      BY <2>0, <3>1 DEF Accounted
    <3>3. now' < opened' => granted' = 0
      BY <2>0, <3>1 DEF Accounted
    <3>4. Reserve' \in Int /\ Reserve' <= Reserve + Refill
      BY <2>1, TickRefillsReserve
    <3>5. ASSUME now' >= opened'
          PROVE  Unit * granted' + Reserve' <= Cap + Refill * (MaxSkew + (now' - opened'))
      <4>1. CASE now >= opened
        <5>1. Unit * granted + Reserve <= Cap + Refill * (MaxSkew + (now - opened))
          BY <4>1 DEF Accounted
        <5>2. Refill * (MaxSkew + (now' - opened'))
                = Refill * (MaxSkew + (now - opened)) + Refill
          BY <2>0, <3>1
        <5>3. /\ Unit * granted' + Reserve' \in Int /\ Unit * granted + Reserve \in Int
              /\ Unit * granted' + Reserve' <= Unit * granted + Reserve + Refill
          <6>1. Unit * granted' = Unit * granted /\ Unit * granted \in Int
            BY <2>0, <3>1
          <6> QED
            BY <2>r, <3>4, <6>1
        <5>4. Refill * (MaxSkew + (now - opened)) \in Int
          BY <2>0
        <5> QED
          BY <2>0, <5>1, <5>2, <5>3, <5>4
      <4>2. CASE now < opened
        <5>1. granted' = 0 /\ now' - opened' = 0
          BY <2>0, <3>1, <3>5, <4>2 DEF Accounted
        <5>2. Reserve' <= Cap + Refill * MaxSkew
          <6>1. Cap \in Nat /\ Refill * MaxSkew \in Nat
            BY <2>0
          <6>2. Live' => Refill * (now' + MaxSkew - last_refill_ms') \in Int /\ tokens' \in Int
            BY <2>0, <3>1 DEF TypeOK, Times
          <6>3. Cap' = Cap
            BY DEF Cap
          <6> QED
            BY <6>1, <6>2, <6>3 DEF Reserve, Smaller
        <5> QED
          BY <2>0, <3>4, <5>1, <5>2
      <4> QED
        BY <2>0, <4>1, <4>2
    <3> QED
      BY <3>2, <3>3, <3>5 DEF Accounted, Cap, ttl_seconds, CeilDiv
  <2>2. ASSUME NEW skew \in 0..MaxSkew, ScriptAllows(now + skew)
        PROVE  Accounted'
    <3>1. /\ now' = now /\ opened' = opened /\ last_refill_ms' = now + skew
          /\ expires_at' = now + TicksPerSecond * ttl_seconds(Cap)
          /\ granted' = IF opened <= now THEN granted + 1 ELSE granted
      BY <2>2 DEF ScriptAllows
    <3>2. /\ last_refill_ms' <= now' + MaxSkew
          /\ last_refill_ms' + TicksPerSecond * ttl_seconds(Cap) <= expires_at' + MaxSkew
      <4>1. TicksPerSecond * ttl_seconds(Cap) \in Nat
        BY <2>0
      <4> QED
        BY <2>0, <3>1, <4>1
    <3>3. now' < opened' => granted' = 0
      BY <2>0, <3>1 DEF Accounted
    <3>4. Reserve' \in Int /\ Reserve' <= Reserve - Unit
      BY <2>2, GrantFromReserve
    <3>5. ASSUME now' >= opened'
          PROVE  Unit * granted' + Reserve' <= Cap + Refill * (MaxSkew + (now' - opened'))
      <4>1. Unit * granted + Reserve <= Cap + Refill * (MaxSkew + (now - opened))
        BY <3>1, <3>5 DEF Accounted
      <4>2. Unit * granted' = Unit * granted + Unit /\ Unit * granted \in Int
        BY <2>0, <3>1, <3>5
      <4>3. Unit * granted' + Reserve' <= Unit * granted + Reserve
        BY <2>0, <2>r, <3>4, <4>2
      <4>4. Unit * granted + Reserve \in Int /\ Unit * granted' + Reserve' \in Int
        BY <2>r, <3>4, <4>2
      <4>5. /\ Cap + Refill * (MaxSkew + (now' - opened')) \in Int
            /\ Cap + Refill * (MaxSkew + (now' - opened'))
                 = Cap + Refill * (MaxSkew + (now - opened))
        BY <2>0, <3>1
      <4> QED
        BY <4>1, <4>3, <4>4, <4>5
    <3> QED
      BY <3>2, <3>3, <3>5 DEF Accounted, Cap, ttl_seconds, CeilDiv
  <2>3. ASSUME NEW skew \in 0..MaxSkew, ScriptDenies(now + skew)
        PROVE  Accounted'
    BY <2>3 DEF ScriptDenies, Accounted, Reserve, Live, Cap, ttl_seconds
  <2>4. CASE UNCHANGED vars
    BY <2>4 DEF vars, Accounted, Reserve, Live, Cap, ttl_seconds
  <2> QED
    BY <2>1, <2>2, <2>3, <2>4 DEF Next
<1>3. TypeOK /\ Accounted => WindowBound
  <2> SUFFICES ASSUME TypeOK, Accounted, now >= opened
               PROVE  Unit * granted <= Cap + Refill * (MaxSkew + (now - opened))
    BY DEF WindowBound
  <2>1. Unit * granted \in Int /\ Refill * (MaxSkew + (now - opened)) \in Int /\ Cap \in Nat
    BY DEF TypeOK, Times, Cap
  <2> QED
    BY <2>1, ReserveBounds DEF Accounted
<1> QED
  BY <1>1, <1>2, <1>3, TypeCorrect, PTL DEF Spec

=============================================================================
