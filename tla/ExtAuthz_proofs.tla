--------------------------- MODULE ExtAuthz_proofs ---------------------------
(***************************************************************************)
(* Conservation of the concurrency permits and the drift of the inflight   *)
(* gauge, for any number of requests and any limit.                        *)
(***************************************************************************)
EXTENDS ExtAuthz, FiniteSetTheorems, TLAPS

\* What the two counters need: their ranges and the finiteness of Active.
Counters ==
  /\ permits \in Nat /\ inflight \in Int /\ cancels \in Nat
  /\ pc \in [Slots -> Inside \cup {"idle", "answered", "gone"}]

IInv == Counters /\ PermitsConserved /\ GaugeDrift

LEMMA ActiveFinite ==
  IsFiniteSet(Active) /\ Cardinality(Active) \in Nat
BY ExtAuthzAssumption, FS_Subset, FS_CardinalityType DEF Active

\* A check that comes inside adds one to the active ones.
LEMMA EnterActive ==
  ASSUME Counters, NEW r \in Slots, pc[r] \notin Inside, NEW s \in Inside, Goto(r, s)
  PROVE  Cardinality(Active') = Cardinality(Active) + 1
<1>1. Active' = Active \cup {r} /\ r \notin Active
  BY DEF Active, Goto, Counters
<1> QED
  BY <1>1, ActiveFinite, FS_AddElement

\* A check that leaves takes one away.
LEMMA LeaveActive ==
  ASSUME Counters, NEW r \in Slots, pc[r] \in Inside, NEW s \in {"answered", "gone"},
         Goto(r, s)
  PROVE  Cardinality(Active') = Cardinality(Active) - 1
<1>1. Active' = Active \ {r} /\ r \in Active
  BY DEF Active, Goto, Counters, Inside, Awaiting
<1> QED
  BY <1>1, ActiveFinite, FS_RemoveElement

\* Any other move leaves them as they are.
LEMMA SameActive ==
  ASSUME Counters, NEW r \in Slots, NEW s, Goto(r, s),
         pc[r] \in Inside <=> s \in Inside
  PROVE  Active' = Active
BY DEF Active, Goto, Counters

\* Before the first request all permits are free and the gauge is zero.
LEMMA Initially ==
  Init => IInv
<1> SUFFICES ASSUME Init
             PROVE  IInv
  OBVIOUS
<1>1. Active = {}
  BY DEF Init, Active, Inside, Awaiting
<1>2. Cardinality(Active) = 0
  BY <1>1, FS_EmptySet
<1>3. Counters
  BY ExtAuthzAssumption DEF Init, Counters
<1>4. PermitsConserved /\ GaugeDrift
  BY <1>2, ExtAuthzAssumption DEF Init, PermitsConserved, GaugeDrift
<1> QED
  BY <1>3, <1>4 DEF IInv

\* The stages between the lock and the answer move a check along inside and
\* touch neither permits, gauge nor cancellations.
LEMMA StagesKeepCounters ==
  ASSUME IInv, NEW r \in Slots,
         MatchRoute(r) \/ AccessPlugins(r) \/ Auth(r) \/ Limit(r) \/ PluginLog(r)
  PROVE  IInv'
<1>1. /\ UNCHANGED <<permits, inflight, cancels>>
      /\ pc[r] \in Awaiting
      /\ \E s \in Inside : Goto(r, s)
  <2> USE DEF Inside, Awaiting
  <2>1. CASE MatchRoute(r)
    BY <2>1 DEF MatchRoute
  <2>2. CASE AccessPlugins(r)
    BY <2>2 DEF AccessPlugins
  <2>3. CASE Auth(r)
    BY <2>3 DEF Auth
  <2>4. CASE Limit(r)
    BY <2>4 DEF Limit
  <2>5. CASE PluginLog(r)
    BY <2>5 DEF PluginLog
  <2> QED
    BY <2>1, <2>2, <2>3, <2>4, <2>5
<1>2. PICK s \in Inside : Goto(r, s)
  BY <1>1
<1>3. Active' = Active
  BY <1>1, <1>2, SameActive DEF IInv, Inside
<1>4. Counters'
  BY <1>1, <1>2 DEF IInv, Counters, Goto
<1> QED
  BY <1>1, <1>3, <1>4 DEF IInv, PermitsConserved, GaugeDrift

\* IInv is inductive: check and check_inner keep both counters in step with the
\* checks in flight.
LEMMA Inductive ==
  IInv /\ [Next]_vars => IInv'
<1> SUFFICES ASSUME IInv, [Next]_vars
             PROVE  IInv'
  OBVIOUS
<1> USE ActiveFinite, ExtAuthzAssumption DEF IInv
<1>1. ASSUME NEW r \in Slots, Admit(r) PROVE IInv'
  <2>1. pc[r] \notin Inside /\ "queued" \in Inside /\ Goto(r, "queued")
    BY <1>1 DEF Admit, Inside, Awaiting
  <2>2. Cardinality(Active') = Cardinality(Active) + 1
    BY <2>1, EnterActive
  <2>3. Counters'
    BY <1>1, <2>1 DEF Admit, Counters, Goto
  <2> QED
    BY <1>1, <2>2, <2>3 DEF Admit, PermitsConserved, GaugeDrift, Counters
<1>2. ASSUME NEW r \in Slots, Overload(r) \/ Reuse(r) PROVE IInv'
  <2>1. PICK s \in {"idle", "answered"} : Goto(r, s)
    BY <1>2 DEF Overload, Reuse
  <2>2. pc[r] \notin Inside /\ s \notin Inside
    BY <1>2 DEF Overload, Reuse, Inside, Awaiting
  <2>3. Active' = Active
    BY <2>1, <2>2, SameActive
  <2>4. UNCHANGED <<permits, inflight, cancels>>
    BY <1>2 DEF Overload, Reuse
  <2>5. Counters'
    BY <2>1, <2>4 DEF Counters, Goto
  <2> QED
    BY <2>3, <2>4, <2>5 DEF PermitsConserved, GaugeDrift
<1>3. ASSUME NEW r \in Slots, Respond(r) PROVE IInv'
  <2>1. pc[r] \in Inside /\ Goto(r, "answered")
    BY <1>3 DEF Respond, Inside
  <2>2. Cardinality(Active') = Cardinality(Active) - 1
    BY <2>1, LeaveActive
  <2>3. Counters'
    BY <1>3, <2>1 DEF Respond, Counters, Goto
  <2> QED
    BY <1>3, <2>2, <2>3 DEF Respond, PermitsConserved, GaugeDrift, Counters
<1>4. ASSUME NEW r \in Slots, GiveUp(r) PROVE IInv'
  <2>1. pc[r] \in Inside /\ Goto(r, "gone")
    BY <1>4 DEF GiveUp, Inside
  <2>2. Cardinality(Active') = Cardinality(Active) - 1
    BY <2>1, LeaveActive
  <2>3. Counters'
    BY <1>4, <2>1 DEF GiveUp, Counters, Goto
  <2> QED
    BY <1>4, <2>2, <2>3 DEF GiveUp, PermitsConserved, GaugeDrift, Counters
<1>5. ASSUME UNCHANGED <<permits, inflight, cancels, pc>> PROVE IInv'
  <2>1. Active' = Active
    BY <1>5 DEF Active
  <2> QED
    BY <1>5, <2>1 DEF Counters, PermitsConserved, GaugeDrift
<1>6. CASE RequestWrite \/ Write \/ UNCHANGED vars
  BY <1>5, <1>6 DEF RequestWrite, Write, vars
<1> QED
  BY <1>1, <1>2, <1>3, <1>4, <1>6, StagesKeepCounters DEF Next, Stage

\* The free permits and the checks in flight always add up to the limit, so the
\* limit is never exceeded and no way of ending a check leaks a permit.
THEOREM PermitsNeverLeak == Spec => []PermitsConserved
<1>1. IInv => PermitsConserved
  BY DEF IInv
<1> QED
  BY <1>1, Initially, Inductive, PTL DEF Spec

\* The gauge is off by exactly the number of checks dropped at an await.
THEOREM GaugeDriftsByCancellations == Spec => []GaugeDrift
<1>1. IInv => GaugeDrift
  BY DEF IInv
<1> QED
  BY <1>1, Initially, Inductive, PTL DEF Spec

=============================================================================
