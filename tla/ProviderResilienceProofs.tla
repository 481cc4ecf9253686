---------------------- MODULE ProviderResilienceProofs ----------------------
(***************************************************************************)
(* Theorems about ProviderResilience for every number of callers, every    *)
(* policy that the code accepts, and any number of faults.                 *)
(***************************************************************************)
EXTENDS ProviderResilience, FiniteSetTheorems, WellFoundedInduction, TLAPS

-----------------------------------------------------------------------------
(* The inductive invariant, in named parts.                                *)

(* The probes key never holds more tokens than the policy allows, those    *)
(* whose lease has run out included.                                       *)
LiveBounded == Cardinality(Live(probes)) <= MaxConcurrent

(* A caller without a call holds nothing.  The probe of a caller is in the *)
(* probes key for as long as its lease has to run, or not at all.          *)
OwnProbes ==
  \A c \in Callers :
    /\ ~call[c].busy => call[c] = NoCall
    /\ call[c].token = 0 => call[c].leaseIn = 0
    /\ call[c].token # 0 => probes[call[c].token] \in {NoProbe, call[c].leaseIn}

DistinctTokens ==
  \A c, d \in Callers :
    call[c].token # 0 /\ call[c].token = call[d].token => c = d

(* While a lease runs, the state key it was granted under has not expired, *)
(* so its generation is the circuit's or older; older, if the circuit has  *)
(* opened since.                                                           *)
Generations ==
  \A c \in Callers : call[c].leaseIn > 0 =>
    /\ call[c].leaseIn <= circuit.expiresIn
    /\ call[c].gen <= circuit.gen
    /\ c \in late => call[c].gen < circuit.gen

(* Unless the circuit is closed, a running lease that it has not outlived  *)
(* is that of a probe in the probes key.                                   *)
ProbesKept ==
  circuit.state # "CLOSED" =>
    \A c \in Callers \ late :
      call[c].leaseIn > 0 => probes[call[c].token] = call[c].leaseIn

IndInv ==
  /\ TypeOK
  /\ LiveBounded
  /\ OwnProbes
  /\ DistinctTokens
  /\ Generations
  /\ ProbesKept
  /\ ProbesBounded

-----------------------------------------------------------------------------
(* The constants and the helpers                                           *)

LEMMA Policy ==
  /\ Window \in Nat /\ Window > 0 /\ Window <= StateTTL
  /\ OpenDuration \in Nat /\ OpenDuration > 0 /\ OpenDuration <= StateTTL
  /\ ProbeLease \in Nat /\ ProbeLease > 0 /\ ProbeLease <= StateTTL
  /\ \A r \in RetryAfters : r \in Nat /\ r > 0 /\ r <= StateTTL
  /\ StateTTL \in Nat
  /\ FailureThreshold \in Nat /\ FailureThreshold > 0
  /\ MinimumObservations \in Nat
  /\ MaxConcurrent \in Nat /\ MaxConcurrent > 0
BY CountsAssumption, TimesAssumption

(* A non-empty set of numbers has a least one, a pair a greater one.       *)
LEMMA LeastExists ==
  ASSUME NEW S \in SUBSET Nat, S # {}
  PROVE  Min(S) \in S
<1>1. PICK x \in S : \A y \in S : ~ (<<y, x>> \in OpToRel(<, Nat))
  BY WFMin, NatLessThanWellFounded
<1>2. \A y \in S : x =< y
  <2> TAKE y \in S
  <2>1. ~(y < x)
    BY <1>1 DEF OpToRel
  <2> QED  BY <2>1
<1> QED  BY <1>2 DEF Min

LEMMA GreaterOfTwo ==
  ASSUME NEW m \in Nat, NEW n \in Nat
  PROVE  Max({m, n}) \in {m, n}
<1>1. \E x \in {m, n} : \A y \in {m, n} : x >= y
  OBVIOUS
<1> QED  BY <1>1 DEF Max

(* Distinct members for the members of a set: it is no larger.             *)
LEMMA InjectionBound ==
  ASSUME NEW T, IsFiniteSet(T), NEW S, NEW f \in [S -> T],
         \A x, y \in S : f[x] = f[y] => x = y
  PROVE  IsFiniteSet(S) /\ Cardinality(S) <= Cardinality(T)
<1>1. f \in Injection(S, T)
  BY DEF Injection, IsInjective
<1> QED  BY <1>1, FS_Injection

LEMMA TokensFinite ==
  /\ IsFiniteSet(Tokens)
  /\ Cardinality(Callers) \in Nat
  /\ Cardinality(Tokens) = MaxConcurrent + Cardinality(Callers)
  /\ Tokens \subseteq Nat \ {0}
<1>1. Cardinality(Callers) \in Nat
  BY CallersAssumption, FS_CardinalityType
<1>2. /\ IsFiniteSet(1 .. (MaxConcurrent + Cardinality(Callers)))
      /\ Cardinality(1 .. (MaxConcurrent + Cardinality(Callers)))
           = MaxConcurrent + Cardinality(Callers)
  BY <1>1, Policy, FS_Interval
<1> QED  BY <1>1, <1>2 DEF Tokens

(* Under the limit there is a token that no probe and no caller has.       *)
LEMMA TokenFree ==
  ASSUME TypeOK, UnderLimit
  PROVE  /\ Token \in Tokens
         /\ Token \notin Live(Purged)
         /\ \A c \in Callers : call[c].token # Token
<1> DEFINE L == Live(Purged)
           f == [c \in Callers |-> call[c].token]
<1>1. IsFiniteSet(L) /\ Cardinality(L) \in Nat
  BY TokensFinite, FS_Subset, FS_CardinalityType DEF Live
<1>2. f \in Surjection(Callers, Held)
  BY DEF Surjection, Held
<1>3. IsFiniteSet(Held) /\ Cardinality(Held) <= Cardinality(Callers)
  BY <1>2, CallersAssumption, FS_Surjection
<1>4. Cardinality(Held) \in Nat
  BY <1>3, FS_CardinalityType
<1>5. IsFiniteSet(L \cup Held)
      /\ Cardinality(L \cup Held) = Cardinality(L) + Cardinality(Held) - Cardinality(L \cap Held)
  BY <1>1, <1>3, FS_Union
<1>6. Cardinality(L \cap Held) \in Nat
  BY <1>1, FS_Intersection, FS_CardinalityType
<1>7. Cardinality(L \cup Held) < Cardinality(Tokens)
  BY <1>1, <1>3, <1>4, <1>5, <1>6, TokensFinite, Policy DEF UnderLimit
<1>8. Tokens \ (L \cup Held) # {}
  <2> SUFFICES ASSUME Tokens \subseteq L \cup Held PROVE FALSE
    OBVIOUS
  <2>1. Cardinality(Tokens) <= Cardinality(L \cup Held)
    BY <1>5, FS_Subset
  <2> QED  BY <2>1, <1>1, <1>4, <1>5, <1>6, <1>7, TokensFinite, Policy
<1>9. Token \in Tokens \ (L \cup Held)
  BY <1>8, LeastExists, TokensFinite DEF Token
<1> QED  BY <1>9 DEF Held

-----------------------------------------------------------------------------
(* What the scripts do to the state key                                    *)

Circuit == [state : {"CLOSED", "OPEN", "HALF_OPEN"}, gen : Nat,
            failures : 0 .. FailureThreshold, seen : 0 .. MinimumObservations,
            windowIn : 0 .. Window, openIn : 0 .. StateTTL,
            expiresIn : 0 .. StateTTL]

LEMMA FreshType == Fresh \in Circuit
BY Policy DEF Fresh, Circuit

LEMMA CircuitFields ==
  ASSUME NEW k \in Circuit
  PROVE  /\ k.state \in {"CLOSED", "OPEN", "HALF_OPEN"} /\ k.gen \in Nat
         /\ k.failures \in 0 .. FailureThreshold
         /\ k.seen \in 0 .. MinimumObservations
         /\ k.windowIn \in 0 .. Window /\ k.openIn \in 0 .. StateTTL
         /\ k.expiresIn \in 0 .. StateTTL
         /\ k = [state |-> k.state, gen |-> k.gen, failures |-> k.failures,
                 seen |-> k.seen, windowIn |-> k.windowIn,
                 openIn |-> k.openIn, expiresIn |-> k.expiresIn]
BY DEF Circuit

LEMMA WindowedKeeps ==
  ASSUME NEW k \in Circuit
  PROVE  /\ Windowed(k) \in Circuit
         /\ Windowed(k).state = k.state /\ Windowed(k).gen = k.gen
         /\ Windowed(k).openIn = k.openIn
<1>1. CASE k.windowIn # 0
  BY <1>1 DEF Windowed
<1>2. CASE k.windowIn = 0
  <2>1. Windowed(k) = [k EXCEPT !.windowIn = Window, !.failures = 0, !.seen = 0]
    BY <1>2 DEF Windowed
  <2>2. /\ 0 \in 0 .. FailureThreshold /\ 0 \in 0 .. MinimumObservations
        /\ Window \in 0 .. Window
    BY Policy
  <2>3. Windowed(k) \in Circuit
    BY <2>1, <2>2, Zenon DEF Circuit
  <2>4. /\ Windowed(k).state = k.state /\ Windowed(k).gen = k.gen
        /\ Windowed(k).openIn = k.openIn
    BY <2>1 DEF Circuit
  <2> QED  BY <2>3, <2>4
<1> QED  BY <1>1, <1>2

LEMMA CountedKeeps ==
  ASSUME NEW k \in Circuit, NEW n \in {0, 1}
  PROVE  /\ Counted(k, n) \in Circuit
         /\ Counted(k, n).state = k.state /\ Counted(k, n).gen = k.gen
         /\ Counted(k, n).openIn = k.openIn
         /\ Counted(k, n).expiresIn = StateTTL
<1> DEFINE w == Windowed(k)
<1>1. /\ w \in Circuit /\ w.state = k.state /\ w.gen = k.gen
      /\ w.openIn = k.openIn
  BY WindowedKeeps
<1>2. /\ \A m \in 0 .. FailureThreshold :
           Capped(m + n, FailureThreshold) \in 0 .. FailureThreshold
      /\ \A m \in 0 .. MinimumObservations :
           Capped(m + 1, MinimumObservations) \in 0 .. MinimumObservations
  BY Policy DEF Capped
<1>3. Counted(k, n) =
        [w EXCEPT !.failures = Capped(w.failures + n, FailureThreshold),
                  !.seen = Capped(w.seen + 1, MinimumObservations),
                  !.expiresIn = StateTTL]
  BY DEF Counted
<1> HIDE DEF w
<1>4. Counted(k, n) =
        [state |-> w.state, gen |-> w.gen,
         failures |-> Capped(w.failures + n, FailureThreshold),
         seen |-> Capped(w.seen + 1, MinimumObservations),
         windowIn |-> w.windowIn, openIn |-> w.openIn, expiresIn |-> StateTTL]
  BY <1>1, <1>3, CircuitFields
<1>5. StateTTL \in 0 .. StateTTL
  BY Policy
<1> QED  BY <1>1, <1>2, <1>4, <1>5, CircuitFields DEF Circuit

LEMMA OpenedIs ==
  ASSUME NEW k \in Circuit, NEW wait \in 0 .. StateTTL
  PROVE  /\ Opened(k, wait) \in Circuit
         /\ Opened(k, wait).state = "OPEN" /\ Opened(k, wait).gen = k.gen + 1
         /\ Opened(k, wait).openIn = wait
         /\ Opened(k, wait).expiresIn = k.expiresIn
<1> DEFINE g == k.gen + 1
<1>1. /\ Opened(k, wait).state = "OPEN" /\ Opened(k, wait).gen = k.gen + 1
      /\ Opened(k, wait).openIn = wait
      /\ Opened(k, wait).expiresIn = k.expiresIn
  BY DEF Opened, Circuit
<1>2. Opened(k, wait) = [k EXCEPT !.state = "OPEN", !.gen = g, !.openIn = wait]
  BY DEF Opened
<1>3. g \in Nat /\ "OPEN" \in {"CLOSED", "OPEN", "HALF_OPEN"}
  BY CircuitFields
<1> HIDE DEF g
<1>4. Opened(k, wait) \in Circuit
  BY <1>2, <1>3, Zenon DEF Circuit
<1> QED  BY <1>1, <1>4

LEMMA ResetIs ==
  ASSUME NEW k \in Circuit
  PROVE  /\ Reset(k) \in Circuit
         /\ Reset(k).state = "CLOSED" /\ Reset(k).gen = k.gen + 1
         /\ Reset(k).openIn = 0 /\ Reset(k).expiresIn = StateTTL
<1> DEFINE g == k.gen + 1
<1>1. /\ Reset(k).state = "CLOSED" /\ Reset(k).gen = k.gen + 1
      /\ Reset(k).openIn = 0 /\ Reset(k).expiresIn = StateTTL
  BY DEF Reset, Fresh
<1>2. Reset(k) = [Fresh EXCEPT !.gen = g, !.expiresIn = StateTTL]
  BY DEF Reset
<1>3. g \in Nat /\ StateTTL \in 0 .. StateTTL
  BY CircuitFields, Policy
<1> HIDE DEF g
<1>4. Reset(k) \in Circuit
  BY <1>2, <1>3, FreshType, Zenon DEF Circuit
<1> QED  BY <1>1, <1>4

(* The three ways in which the end of a call changes the circuit: it stays *)
(* in its state, it opens, or a probe closes it.                           *)
Stays(c) ==
  /\ circuit'.state = circuit.state /\ circuit'.gen = circuit.gen
  /\ circuit'.openIn = circuit.openIn
  /\ circuit'.expiresIn >= circuit.expiresIn
  /\ probes' = probes \/ (IsProbe(c) /\ probes' = Without(c))
Opens ==
  /\ circuit'.state = "OPEN" /\ circuit'.gen = circuit.gen + 1
  /\ circuit'.expiresIn = StateTTL
  /\ probes' \in {probes, NoProbes}
Closes(c) ==
  /\ IsProbe(c) /\ Current(c) /\ probes[call[c].token] # 0
  /\ circuit' = Reset(circuit)
  /\ probes' = NoProbes

LEMMA CircuitType ==
  ASSUME TypeOK
  PROVE  circuit \in Circuit /\ circuit.openIn <= circuit.expiresIn
BY DEF TypeOK, Circuit

LEMMA SuccessApplies ==
  ASSUME TypeOK, NEW c \in Callers, AppliedSuccess(c),
         IsProbe(c) => Current(c) /\ probes[call[c].token] # 0
  PROVE  /\ circuit' \in Circuit /\ circuit'.openIn <= circuit'.expiresIn
         /\ Stays(c) \/ Opens \/ Closes(c)
<1>1. CASE IsProbe(c)
  BY <1>1, CircuitType, ResetIs, Policy DEF AppliedSuccess, Closes, Circuit
<1>2. CASE ~IsProbe(c)
  <2> DEFINE k == Counted(circuit, 0)
  <2>1. /\ k \in Circuit /\ k.state = circuit.state /\ k.gen = circuit.gen
        /\ k.openIn = circuit.openIn /\ k.expiresIn = StateTTL
    BY CircuitType, CountedKeeps
  <2> HIDE DEF k
  <2>2. CASE Pressed(k)
    <3>1. circuit' = Opened(k, OpenDuration) /\ probes' = probes
      BY <1>2, <2>2 DEF AppliedSuccess, k
    <3>2. OpenDuration \in 0 .. StateTTL
      BY Policy
    <3>3. /\ circuit' \in Circuit /\ circuit'.state = "OPEN"
          /\ circuit'.gen = k.gen + 1 /\ circuit'.openIn = OpenDuration
          /\ circuit'.expiresIn = StateTTL
      BY <2>1, <3>1, <3>2, OpenedIs
    <3> QED  BY <2>1, <3>1, <3>3, Policy DEF Opens
  <2>3. CASE ~Pressed(k)
    <3>1. circuit' = k /\ probes' = probes
      BY <1>2, <2>3 DEF AppliedSuccess, k
    <3> QED  BY <2>1, <3>1, CircuitType, Policy DEF Stays, Circuit
  <2> QED  BY <2>2, <2>3
<1> QED  BY <1>1, <1>2

LEMMA FailureApplies ==
  ASSUME TypeOK, NEW c \in Callers, NEW retry \in {0} \cup RetryAfters,
         AppliedFailure(c, retry)
  PROVE  /\ circuit' \in Circuit /\ circuit'.openIn <= circuit'.expiresIn
         /\ Stays(c) \/ Opens
<1> DEFINE k == Counted(circuit, 1)
<1>1. /\ k \in Circuit /\ k.state = circuit.state /\ k.gen = circuit.gen
      /\ k.openIn = circuit.openIn /\ k.expiresIn = StateTTL
  BY CircuitType, CountedKeeps
<1>2. Max({OpenDuration, retry}) \in 0 .. StateTTL
  <2>1. retry \in 0 .. StateTTL /\ OpenDuration \in 0 .. StateTTL
    BY Policy
  <2> QED  BY <2>1, GreaterOfTwo
<1>3. \/ circuit' = Opened(k, Max({OpenDuration, retry})) /\ probes' = NoProbes
      \/ circuit' = k /\ probes' = probes
  BY DEF AppliedFailure
<1> HIDE DEF k
<1>4. CASE circuit' = Opened(k, Max({OpenDuration, retry})) /\ probes' = NoProbes
  BY <1>1, <1>2, <1>4, OpenedIs, Policy DEF Opens
<1>5. CASE circuit' = k /\ probes' = probes
  BY <1>1, <1>5, CircuitType, Policy DEF Stays, Circuit
<1> QED  BY <1>3, <1>4, <1>5

LEMMA ObservedApplies ==
  ASSUME TypeOK, NEW c \in Callers, NEW result \in Results,
         Observed(c, result)
  PROVE  /\ circuit' \in Circuit /\ circuit'.openIn <= circuit'.expiresIn
         /\ Stays(c) \/ Opens \/ Closes(c)
<1>0. result.retry \in {0} \cup RetryAfters
  BY DEF Results
<1>1. ASSUME circuit' = circuit,
             probes' = probes \/ (IsProbe(c) /\ probes' = Without(c))
      PROVE  /\ circuit' \in Circuit /\ circuit'.openIn <= circuit'.expiresIn
             /\ Stays(c)
  BY <1>1, CircuitType DEF Stays, Circuit
<1>2. CASE IsProbe(c) /\ ~Current(c)
  BY <1>1, <1>2 DEF Observed
<1>3. CASE IsProbe(c) /\ Current(c) /\ probes[call[c].token] = 0
  BY <1>1, <1>3 DEF Observed
<1>4. CASE IsProbe(c) => Current(c) /\ probes[call[c].token] # 0
  <2>1. CASE result.class = "success"
    BY <1>4, <2>1, SuccessApplies DEF Observed
  <2>2. CASE result.class = "failure"
    BY <1>0, <1>4, <2>2, FailureApplies DEF Observed
  <2>3. CASE result.class = "excluded"
    BY <1>1, <1>4, <2>3 DEF Observed
  <2> QED  BY <2>1, <2>2, <2>3 DEF Results
<1> QED  BY <1>2, <1>3, <1>4
-----------------------------------------------------------------------------
(* The steps                                                               *)

LEMMA Bounded ==
  ASSUME NEW a \in SUBSET Tokens, NEW b \in SUBSET a,
         Cardinality(a) <= MaxConcurrent
  PROVE  Cardinality(b) <= MaxConcurrent
<1>1. IsFiniteSet(a) /\ Cardinality(a) \in Nat
  BY TokensFinite, FS_Subset, FS_CardinalityType
<1>2. Cardinality(b) <= Cardinality(a) /\ Cardinality(b) \in Nat
  BY <1>1, FS_Subset, FS_CardinalityType
<1> QED  BY <1>1, <1>2, Policy

(* Callers that lose their lease, or have outlived it, leave room.         *)
LEMMA FewerProbe ==
  ASSUME ProbesBounded,
         \A d \in Callers : d \notin late' /\ call'[d].leaseIn > 0
                              => d \notin late /\ call[d].leaseIn > 0
  PROVE  ProbesBounded'
<1> DEFINE S == {d \in Callers \ late : call[d].leaseIn > 0}
           R == {d \in Callers \ late' : call'[d].leaseIn > 0}
<1>1. IsFiniteSet(S) /\ Cardinality(S) \in Nat
  BY CallersAssumption, FS_Subset, FS_CardinalityType
<1>2. R \in SUBSET S
  OBVIOUS
<1>3. Cardinality(R) <= Cardinality(S) /\ Cardinality(R) \in Nat
  BY <1>1, <1>2, FS_Subset, FS_CardinalityType
<1>4. Cardinality(S) <= MaxConcurrent
  BY DEF ProbesBounded
<1>5. Cardinality(R) <= MaxConcurrent
  BY <1>1, <1>3, <1>4, Policy
<1> QED  BY <1>5 DEF ProbesBounded

LEMMA CallFields ==
  ASSUME TypeOK, NEW d \in Callers
  PROVE  /\ call[d].busy \in BOOLEAN /\ call[d].token \in {0} \cup Tokens
         /\ call[d].leaseIn \in 0 .. ProbeLease
         /\ call[d].leaseIn \in Nat /\ call[d].gen \in Nat
<1>1. call[d] \in [busy : BOOLEAN, token : {0} \cup Tokens, gen : Nat,
                   leaseIn : 0 .. ProbeLease]
  BY DEF TypeOK
<1>2. \A n \in 0 .. ProbeLease : n \in Nat
  BY Policy
<1> QED  BY <1>1, <1>2

LEMMA NoProbeCalls ==
  ASSUME NEW n \in {NoCall, [NoCall EXCEPT !.busy = TRUE]}
  PROVE  /\ n.token = 0 /\ n.leaseIn = 0 /\ (~n.busy => n = NoCall)
         /\ n \in [busy : BOOLEAN, token : {0} \cup Tokens, gen : Nat,
                   leaseIn : 0 .. ProbeLease]
<1>1. 0 \in 0 .. ProbeLease
  BY Policy
<1>2. NoCall \in [busy : BOOLEAN, token : {0} \cup Tokens, gen : Nat,
                 leaseIn : 0 .. ProbeLease]
  BY <1>1 DEF NoCall
<1>3. [NoCall EXCEPT !.busy = TRUE] \in
        [busy : BOOLEAN, token : {0} \cup Tokens, gen : Nat,
         leaseIn : 0 .. ProbeLease]
  BY <1>2, Zenon
<1>4. n.token = 0 /\ n.leaseIn = 0 /\ (~n.busy => n = NoCall)
  BY DEF NoCall
<1> QED  BY <1>2, <1>3, <1>4

(* A call ends, whatever came of it. *)
LEMMA EndStep ==
  ASSUME IndInv, NEW c \in Callers, Ends(c),
         circuit' \in Circuit, circuit'.openIn <= circuit'.expiresIn,
         Stays(c) \/ Opens \/ Closes(c),
         Opens => late' = {d \in Callers \ {c} : call[d].busy},
         ~Opens => late' = late \ {c},
         recent' \in [1 .. FailureThreshold -> 0 .. Window], faults' \in 0 .. MaxFaults
  PROVE  IndInv'
<1> USE DEF IndInv
<1>1. call' = [call EXCEPT ![c] = NoCall] /\ call[c].busy
  BY DEF Ends
<1>2. /\ call'[c] = NoCall
      /\ \A d \in Callers \ {c} : call'[d] = call[d]
  BY <1>1 DEF TypeOK
<1>3. /\ probes' \in [Tokens -> {NoProbe} \cup 0 .. ProbeLease]
      /\ \A t \in Tokens : probes'[t] \in {probes[t], NoProbe}
  BY DEF TypeOK, Stays, Opens, Closes, Without, NoProbes, IsProbe
<1>4. /\ circuit'.expiresIn >= circuit.expiresIn
      /\ circuit'.gen >= circuit.gen
  <2>1. circuit \in Circuit
    BY CircuitType
  <2>2. CASE Stays(c)
    BY <2>1, <2>2, CircuitFields DEF Stays
  <2>3. CASE Opens
    BY <2>1, <2>3, CircuitFields, Policy DEF Opens
  <2>4. CASE Closes(c)
    <3>1. circuit'.gen = circuit.gen + 1 /\ circuit'.expiresIn = StateTTL
      BY <2>1, <2>4, ResetIs DEF Closes
    <3> QED  BY <2>1, <3>1, CircuitFields, Policy
  <2> QED  BY <2>2, <2>3, <2>4
<1>5. TypeOK'
  <2>1. call' \in [Callers -> [busy : BOOLEAN, token : {0} \cup Tokens,
                               gen : Nat, leaseIn : 0 .. ProbeLease]]
    <3>1. NoCall \in [busy : BOOLEAN, token : {0} \cup Tokens,
                      gen : Nat, leaseIn : 0 .. ProbeLease]
      BY Policy DEF NoCall
    <3> QED  BY <1>1, <3>1 DEF TypeOK
  <2>2. late' \subseteq {d \in Callers : call'[d].busy}
    BY <1>2 DEF TypeOK
  <2> QED  BY <1>3, <2>1, <2>2 DEF TypeOK, Circuit
<1>6. LiveBounded'
  <2>1. Live(probes) \in SUBSET Tokens /\ Live(probes') \in SUBSET Live(probes)
    BY <1>3 DEF Live
  <2> QED  BY <2>1, Bounded DEF LiveBounded
<1>7. OwnProbes'
  <2> SUFFICES ASSUME NEW d \in Callers, d # c, call'[d].token # 0
               PROVE  probes'[call'[d].token] \in {NoProbe, call'[d].leaseIn}
    BY <1>2 DEF OwnProbes, NoCall
  <2>1. call'[d] = call[d] /\ call[d].token \in Tokens
    BY <1>2 DEF TypeOK
  <2> QED  BY <1>3, <2>1 DEF OwnProbes
<1>8. DistinctTokens'
  BY <1>2 DEF DistinctTokens, NoCall
<1>9. Generations'
  <2> SUFFICES ASSUME NEW d \in Callers, call'[d].leaseIn > 0
               PROVE  /\ call'[d].leaseIn <= circuit'.expiresIn
                      /\ call'[d].gen <= circuit'.gen
                      /\ d \in late' => call'[d].gen < circuit'.gen
    BY DEF Generations
  <2>1. d # c /\ call'[d] = call[d]
    BY <1>2 DEF NoCall
  <2>2. /\ call[d].leaseIn \in Nat /\ call[d].gen \in Nat
        /\ circuit.gen \in Nat /\ circuit'.gen \in Nat
        /\ circuit.expiresIn \in Nat /\ circuit'.expiresIn \in Nat
    <3>1. call[d].leaseIn \in Nat /\ call[d].gen \in Nat
      BY CallFields
    <3>2. circuit \in Circuit /\ circuit' \in Circuit
      BY CircuitType
    <3> QED  BY <3>1, <3>2, CircuitFields, Policy
  <2>3. /\ call[d].leaseIn <= circuit.expiresIn
        /\ call[d].gen <= circuit.gen
        /\ d \in late => call[d].gen < circuit.gen
    BY <2>1 DEF Generations
  <2>4. CASE Opens
    BY <1>4, <2>1, <2>2, <2>3, <2>4 DEF Opens
  <2>5. CASE ~Opens
    BY <1>4, <2>1, <2>2, <2>3, <2>5
  <2> QED  BY <2>4, <2>5
<1>10. ASSUME NEW d \in Callers, d \notin late', call'[d].leaseIn > 0
       PROVE  d # c /\ ~Opens /\ d \notin late /\ call'[d] = call[d]
  <2>1. d # c /\ call'[d] = call[d]
    BY <1>2, <1>10 DEF NoCall
  <2>2. call[d].busy
    BY <1>10, <2>1 DEF OwnProbes, NoCall
  <2> QED  BY <1>10, <2>1, <2>2
<1>11. ProbesKept'
  <2> SUFFICES ASSUME circuit'.state # "CLOSED", NEW d \in Callers \ late',
                      call'[d].leaseIn > 0
               PROVE  probes'[call'[d].token] = call'[d].leaseIn
    BY DEF ProbesKept
  <2>1. d # c /\ ~Opens /\ d \notin late /\ call'[d] = call[d]
    BY <1>10
  <2>2. ~Closes(c)
    BY CircuitType, ResetIs DEF Closes
  <2>3. Stays(c)
    BY <2>1, <2>2
  <2>4. probes[call[d].token] = call[d].leaseIn
    BY <2>1, <2>3 DEF ProbesKept, Stays
  <2>5. call[d].token # 0 /\ call[d].token \in Tokens
    BY <2>1 DEF OwnProbes, TypeOK
  <2>6. call[d].token # call[c].token
    BY <2>1, <2>5 DEF DistinctTokens
  <2> QED  BY <2>1, <2>3, <2>4, <2>5, <2>6 DEF Stays, Without, TypeOK
<1>12. ProbesBounded'
  <2>1. \A d \in Callers : d \notin late' /\ call'[d].leaseIn > 0
                             => d \notin late /\ call[d].leaseIn > 0
    BY <1>10
  <2> QED  BY <2>1, FewerProbe
<1> QED  BY <1>5, <1>6, <1>7, <1>8, <1>9, <1>11, <1>12
(* A request for permission, whether or not its answer arrives.            *)
LEMMA AcquireStep ==
  ASSUME IndInv, NEW c \in Callers, ~call[c].busy, Acquired,
         call' = [call EXCEPT ![c] = Granted] \/ call' = call,
         late' = late, recent' = recent, faults' \in 0 .. MaxFaults
  PROVE  IndInv'
<1> DEFINE k == Reopenable(circuit)
<1>1. /\ k \in Circuit /\ k.gen = circuit.gen /\ k.openIn = circuit.openIn
      /\ k.expiresIn = circuit.expiresIn
      /\ k.state \in {circuit.state, "HALF_OPEN"}
      /\ k.state = "CLOSED" <=> circuit.state = "CLOSED"
  <2>1. CASE circuit.state = "OPEN" /\ circuit.openIn = 0
    <3>1. k = [circuit EXCEPT !.state = "HALF_OPEN"]
      BY <2>1 DEF Reopenable
    <3>2. k \in Circuit
      BY <3>1, CircuitType, Zenon DEF Circuit, IndInv
    <3> QED  BY <2>1, <3>1, <3>2, CircuitType DEF Circuit, IndInv
  <2>2. CASE ~(circuit.state = "OPEN" /\ circuit.openIn = 0)
    BY <2>2, CircuitType DEF Reopenable, IndInv
  <2> QED  BY <2>1, <2>2
<1>2. /\ circuit' \in Circuit /\ circuit'.state = k.state
      /\ circuit'.gen = k.gen /\ circuit'.openIn = k.openIn
      /\ circuit'.expiresIn >= k.expiresIn
      /\ k.state = "HALF_OPEN" => circuit'.expiresIn = StateTTL
  <2>1. circuit' = Touched(k)
    BY DEF Acquired
  <2>2. CASE k = Fresh
    <3>1. circuit' = Fresh
      BY <2>1, <2>2 DEF Touched
    <3>2. k.state = "CLOSED"
      BY <2>2 DEF Fresh
    <3> QED  BY <1>1, <2>2, <3>1, <3>2, CircuitFields
  <2>3. CASE k # Fresh
    <3> HIDE DEF k
    <3>1. circuit' = [k EXCEPT !.expiresIn = StateTTL]
      BY <2>1, <2>3 DEF Touched
    <3>2. StateTTL \in 0 .. StateTTL
      BY Policy
    <3>3. circuit' \in Circuit
      BY <1>1, <3>1, <3>2, Zenon DEF Circuit
    <3>4. /\ circuit'.state = k.state /\ circuit'.gen = k.gen
          /\ circuit'.openIn = k.openIn /\ circuit'.expiresIn = StateTTL
      BY <1>1, <3>1 DEF Circuit
    <3> QED  BY <1>1, <3>3, <3>4, CircuitFields
  <2> QED  BY <2>2, <2>3
<1>3. /\ circuit'.openIn <= circuit'.expiresIn
      /\ circuit'.expiresIn >= circuit.expiresIn
      /\ circuit'.gen = circuit.gen
  <2>1. circuit.openIn <= circuit.expiresIn
    BY CircuitType DEF IndInv
  <2> HIDE DEF k
  <2> QED  BY <1>1, <1>2, <2>1, CircuitFields
<1>4. /\ Purged \in [Tokens -> {NoProbe} \cup 0 .. ProbeLease]
      /\ \A t \in Tokens : Purged[t] \in {probes[t], NoProbe}
      /\ \A t \in Tokens : probes[t] # 0 => Purged[t] = probes[t]
      /\ Live(Purged) \in SUBSET Live(probes)
  BY DEF Purged, Live, IndInv, TypeOK
<1>5. Live(probes) \in SUBSET Tokens /\ Cardinality(Live(Purged)) <= MaxConcurrent
  <2>1. Live(probes) \in SUBSET Tokens
    BY DEF Live
  <2> QED  BY <1>4, <2>1, Bounded DEF IndInv, LiveBounded
<1>6. ASSUME NEW d \in Callers, call[d].token # 0
      PROVE  /\ call[d].token \in Tokens
             /\ Purged[call[d].token] \in {NoProbe, call[d].leaseIn}
             /\ call[d].leaseIn > 0 /\ probes[call[d].token] = call[d].leaseIn
                  => Purged[call[d].token] = call[d].leaseIn
  <2>1. call[d].token \in Tokens
    BY <1>6, CallFields DEF IndInv
  <2> QED  BY <1>4, <1>6, <2>1 DEF IndInv, OwnProbes
<1>7. ASSUME NEW d \in Callers, call[d].leaseIn > 0
      PROVE  call[d].token # 0
  BY <1>7 DEF IndInv, OwnProbes
<1>8. CASE ~(k.state = "HALF_OPEN" /\ UnderLimit)
  <2>1. probes' = Purged
    BY <1>8 DEF Acquired
  <2>2. PICK n \in {NoCall, [NoCall EXCEPT !.busy = TRUE], call[c]} :
          call' = [call EXCEPT ![c] = n]
    <3>1. CASE call' = [call EXCEPT ![c] = Granted]
      BY <1>8, <3>1 DEF Granted
    <3>2. CASE call' = call
      BY <3>2 DEF IndInv, TypeOK
    <3> QED  BY <3>1, <3>2
  <2>3. call[c] = NoCall
    BY DEF IndInv, OwnProbes
  <2>4. n.token = 0 /\ n.leaseIn = 0 /\ (~n.busy => n = NoCall)
        /\ n \in [busy : BOOLEAN, token : {0} \cup Tokens, gen : Nat,
                  leaseIn : 0 .. ProbeLease]
    BY <2>2, <2>3, NoProbeCalls
  <2>5. call'[c] = n /\ \A d \in Callers \ {c} : call'[d] = call[d]
    BY <2>2 DEF IndInv, TypeOK
  <2>6. TypeOK'
    <3>1. call' \in [Callers -> [busy : BOOLEAN, token : {0} \cup Tokens,
                                 gen : Nat, leaseIn : 0 .. ProbeLease]]
      BY <2>2, <2>4 DEF IndInv, TypeOK
    <3>2. late' \subseteq {d \in Callers : call'[d].busy}
      BY <2>5 DEF IndInv, TypeOK
    <3> QED  BY <1>2, <1>3, <1>4, <2>1, <3>1, <3>2 DEF IndInv, TypeOK, Circuit
  <2>7. LiveBounded'
    BY <1>5, <2>1 DEF LiveBounded, Live
  <2>8. OwnProbes'
    BY <1>6, <2>1, <2>4, <2>5 DEF IndInv, OwnProbes
  <2>9. DistinctTokens'
    BY <2>4, <2>5 DEF IndInv, DistinctTokens
  <2>10. Generations'
    <3> SUFFICES ASSUME NEW d \in Callers, call'[d].leaseIn > 0
                 PROVE  /\ call'[d].leaseIn <= circuit'.expiresIn
                        /\ call'[d].gen <= circuit'.gen
                        /\ d \in late' => call'[d].gen < circuit'.gen
      BY DEF Generations
    <3>1. d # c /\ call'[d] = call[d]
      BY <2>4, <2>5
    <3>2. /\ circuit'.expiresIn \in Nat /\ circuit.expiresIn \in Nat
      BY <1>2, CircuitType, CircuitFields, Policy DEF IndInv
    <3> QED  BY <1>3, <3>1, <3>2, CallFields DEF IndInv, Generations
  <2>11. ProbesKept'
    BY <1>1, <1>2, <1>6, <1>7, <2>1, <2>4, <2>5 DEF IndInv, ProbesKept
  <2>12. ProbesBounded'
    BY <2>4, <2>5, FewerProbe DEF IndInv
  <2> QED  BY <2>6, <2>7, <2>8, <2>9, <2>10, <2>11, <2>12 DEF IndInv
<1>9. CASE k.state = "HALF_OPEN" /\ UnderLimit
  <2> DEFINE g == [busy |-> TRUE, token |-> Token, gen |-> k.gen,
                   leaseIn |-> ProbeLease]
  <2>1. /\ Token \in Tokens /\ Token \notin Live(Purged)
        /\ \A d \in Callers : call[d].token # Token
    BY <1>9, TokenFree DEF IndInv
  <2>2. probes' = [Purged EXCEPT ![Token] = ProbeLease]
    BY <1>9 DEF Acquired
  <2>3. call' = [call EXCEPT ![c] = g] \/ call' = call
    BY <1>9 DEF Granted
  <2>4. Token # 0 /\ 0 < ProbeLease /\ ProbeLease \in 0 .. ProbeLease
    BY <2>1, TokensFinite, Policy
  <2>5. g \in [busy : BOOLEAN, token : {0} \cup Tokens, gen : Nat,
               leaseIn : 0 .. ProbeLease]
    BY <1>1, <2>1, <2>4, CircuitFields
  <2>6. g.token = Token /\ g.leaseIn = ProbeLease /\ g.gen = k.gen /\ g.busy
    OBVIOUS
  <2> HIDE DEF g
  <2>7. \A d \in Callers :
          call'[d] = call[d] \/ (d = c /\ call'[d] = g)
    BY <2>3 DEF IndInv, TypeOK
  <2>8. /\ probes' \in [Tokens -> {NoProbe} \cup 0 .. ProbeLease]
        /\ probes'[Token] = ProbeLease
        /\ \A t \in Tokens \ {Token} : probes'[t] = Purged[t]
    BY <1>4, <2>1, <2>2, <2>4
  <2>9. TypeOK'
    <3>1. call' \in [Callers -> [busy : BOOLEAN, token : {0} \cup Tokens,
                                 gen : Nat, leaseIn : 0 .. ProbeLease]]
      BY <2>3, <2>5 DEF IndInv, TypeOK
    <3>2. late' \subseteq {d \in Callers : call'[d].busy}
      BY <2>6, <2>7 DEF IndInv, TypeOK
    <3> QED  BY <1>2, <1>3, <2>8, <3>1, <3>2 DEF IndInv, TypeOK, Circuit
  <2>10. LiveBounded'
    <3>1. Live(probes') = Live(Purged) \cup {Token}
      BY <2>1, <2>4, <2>8 DEF Live, NoProbe
    <3>2. IsFiniteSet(Live(Purged)) /\ Cardinality(Live(Purged)) \in Nat
      BY <1>4, <1>5, TokensFinite, FS_Subset, FS_CardinalityType
    <3>3. Cardinality(Live(Purged) \cup {Token}) = Cardinality(Live(Purged)) + 1
      BY <2>1, <3>2, FS_AddElement
    <3>4. Cardinality(Live(Purged)) < MaxConcurrent
      BY <1>9 DEF UnderLimit
    <3>5. Cardinality(Live(probes')) <= MaxConcurrent
      BY <3>1, <3>2, <3>3, <3>4, Policy
    <3> QED  BY <3>5 DEF LiveBounded, Live
  <2>11. OwnProbes'
    <3> SUFFICES ASSUME NEW d \in Callers
                 PROVE  /\ ~call'[d].busy => call'[d] = NoCall
                        /\ call'[d].token = 0 => call'[d].leaseIn = 0
                        /\ call'[d].token # 0 =>
                             probes'[call'[d].token] \in {NoProbe, call'[d].leaseIn}
      BY DEF OwnProbes
    <3>1. CASE call'[d] = call[d]
      BY <1>6, <2>1, <2>8, <3>1 DEF IndInv, OwnProbes
    <3>2. CASE call'[d] = g
      BY <2>4, <2>6, <2>8, <3>2
    <3> QED  BY <2>7, <3>1, <3>2
  <2>12. DistinctTokens'
    BY <2>1, <2>6, <2>7 DEF IndInv, DistinctTokens
  <2>13. Generations'
    <3> SUFFICES ASSUME NEW d \in Callers, call'[d].leaseIn > 0
                 PROVE  /\ call'[d].leaseIn <= circuit'.expiresIn
                        /\ call'[d].gen <= circuit'.gen
                        /\ d \in late' => call'[d].gen < circuit'.gen
      BY DEF Generations
    <3>1. /\ circuit'.expiresIn \in Nat /\ circuit.expiresIn \in Nat
          /\ circuit'.gen \in Nat
      BY <1>2, CircuitType, CircuitFields, Policy DEF IndInv
    <3>2. CASE call'[d] = call[d]
      BY <1>3, <3>1, <3>2, CallFields DEF IndInv, Generations
    <3>3. CASE d = c /\ call'[d] = g
      <4>1. c \notin late'
        BY DEF IndInv, TypeOK
      <4> QED  BY <1>2, <1>9, <2>6, <3>1, <3>3, <4>1, Policy
    <3> QED  BY <2>7, <3>2, <3>3
  <2>14. ProbesKept'
    <3> SUFFICES ASSUME NEW d \in Callers \ late', call'[d].leaseIn > 0
                 PROVE  probes'[call'[d].token] = call'[d].leaseIn
      BY DEF ProbesKept
    <3>1. CASE call'[d] = call[d]
      <4>1. probes[call[d].token] = call[d].leaseIn
        BY <1>1, <1>9, <3>1 DEF IndInv, ProbesKept
      <4> QED  BY <1>6, <1>7, <2>1, <2>8, <3>1, <4>1
    <3>2. CASE call'[d] = g
      BY <2>6, <2>8, <3>2
    <3> QED  BY <2>7, <3>1, <3>2
  <2>15. ProbesBounded'
    <3> DEFINE S == {d \in Callers \ late' : call'[d].leaseIn > 0}
               f == [d \in S |-> call'[d].token]
    <3>1. ASSUME NEW d \in S
          PROVE  call'[d].token \in Live(probes') /\ call'[d].token # 0
      <4>1. call'[d].token # 0 /\ call'[d].token \in Tokens
        BY <2>9, <2>11 DEF TypeOK, OwnProbes
      <4>2. probes'[call'[d].token] = call'[d].leaseIn
        BY <1>2, <1>9, <2>14 DEF ProbesKept
      <4>3. call'[d].leaseIn # NoProbe
        <5>1. call'[d].leaseIn \in 0 .. ProbeLease
          <6>1. d \in Callers
            OBVIOUS
          <6>2. call' \in [Callers -> [busy : BOOLEAN, token : {0} \cup Tokens,
                                       gen : Nat, leaseIn : 0 .. ProbeLease]]
            BY <2>9, Zenon DEF TypeOK
          <6> HIDE DEF S, f
          <6> QED  BY <6>1, <6>2
        <5> HIDE DEF S, f
        <5> QED  BY <5>1, Policy DEF NoProbe
      <4> QED  BY <4>1, <4>2, <4>3 DEF Live
    <3>2. f \in [S -> Live(probes')]
      BY <3>1
    <3>3. \A x, y \in S : f[x] = f[y] => x = y
      BY <2>12, <3>1 DEF DistinctTokens
    <3>4. IsFiniteSet(Live(probes')) /\ Live(probes') \in SUBSET Tokens
      BY TokensFinite, FS_Subset DEF Live
    <3> HIDE DEF S, f
    <3>5. IsFiniteSet(S) /\ Cardinality(S) <= Cardinality(Live(probes'))
      BY <3>2, <3>3, <3>4, InjectionBound
    <3>6. Cardinality(S) \in Nat /\ Cardinality(Live(probes')) \in Nat
      BY <3>4, <3>5, FS_CardinalityType
    <3>7. Cardinality(Live(probes')) <= MaxConcurrent
      BY <2>10 DEF LiveBounded, Live
    <3>8. Cardinality(S) <= MaxConcurrent
      BY <3>5, <3>6, <3>7, Policy
    <3> QED  BY <3>8 DEF S, ProbesBounded
  <2> QED  BY <2>9, <2>10, <2>11, <2>12, <2>13, <2>14, <2>15 DEF IndInv
<1> QED  BY <1>8, <1>9
(* Time passes.  When the state key expires no lease is left of those      *)
(* granted under it.                                                       *)
LEMMA TickStep ==
  ASSUME IndInv, Tick
  PROVE  IndInv'
<1>1. /\ \A n \in Nat : Earlier(n) \in Nat /\ Earlier(n) <= n
                        /\ (n > 0 => Earlier(n) = n - 1)
      /\ Earlier(0) = 0 /\ Earlier(NoProbe) = NoProbe
      /\ \A m \in Nat : \A n \in 0 .. m : Earlier(n) \in 0 .. m
  BY DEF Earlier, NoProbe
<1>2. /\ circuit' \in Circuit /\ circuit'.openIn <= circuit'.expiresIn
      /\ \/ circuit' = Fresh /\ circuit.expiresIn = 1
         \/ /\ circuit'.state = circuit.state /\ circuit'.gen = circuit.gen
            /\ circuit'.expiresIn = Earlier(circuit.expiresIn)
  <2>1. CASE circuit.expiresIn = 1
    <3>1. circuit' = Fresh
      BY <2>1 DEF Tick
    <3>2. Fresh.openIn = 0 /\ Fresh.expiresIn = 0
      BY DEF Fresh
    <3> QED  BY <2>1, <3>1, <3>2, FreshType
  <2>2. CASE circuit.expiresIn # 1
    <3> DEFINE w == Earlier(circuit.windowIn)
               o == Earlier(circuit.openIn)
               e == Earlier(circuit.expiresIn)
    <3>1. /\ circuit \in Circuit /\ circuit.openIn <= circuit.expiresIn
      BY CircuitType DEF IndInv
    <3>2. w \in 0 .. Window /\ o \in 0 .. StateTTL /\ e \in 0 .. StateTTL
      BY <1>1, <3>1, CircuitFields, Policy
    <3>3. o <= e
      BY <3>1, CircuitFields, Policy DEF Earlier
    <3>4. circuit' = [circuit EXCEPT !.windowIn = w, !.openIn = o, !.expiresIn = e]
      BY <2>2 DEF Tick
    <3> HIDE DEF w, o
    <3>5. circuit' \in Circuit
      <4> HIDE DEF e
      <4> QED  BY <3>1, <3>2, <3>4, Zenon DEF Circuit
    <3>6. /\ circuit'.state = circuit.state /\ circuit'.gen = circuit.gen
          /\ circuit'.openIn = o /\ circuit'.expiresIn = e
      BY <3>1, <3>4 DEF Circuit
    <3> QED  BY <3>3, <3>5, <3>6
  <2> QED  BY <2>1, <2>2
<1>3. /\ probes' = [t \in Tokens |-> Earlier(probes[t])]
      /\ probes' \in [Tokens -> {NoProbe} \cup 0 .. ProbeLease]
  <2>1. probes' = [t \in Tokens |-> Earlier(probes[t])]
    BY DEF Tick
  <2>2. \A t \in Tokens : Earlier(probes[t]) \in {NoProbe} \cup 0 .. ProbeLease
    BY <1>1, Policy DEF IndInv, TypeOK
  <2> QED  BY <2>1, <2>2
<1>4. \A d \in Callers :
        /\ call'[d].busy = call[d].busy /\ call'[d].token = call[d].token
        /\ call'[d].gen = call[d].gen
        /\ call'[d].leaseIn = Earlier(call[d].leaseIn)
        /\ call'[d] \in [busy : BOOLEAN, token : {0} \cup Tokens, gen : Nat,
                         leaseIn : 0 .. ProbeLease]
        /\ call[d] = NoCall => call'[d] = NoCall
  <2> TAKE d \in Callers
  <2> DEFINE e == Earlier(call[d].leaseIn)
  <2>1. call'[d] = [call[d] EXCEPT !.leaseIn = e]
    BY DEF Tick
  <2>2. call[d] \in [busy : BOOLEAN, token : {0} \cup Tokens, gen : Nat,
                     leaseIn : 0 .. ProbeLease]
    BY DEF IndInv, TypeOK
  <2>3. e \in 0 .. ProbeLease
    BY <1>1, CallFields, Policy DEF IndInv
  <2>4. call[d] = NoCall => e = 0
    BY <1>1 DEF NoCall
  <2> HIDE DEF e
  <2>5. call[d] = NoCall => call'[d] = NoCall
    BY <2>1, <2>4 DEF NoCall
  <2>6. call'[d] \in [busy : BOOLEAN, token : {0} \cup Tokens, gen : Nat,
                      leaseIn : 0 .. ProbeLease]
    BY <2>1, <2>2, <2>3, Zenon
  <2>7. /\ call'[d].busy = call[d].busy /\ call'[d].token = call[d].token
        /\ call'[d].gen = call[d].gen /\ call'[d].leaseIn = e
    BY <2>1, <2>2
  <2> QED  BY <2>5, <2>6, <2>7 DEF e
<1>5. late' = late
  BY DEF Tick
<1>6. TypeOK'
  <2>1. call' \in [Callers -> [busy : BOOLEAN, token : {0} \cup Tokens,
                               gen : Nat, leaseIn : 0 .. ProbeLease]]
    BY <1>4 DEF Tick
  <2>2. late' \subseteq {d \in Callers : call'[d].busy}
    <3>1. late \subseteq {d \in Callers : call[d].busy}
      BY DEF IndInv, TypeOK
    <3>2. \A d \in Callers : call'[d].busy = call[d].busy
      BY <1>4
    <3> QED  BY <1>5, <3>1, <3>2, Zenon
  <2>3. recent' \in [1 .. FailureThreshold -> 0 .. Window]
    <3>1. recent \in [1 .. FailureThreshold -> 0 .. Window] /\ Window \in Nat
      BY Policy DEF IndInv, TypeOK
    <3>2. recent' = [n \in 1 .. FailureThreshold |-> Earlier(recent[n])]
      BY DEF Tick
    <3>3. ASSUME NEW n \in 1 .. FailureThreshold
          PROVE  Earlier(recent[n]) \in 0 .. Window
      BY <1>1, <3>1
    <3> QED  BY <3>2, <3>3, Zenon
  <2>4. faults' \in 0 .. MaxFaults
    <3>1. faults \in 0 .. MaxFaults
      BY DEF IndInv, TypeOK
    <3>2. Fault \/ UNCHANGED faults
      BY DEF Tick
    <3> QED  BY <3>1, <3>2, FaultsAssumption DEF Fault
  <2> QED  BY <1>2, <1>3, <2>1, <2>2, <2>3, <2>4 DEF TypeOK, Circuit
<1>7. LiveBounded'
  <2>1. Live(probes) \in SUBSET Tokens /\ Live(probes') \in SUBSET Live(probes)
    BY <1>1, <1>3 DEF Live
  <2>2. Cardinality(Live(probes')) <= MaxConcurrent
    BY <2>1, Bounded DEF IndInv, LiveBounded
  <2> QED  BY <2>2 DEF LiveBounded, Live
<1>8. ASSUME NEW d \in Callers, call[d].token # 0
      PROVE  /\ call[d].token \in Tokens
             /\ probes'[call[d].token] = Earlier(probes[call[d].token])
  BY <1>3, <1>8, CallFields DEF IndInv
<1>9. OwnProbes'
  <2> SUFFICES ASSUME NEW d \in Callers
               PROVE  /\ ~call'[d].busy => call'[d] = NoCall
                      /\ call'[d].token = 0 => call'[d].leaseIn = 0
                      /\ call'[d].token # 0 =>
                           probes'[call'[d].token] \in {NoProbe, call'[d].leaseIn}
    BY DEF OwnProbes
  <2>1. /\ ~call[d].busy => call[d] = NoCall
        /\ call[d].token = 0 => call[d].leaseIn = 0
        /\ call[d].token # 0 => probes[call[d].token] \in {NoProbe, call[d].leaseIn}
    BY DEF IndInv, OwnProbes
  <2> QED  BY <1>1, <1>4, <1>8, <2>1
<1>10. DistinctTokens'
  BY <1>4 DEF IndInv, DistinctTokens
<1>11. ASSUME NEW d \in Callers, call'[d].leaseIn > 0
       PROVE  /\ call[d].leaseIn > 1 /\ call[d].leaseIn <= circuit.expiresIn
              /\ circuit'.gen = circuit.gen /\ circuit'.state = circuit.state
              /\ circuit'.expiresIn = circuit.expiresIn - 1
              /\ call'[d].leaseIn = call[d].leaseIn - 1
  <2>1. call[d].leaseIn \in Nat /\ circuit.expiresIn \in Nat
    BY CallFields, CircuitType, CircuitFields, Policy DEF IndInv
  <2>2. call[d].leaseIn > 1 /\ call'[d].leaseIn = call[d].leaseIn - 1
    BY <1>4, <1>11, <2>1 DEF Earlier
  <2>3. call[d].leaseIn <= circuit.expiresIn
    BY <2>1, <2>2 DEF IndInv, Generations
  <2> QED  BY <1>1, <1>2, <2>1, <2>2, <2>3
<1>12. Generations'
  <2> SUFFICES ASSUME NEW d \in Callers, call'[d].leaseIn > 0
               PROVE  /\ call'[d].leaseIn <= circuit'.expiresIn
                      /\ call'[d].gen <= circuit'.gen
                      /\ d \in late' => call'[d].gen < circuit'.gen
    BY DEF Generations
  <2>1. call[d].leaseIn \in Nat /\ circuit.expiresIn \in Nat
    BY CallFields, CircuitType, CircuitFields, Policy DEF IndInv
  <2>2. call[d].gen <= circuit.gen /\ (d \in late => call[d].gen < circuit.gen)
    BY <1>11, <2>1 DEF IndInv, Generations
  <2> QED  BY <1>4, <1>5, <1>11, <2>1, <2>2
<1>13. ProbesKept'
  <2> SUFFICES ASSUME circuit'.state # "CLOSED", NEW d \in Callers \ late',
                      call'[d].leaseIn > 0
               PROVE  probes'[call'[d].token] = call'[d].leaseIn
    BY DEF ProbesKept
  <2>1. call[d].leaseIn \in Nat /\ call[d].leaseIn > 0
    BY <1>11, CallFields DEF IndInv
  <2>2. probes[call[d].token] = call[d].leaseIn /\ call[d].token # 0
    BY <1>5, <1>11, <2>1 DEF IndInv, ProbesKept, OwnProbes
  <2> QED  BY <1>4, <1>8, <2>2
<1>14. ProbesBounded'
  <2>1. \A d \in Callers : d \notin late' /\ call'[d].leaseIn > 0
                             => d \notin late /\ call[d].leaseIn > 0
    <3> TAKE d \in Callers
    <3> QED  BY <1>5, <1>11, CallFields DEF IndInv
  <2> QED  BY <2>1, FewerProbe DEF IndInv
<1> QED  BY <1>6, <1>7, <1>9, <1>10, <1>12, <1>13, <1>14 DEF IndInv

LEMMA IndInit == Init => IndInv
<1> SUFFICES ASSUME Init PROVE IndInv
  OBVIOUS
<1>1. /\ circuit = Fresh /\ probes = [t \in Tokens |-> NoProbe]
      /\ call = [d \in Callers |-> NoCall] /\ late = {}
      /\ recent = [n \in 1 .. FailureThreshold |-> 0] /\ faults = 0
  BY DEF Init
<1>2. Fresh.openIn = 0 /\ Fresh.expiresIn = 0 /\ Fresh.state = "CLOSED"
  BY DEF Fresh
<1>3. /\ NoCall.token = 0 /\ NoCall.leaseIn = 0 /\ ~NoCall.busy
      /\ NoCall \in [busy : BOOLEAN, token : {0} \cup Tokens, gen : Nat,
                     leaseIn : 0 .. ProbeLease]
  BY NoProbeCalls DEF NoCall
<1>4. TypeOK
  <2>1. recent \in [1 .. FailureThreshold -> 0 .. Window]
    BY <1>1, Policy
  <2> QED
    BY <1>1, <1>2, <1>3, <2>1, FreshType, FaultsAssumption DEF TypeOK, Circuit
<1>5. LiveBounded
  <2>1. Live(probes) = {}
    BY <1>1 DEF Live
  <2> QED  BY <2>1, FS_EmptySet, Policy DEF LiveBounded
<1>6. ProbesBounded
  <2>1. {d \in Callers \ late : call[d].leaseIn > 0} = {}
    BY <1>1, <1>3
  <2> QED  BY <2>1, FS_EmptySet, Policy DEF ProbesBounded
<1>7. OwnProbes /\ DistinctTokens /\ Generations /\ ProbesKept
  BY <1>1, <1>2, <1>3 DEF OwnProbes, DistinctTokens, Generations, ProbesKept
<1> QED  BY <1>4, <1>5, <1>6, <1>7 DEF IndInv

(* The newest failure is remembered last, the oldest one is forgotten.     *)
LEMMA RememberedIs ==
  ASSUME recent \in [1 .. FailureThreshold -> 0 .. Window]
  PROVE  /\ Remembered \in [1 .. FailureThreshold -> 0 .. Window]
         /\ \A n \in 1 .. FailureThreshold :
              Remembered[n] = IF n = FailureThreshold THEN Window ELSE recent[n + 1]
<1>1. ASSUME NEW n \in 1 .. FailureThreshold
      PROVE  (IF n = FailureThreshold THEN Window ELSE recent[n + 1]) \in 0 .. Window
  <2>1. n # FailureThreshold => n + 1 \in 1 .. FailureThreshold
    BY Policy
  <2> QED  BY <2>1, Policy
<1> QED  BY <1>1, Zenon DEF Remembered

LEMMA IndStep == IndInv /\ [Next]_vars => IndInv'
<1> SUFFICES ASSUME IndInv, [Next]_vars PROVE IndInv'
  OBVIOUS
<1>0. /\ faults \in 0 .. MaxFaults
      /\ recent \in [1 .. FailureThreshold -> 0 .. Window]
  BY DEF IndInv, TypeOK
<1>1. ASSUME NEW c \in Callers, Acquire(c)
      PROVE  IndInv'
  BY <1>0, <1>1, AcquireStep DEF Acquire
<1>2. Fault => faults' \in 0 .. MaxFaults
  BY <1>0, FaultsAssumption DEF Fault
<1>3. ASSUME NEW c \in Callers, AcquireUnanswered(c)
      PROVE  IndInv'
  BY <1>2, <1>3, AcquireStep DEF AcquireUnanswered
<1>4. ASSUME NEW c \in Callers, NEW result \in Results, Observe(c, result)
      PROVE  IndInv'
  <2>1. /\ Ends(c) /\ Observed(c, result)
        /\ late' = IF circuit'.gen # circuit.gen /\ circuit'.state = "OPEN"
                   THEN {d \in Callers \ {c} : call[d].busy}
                   ELSE late \ {c}
    BY <1>4 DEF Observe
  <2>2. /\ circuit' \in Circuit /\ circuit'.openIn <= circuit'.expiresIn
        /\ Stays(c) \/ Opens \/ Closes(c)
    BY <2>1, ObservedApplies DEF IndInv
  <2>3. Opens <=> circuit'.gen # circuit.gen /\ circuit'.state = "OPEN"
    <3>1. circuit \in Circuit
      BY CircuitType DEF IndInv
    <3>2. Closes(c) => circuit'.state = "CLOSED"
      BY <3>1, ResetIs DEF Closes
    <3>3. Stays(c) => circuit'.gen = circuit.gen
      BY DEF Stays
    <3>4. Opens => circuit'.gen # circuit.gen /\ circuit'.state = "OPEN"
      BY <3>1, CircuitFields DEF Opens
    <3> QED  BY <2>2, <3>2, <3>3, <3>4
  <2>4. recent' \in [1 .. FailureThreshold -> 0 .. Window]
    <3>1. recent' \in {recent, Remembered}
      BY <1>4 DEF Observe
    <3>2. Remembered \in [1 .. FailureThreshold -> 0 .. Window]
      BY <1>0, RememberedIs
    <3> QED  BY <1>0, <3>1, <3>2
  <2>5. faults' \in 0 .. MaxFaults
    BY <1>0, <1>2, <1>4 DEF Observe
  <2> QED  BY <2>1, <2>2, <2>3, <2>4, <2>5, EndStep
<1>5. ASSUME NEW c \in Callers, Release(c) \/ Vanish(c)
      PROVE  IndInv'
  <2>1. /\ Ends(c) /\ late' = late \ {c} /\ recent' = recent /\ Fault
    BY <1>5 DEF Release, Vanish
  <2>2. \/ circuit' = Touched(circuit) /\ IsProbe(c) /\ probes' = Without(c)
        \/ circuit' = circuit /\ probes' = probes
    <3>1. CASE Release(c)
      <4>1. CASE IsProbe(c) /\ Current(c)
        BY <3>1, <4>1 DEF Release
      <4>2. CASE ~(IsProbe(c) /\ Current(c))
        BY <3>1, <4>2 DEF Release
      <4> QED  BY <4>1, <4>2
    <3>2. CASE Vanish(c)
      BY <3>2 DEF Vanish
    <3> QED  BY <1>5, <3>1, <3>2
  <2>3. /\ circuit' \in Circuit /\ circuit'.openIn <= circuit'.expiresIn
        /\ Stays(c)
    <3>1. circuit \in Circuit /\ circuit.openIn <= circuit.expiresIn
      BY CircuitType DEF IndInv
    <3>2. circuit' = circuit \/ circuit' = [circuit EXCEPT !.expiresIn = StateTTL]
      BY <2>2 DEF Touched
    <3>3. StateTTL \in 0 .. StateTTL
      BY Policy
    <3>4. circuit' \in Circuit
      BY <3>1, <3>2, <3>3, Zenon DEF Circuit
    <3>5. /\ circuit'.state = circuit.state /\ circuit'.gen = circuit.gen
          /\ circuit'.openIn = circuit.openIn
          /\ circuit'.expiresIn \in {circuit.expiresIn, StateTTL}
      BY <3>1, <3>2 DEF Circuit
    <3> QED  BY <2>2, <3>1, <3>4, <3>5, CircuitFields, Policy DEF Stays
  <2>4. ~Opens
    <3>1. circuit.gen \in Nat
      BY CircuitType, CircuitFields DEF IndInv
    <3> QED  BY <2>3, <3>1 DEF Stays, Opens
  <2> QED  BY <1>0, <1>2, <2>1, <2>3, <2>4, EndStep
<1>6. CASE UNCHANGED vars
  BY <1>6 DEF vars, IndInv, TypeOK, LiveBounded, Live, OwnProbes,
              DistinctTokens, Generations, ProbesKept, ProbesBounded
<1> QED  BY <1>1, <1>3, <1>4, <1>5, <1>6, TickStep DEF Next

-----------------------------------------------------------------------------
(* The theorems                                                            *)

(* The circuit, its probes and the calls keep their shapes, and an open    *)
(* circuit never outlives its key before its deadline.                     *)
THEOREM TypeCorrect == Spec => []TypeOK
<1>1. IndInv => TypeOK  BY DEF IndInv
<1> QED  BY <1>1, IndInit, IndStep, PTL DEF Spec

(* However answers get lost, leases run out and the state key expires, the *)
(* calls that probe under a lease are no more than halfOpenMaxConcurrent.  *)
THEOREM ProbesAreBounded == Spec => []ProbesBounded
<1>1. IndInv => ProbesBounded  BY DEF IndInv
<1> QED  BY <1>1, IndInit, IndStep, PTL DEF Spec

(* What closes a half-open circuit is the success of a probe that was sent *)
(* since it last opened, or the expiry of its key.                         *)
THEOREM NewProbeCloses == Spec => ClosedByNewProbe
<1>1. ASSUME IndInv, [Next]_vars,
             circuit.state = "HALF_OPEN", circuit'.state = "CLOSED"
      PROVE  \/ circuit' = Fresh
             \/ \E c \in Callers \ late : call[c].leaseIn > 0 /\ ~call'[c].busy
  <2>0. circuit \in Circuit /\ TypeOK
    BY <1>1, CircuitType DEF IndInv
  <2>1. ASSUME NEW c \in Callers, Acquire(c) \/ AcquireUnanswered(c)
        PROVE  FALSE
    BY <1>1, <2>0, <2>1 DEF Acquire, AcquireUnanswered, Acquired, Touched,
       Reopenable, Circuit
  <2>2. ASSUME NEW c \in Callers, NEW result \in Results, Observe(c, result)
        PROVE  \E d \in Callers \ late : call[d].leaseIn > 0 /\ ~call'[d].busy
    <3>1. Stays(c) \/ Opens \/ Closes(c)
      BY <2>0, <2>2, ObservedApplies DEF Observe
    <3>2. Closes(c)
      BY <1>1, <3>1 DEF Stays, Opens
    <3>3. /\ call[c].token # 0 /\ call[c].gen = circuit.gen
          /\ probes[call[c].token] # NoProbe /\ probes[call[c].token] # 0
      BY <3>2 DEF Closes, IsProbe, Current
    <3>4. call[c].leaseIn # 0
      BY <1>1, <3>3 DEF IndInv, OwnProbes
    <3>5. call[c].leaseIn > 0
      BY <2>0, <3>4, CallFields
    <3>6. c \notin late
      <4>1. circuit.gen \in Nat /\ call[c].gen \in Nat
        BY <2>0, CallFields, CircuitFields
      <4> QED  BY <1>1, <3>3, <3>5, <4>1 DEF IndInv, Generations
    <3>7. ~call'[c].busy
      BY <2>0, <2>2 DEF Observe, Ends, NoCall, TypeOK
    <3> QED  BY <3>5, <3>6, <3>7
  <2>3. ASSUME NEW c \in Callers, Release(c) \/ Vanish(c)
        PROVE  FALSE
    BY <1>1, <2>0, <2>3 DEF Release, Vanish, Touched, Circuit
  <2>4. CASE Tick
    BY <1>1, <2>0, <2>4 DEF Tick, Circuit
  <2>5. CASE UNCHANGED vars
    BY <1>1, <2>5 DEF vars
  <2> QED  BY <1>1, <2>1, <2>2, <2>3, <2>4, <2>5 DEF Next
<1>2. IndInv /\ [Next]_vars =>
        [circuit.state = "HALF_OPEN" /\ circuit'.state = "CLOSED" =>
           \/ circuit' = Fresh
           \/ \E c \in Callers \ late : call[c].leaseIn > 0 /\ ~call'[c].busy]_vars
  BY <1>1
<1> QED  BY <1>2, IndInit, IndStep, PTL DEF Spec, ClosedByNewProbe

-----------------------------------------------------------------------------
(* The evidence on which a closed circuit opens.                           *)

(* While a window of the circuit runs, the failures that it counted are no *)
(* older than the window.                                                  *)
EvidenceIn(k, r) ==
  k.windowIn > 0 =>
    \A n \in 1 .. FailureThreshold :
      n > FailureThreshold - k.failures => r[n] >= k.windowIn

Evidence == EvidenceIn(circuit, recent)

(* What a counted result makes of the counters: a window that is over      *)
(* leaves nothing of its failures behind.                                  *)
LEMMA CountedWindow ==
  ASSUME NEW k \in Circuit, NEW n \in {0, 1}
  PROVE  /\ Counted(k, n).windowIn \in Nat /\ Counted(k, n).windowIn > 0
         /\ Counted(k, n).windowIn <= Window
         /\ \/ /\ k.windowIn > 0 /\ Counted(k, n).windowIn = k.windowIn
               /\ Counted(k, n).failures = Capped(k.failures + n, FailureThreshold)
            \/ /\ k.windowIn = 0 /\ Counted(k, n).windowIn = Window
               /\ Counted(k, n).failures = Capped(n, FailureThreshold)
<1> DEFINE w == Windowed(k)
<1>1. w \in Circuit
  BY WindowedKeeps
<1>2. /\ Counted(k, n).windowIn = w.windowIn
      /\ Counted(k, n).failures = Capped(w.failures + n, FailureThreshold)
  <2> HIDE DEF w
  <2>1. Counted(k, n) =
        [w EXCEPT !.failures = Capped(w.failures + n, FailureThreshold),
                  !.seen = Capped(w.seen + 1, MinimumObservations),
                  !.expiresIn = StateTTL]
    BY DEF Counted, w
  <2> QED  BY <1>1, <2>1 DEF Circuit
<1>3. CASE k.windowIn = 0
  <2>1. w = [k EXCEPT !.windowIn = Window, !.failures = 0, !.seen = 0]
    BY <1>3 DEF Windowed
  <2>2. w.windowIn = Window /\ w.failures = 0
    BY <2>1 DEF Circuit
  <2> QED  BY <1>2, <1>3, <2>2, Policy
<1>4. CASE k.windowIn # 0
  <2>1. w = k
    BY <1>4 DEF Windowed
  <2>2. k.windowIn \in 0 .. Window
    BY CircuitFields
  <2> QED  BY <1>2, <1>4, <2>1, <2>2, Policy
<1> QED  BY <1>3, <1>4

(* Evidence stays evidence when only the rest of the state key changes.    *)
LEMMA SameEvidence ==
  ASSUME Evidence, recent' = recent, circuit'.failures = circuit.failures,
         circuit'.windowIn = circuit.windowIn
  PROVE  Evidence'
BY DEF Evidence, EvidenceIn

(* Nor does opening the circuit touch what it counted.                     *)
LEMMA OpenedCounts ==
  ASSUME NEW k \in Circuit, NEW wait
  PROVE  /\ Opened(k, wait).failures = k.failures
         /\ Opened(k, wait).windowIn = k.windowIn
         /\ Opened(k, wait).state = "OPEN"
BY DEF Opened, Circuit

(* A success is no evidence, a failure is.                                 *)
LEMMA CountedEvidence ==
  ASSUME TypeOK, Evidence
  PROVE  /\ EvidenceIn(Counted(circuit, 0), recent)
         /\ EvidenceIn(Counted(circuit, 1), Remembered)
<1>1. /\ circuit \in Circuit /\ circuit.failures \in Nat
      /\ circuit.failures <= FailureThreshold /\ circuit.windowIn \in Nat
      /\ recent \in [1 .. FailureThreshold -> 0 .. Window]
  BY CircuitType, CircuitFields, Policy DEF TypeOK
<1>2. EvidenceIn(Counted(circuit, 0), recent)
  <2> DEFINE k == Counted(circuit, 0)
  <2>1. \/ /\ circuit.windowIn > 0 /\ k.windowIn = circuit.windowIn
           /\ k.failures = Capped(circuit.failures + 0, FailureThreshold)
        \/ k.failures = Capped(0, FailureThreshold)
    BY <1>1, CountedWindow
  <2> HIDE DEF k
  <2>2. \/ k.windowIn = circuit.windowIn /\ k.failures = circuit.failures
        \/ k.failures = 0
    BY <1>1, <2>1, Policy DEF Capped
  <2>3. EvidenceIn(k, recent)
    BY <1>1, <2>2, Policy DEF Evidence, EvidenceIn
  <2> QED  BY <2>3 DEF k
<1>3. EvidenceIn(Counted(circuit, 1), Remembered)
  <2> DEFINE k == Counted(circuit, 1)
  <2>1. /\ k.windowIn \in Nat /\ k.windowIn <= Window
        /\ \/ /\ circuit.windowIn > 0 /\ k.windowIn = circuit.windowIn
              /\ k.failures = Capped(circuit.failures + 1, FailureThreshold)
           \/ k.failures = Capped(1, FailureThreshold)
    BY <1>1, CountedWindow
  <2> HIDE DEF k
  <2>2. \/ /\ circuit.windowIn > 0 /\ k.windowIn = circuit.windowIn
           /\ k.failures \in Nat /\ k.failures <= circuit.failures + 1
        \/ k.failures = 1
    BY <1>1, <2>1, Policy DEF Capped
  <2>3. ASSUME NEW n \in 1 .. FailureThreshold, n > FailureThreshold - k.failures
        PROVE  Remembered[n] >= k.windowIn
    <3>1. Remembered[n] = IF n = FailureThreshold THEN Window ELSE recent[n + 1]
      BY <1>1, RememberedIs
    <3>2. CASE n = FailureThreshold
      BY <2>1, <3>1, <3>2, Policy
    <3>3. CASE n # FailureThreshold
      <4>1. /\ circuit.windowIn > 0 /\ k.windowIn = circuit.windowIn
            /\ n + 1 \in 1 .. FailureThreshold
            /\ n + 1 > FailureThreshold - circuit.failures
        BY <1>1, <2>2, <2>3, <3>3, Policy
      <4>2. recent[n + 1] >= circuit.windowIn
        BY <4>1 DEF Evidence, EvidenceIn
      <4> QED  BY <3>1, <3>3, <4>1, <4>2
    <3> QED  BY <3>2, <3>3
  <2>4. EvidenceIn(k, Remembered)
    BY <2>3 DEF EvidenceIn
  <2> QED  BY <2>4 DEF k
<1> QED  BY <1>2, <1>3

(* What a result that is applied makes of the circuit.                     *)
LEMMA ObservedCounts ==
  ASSUME TypeOK, NEW c \in Callers, NEW result \in Results,
         Observed(c, result), circuit' # circuit
  PROVE  \/ circuit' = Reset(circuit)
         \/ /\ result.class = "success"
            /\ LET k == Counted(circuit, 0) IN
               circuit' = k \/ (Pressed(k) /\ \E wait : circuit' = Opened(k, wait))
         \/ /\ result.class = "failure"
            /\ LET k == Counted(circuit, 1) IN
               \/ circuit' = k
               \/ /\ IsProbe(c) => Current(c)
                  /\ IsProbe(c) \/ result.retry > 0 \/ Pressed(k)
                  /\ \E wait : circuit' = Opened(k, wait)
<1>1. IsProbe(c) => Current(c) /\ probes[call[c].token] # 0
  BY DEF Observed
<1>2. CASE result.class = "success"
  <2> DEFINE k == Counted(circuit, 0)
  <2>1. AppliedSuccess(c)
    BY <1>1, <1>2 DEF Observed
  <2>2. CASE IsProbe(c)
    BY <2>1, <2>2 DEF AppliedSuccess
  <2>3. CASE ~IsProbe(c)
    <3>1. circuit' = IF Pressed(k) THEN Opened(k, OpenDuration) ELSE k
      BY <2>1, <2>3 DEF AppliedSuccess
    <3> HIDE DEF k
    <3>2. circuit' = k \/ (Pressed(k) /\ \E wait : circuit' = Opened(k, wait))
      BY <3>1
    <3> QED  BY <1>2, <3>2 DEF k
  <2> QED  BY <2>2, <2>3
<1>3. CASE result.class = "failure"
  BY <1>1, <1>3 DEF Observed, AppliedFailure
<1>4. result.class # "excluded"
  BY <1>1 DEF Observed
<1> QED  BY <1>2, <1>3, <1>4 DEF Results

(* Every step keeps the evidence.                                          *)
LEMMA EvidenceStep ==
  ASSUME TypeOK, Evidence, [Next]_vars
  PROVE  Evidence'
<1>0. circuit \in Circuit /\ circuit.windowIn \in Nat /\ circuit.expiresIn \in Nat
  BY CircuitType, CircuitFields, Policy
<1>1. ASSUME NEW c \in Callers, Acquire(c) \/ AcquireUnanswered(c)
      PROVE  Evidence'
  <2>1. circuit' = Touched(Reopenable(circuit)) /\ recent' = recent
    BY <1>1 DEF Acquire, AcquireUnanswered, Acquired
  <2>2. /\ Reopenable(circuit) \in Circuit
        /\ Reopenable(circuit).failures = circuit.failures
        /\ Reopenable(circuit).windowIn = circuit.windowIn
    BY <1>0 DEF Reopenable, Circuit
  <2>3. /\ circuit'.failures = circuit.failures
        /\ circuit'.windowIn = circuit.windowIn
    BY <2>1, <2>2 DEF Touched, Circuit
  <2> QED  BY <2>1, <2>3, SameEvidence
<1>2. ASSUME NEW c \in Callers, NEW result \in Results, Observe(c, result)
      PROVE  Evidence'
  <2>1. /\ Observed(c, result)
        /\ recent' = IF result.class = "failure" /\ circuit' # circuit
                     THEN Remembered ELSE recent
    BY <1>2 DEF Observe
  <2>2. CASE circuit' = circuit
    BY <2>1, <2>2, SameEvidence
  <2>3. CASE circuit' = Reset(circuit)
    <3>1. Reset(circuit).windowIn = 0
      BY DEF Reset, Fresh
    <3> QED  BY <2>3, <3>1 DEF Evidence, EvidenceIn
  <2>4. ASSUME NEW n \in {0, 1}, NEW r, EvidenceIn(Counted(circuit, n), r),
               recent' = r,
               \/ circuit' = Counted(circuit, n)
               \/ \E wait : circuit' = Opened(Counted(circuit, n), wait)
        PROVE  Evidence'
    <3>1. Counted(circuit, n) \in Circuit
      BY <1>0, CountedKeeps
    <3>2. /\ circuit'.failures = Counted(circuit, n).failures
          /\ circuit'.windowIn = Counted(circuit, n).windowIn
      BY <2>4, <3>1, OpenedCounts
    <3> QED  BY <2>4, <3>2 DEF Evidence, EvidenceIn
  <2>5. \/ circuit' = circuit \/ circuit' = Reset(circuit)
        \/ /\ recent' = recent
           /\ \/ circuit' = Counted(circuit, 0)
              \/ \E wait : circuit' = Opened(Counted(circuit, 0), wait)
        \/ /\ recent' = Remembered
           /\ \/ circuit' = Counted(circuit, 1)
              \/ \E wait : circuit' = Opened(Counted(circuit, 1), wait)
    BY <2>1, ObservedCounts
  <2> QED  BY <2>2, <2>3, <2>4, <2>5, CountedEvidence
<1>3. ASSUME NEW c \in Callers, Release(c) \/ Vanish(c)
      PROVE  Evidence'
  <2>1. circuit' \in {circuit, Touched(circuit)} /\ recent' = recent
    BY <1>3 DEF Release, Vanish
  <2>2. /\ circuit'.failures = circuit.failures
        /\ circuit'.windowIn = circuit.windowIn
    BY <1>0, <2>1 DEF Touched, Circuit
  <2> QED  BY <2>1, <2>2, SameEvidence
<1>4. CASE Tick
  <2>1. CASE circuit.expiresIn = 1
    <3>1. circuit' = Fresh /\ Fresh.windowIn = 0
      BY <1>4, <2>1 DEF Tick, Fresh
    <3> QED  BY <3>1 DEF Evidence, EvidenceIn
  <2>2. CASE circuit.expiresIn # 1
    <3> DEFINE w == Earlier(circuit.windowIn)
               o == Earlier(circuit.openIn)
               e == Earlier(circuit.expiresIn)
    <3>1. circuit' = [circuit EXCEPT !.windowIn = w, !.openIn = o, !.expiresIn = e]
      BY <1>4, <2>2 DEF Tick
    <3>2. w > 0 => circuit.windowIn > 0 /\ w = circuit.windowIn - 1
      BY <1>0 DEF Earlier
    <3> HIDE DEF w, o, e
    <3>3. circuit'.failures = circuit.failures /\ circuit'.windowIn = w
      BY <1>0, <3>1 DEF Circuit
    <3>4. \A n \in 1 .. FailureThreshold :
            recent'[n] = Earlier(recent[n]) /\ recent[n] \in Nat
      BY <1>4, Policy DEF Tick, TypeOK
    <3>5. ASSUME w > 0, NEW n \in 1 .. FailureThreshold,
                 n > FailureThreshold - circuit.failures
          PROVE  recent'[n] >= w
      <4>1. circuit.windowIn > 0 /\ w = circuit.windowIn - 1
        BY <3>2, <3>5
      <4>2. recent[n] >= circuit.windowIn
        BY <3>5, <4>1 DEF Evidence, EvidenceIn
      <4> QED  BY <1>0, <3>4, <4>1, <4>2 DEF Earlier
    <3> QED  BY <3>3, <3>5 DEF Evidence, EvidenceIn
  <2> QED  BY <2>1, <2>2
<1>5. CASE UNCHANGED vars
  BY <1>5, SameEvidence DEF vars
<1> QED  BY <1>1, <1>2, <1>3, <1>4, <1>5 DEF Next

(* Enough failures, in a window that runs, are FailureThreshold failures   *)
(* that are no older than a window.                                        *)
LEMMA PressedIsEvidence ==
  ASSUME NEW k, NEW r \in [1 .. FailureThreshold -> 0 .. Window],
         EvidenceIn(k, r), Pressed(k), k.windowIn \in Nat, k.windowIn > 0,
         k.failures \in Nat
  PROVE  \A n \in 1 .. FailureThreshold : r[n] > 0
<1> TAKE n \in 1 .. FailureThreshold
<1>1. n > FailureThreshold - k.failures
  BY Policy DEF Pressed
<1>2. r[n] >= k.windowIn /\ r[n] \in Nat
  BY <1>1, Policy DEF EvidenceIn
<1> QED  BY <1>2

(* A closed circuit opens only for a delay that the provider named, or     *)
(* after FailureThreshold failures within a window: neither failures of an *)
(* older window nor successes and excluded results add up to that.         *)
THEOREM OpeningHasEvidence == Spec => OpensOnEvidence
<1> DEFINE Named == \E c \in Callers, retry \in RetryAfters :
                      Observe(c, [class |-> "failure", retry |-> retry])
           Failing == \A n \in 1 .. FailureThreshold : recent'[n] > 0
<1>1. ASSUME TypeOK, TypeOK', Evidence, [Next]_vars,
             circuit.state = "CLOSED", circuit'.state = "OPEN"
      PROVE  Named \/ Failing
  <2>0. circuit \in Circuit /\ circuit' # circuit
    BY <1>1, CircuitType
  <2>1. ASSUME NEW c \in Callers, Acquire(c) \/ AcquireUnanswered(c)
        PROVE  FALSE
    BY <1>1, <2>0, <2>1 DEF Acquire, AcquireUnanswered, Acquired, Touched,
       Reopenable, Circuit
  <2>2. ASSUME NEW c \in Callers, NEW result \in Results, Observe(c, result)
        PROVE  Named \/ Failing
    <3>1. /\ Observed(c, result)
          /\ recent' = IF result.class = "failure" THEN Remembered ELSE recent
      BY <2>0, <2>2 DEF Observe
    <3>2. ASSUME NEW n \in {0, 1}, NEW r, Pressed(Counted(circuit, n)),
                 EvidenceIn(Counted(circuit, n), r), recent' = r
          PROVE  Failing
      <4> DEFINE k == Counted(circuit, n)
      <4>1. k \in Circuit /\ k.windowIn \in Nat /\ k.windowIn > 0
        BY <2>0, CountedKeeps, CountedWindow
      <4>2. k.failures \in Nat
        BY <4>1, CircuitFields, Policy
      <4>3. r \in [1 .. FailureThreshold -> 0 .. Window]
        BY <1>1, <3>2 DEF TypeOK
      <4> HIDE DEF k
      <4>4. \A m \in 1 .. FailureThreshold : r[m] > 0
        BY <3>2, <4>1, <4>2, <4>3, PressedIsEvidence DEF k
      <4> QED  BY <3>2, <4>4
    <3>3. /\ EvidenceIn(Counted(circuit, 0), recent)
          /\ EvidenceIn(Counted(circuit, 1), Remembered)
      BY <1>1, CountedEvidence
    <3>4. /\ circuit' # Reset(circuit)
          /\ circuit' # Counted(circuit, 0) /\ circuit' # Counted(circuit, 1)
          /\ ~Current(c)
      BY <1>1, <2>0, ResetIs, CountedKeeps DEF Current
    <3>5. \/ result.class = "success" /\ Pressed(Counted(circuit, 0))
          \/ /\ result.class = "failure"
             /\ result.retry > 0 \/ Pressed(Counted(circuit, 1))
      BY <1>1, <2>0, <3>1, <3>4, ObservedCounts
    <3>6. CASE result.class = "success" /\ Pressed(Counted(circuit, 0))
      BY <3>1, <3>2, <3>3, <3>6
    <3>7. CASE result.class = "failure" /\ Pressed(Counted(circuit, 1))
      BY <3>1, <3>2, <3>3, <3>7
    <3>8. CASE result.class = "failure" /\ result.retry > 0
      <4>1. PICK retry \in RetryAfters :
              result = [class |-> "failure", retry |-> retry]
        BY <3>8 DEF Results
      <4> QED  BY <2>2, <4>1
    <3> QED  BY <3>5, <3>6, <3>7, <3>8
  <2>3. ASSUME NEW c \in Callers, Release(c) \/ Vanish(c)
        PROVE  FALSE
    BY <1>1, <2>0, <2>3 DEF Release, Vanish, Touched, Circuit
  <2>4. CASE Tick
    <3>1. Fresh.state = "CLOSED"
      BY DEF Fresh
    <3> QED  BY <1>1, <2>0, <2>4, <3>1 DEF Tick, Circuit
  <2>5. CASE UNCHANGED vars
    BY <1>1, <2>5 DEF vars
  <2> QED  BY <1>1, <2>1, <2>2, <2>3, <2>4, <2>5 DEF Next
<1>2. Init => Evidence
  BY DEF Init, Fresh, Evidence, EvidenceIn
<1>3. IndInv /\ Evidence /\ [Next]_vars => Evidence'
  BY EvidenceStep DEF IndInv
<1>4. IndInv /\ IndInv' /\ Evidence /\ [Next]_vars =>
        [circuit.state = "CLOSED" /\ circuit'.state = "OPEN" =>
           Named \/ Failing]_vars
  BY <1>1 DEF IndInv
<1> QED  BY <1>2, <1>3, <1>4, IndInit, IndStep, PTL DEF Spec, OpensOnEvidence
=============================================================================
