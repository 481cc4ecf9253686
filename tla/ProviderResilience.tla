------------------------- MODULE ProviderResilience -------------------------
(***************************************************************************)
(* The shared circuit of one provider (RedisProviderResilienceStore) and   *)
(* the calls of executeProviderApiGateRequestUncached that go through it.  *)
(*                                                                         *)
(* Each Lua script is one step.  A caller acquires permission, calls the   *)
(* provider, and reports what came of it; while the circuit is half open   *)
(* its permission is a probe, with a lease.  A result says to which probe  *)
(* it belongs, and nothing at all when the caller was admitted without a   *)
(* probe: a call may end long after the circuit has moved on.              *)
(*                                                                         *)
(* Times are kept as the time left.  Probe tokens are random in the code:  *)
(* here the least one that nobody has, so a token also tells its expiry.   *)
(* Counters stop at the threshold they are compared with.                  *)
(***************************************************************************)
EXTENDS Integers, FiniteSets, FiniteSetsExt

CONSTANTS
  Callers,              \* owners of a single flight, one call at a time
  FailureThreshold,
  MinimumObservations,
  Window,               \* failureWindow.windowMs
  OpenDuration,
  MaxConcurrent,        \* halfOpenMaxConcurrent
  ProbeLease,
  RetryAfters,          \* delays a throttling provider may ask for
  StateTTL,             \* life of the state key after its last touch
  MaxFaults             \* bound: results other than success, unused
                        \* permissions, crashes, overrun leases

ASSUME CallersAssumption == IsFiniteSet(Callers)
ASSUME CountsAssumption ==      \* validateProviderResiliencePolicy
  /\ FailureThreshold \in Nat \ {0} /\ MaxConcurrent \in Nat \ {0}
  /\ MinimumObservations \in Nat /\ MinimumObservations >= FailureThreshold
ASSUME TimesAssumption ==
  /\ StateTTL \in Nat
  /\ {Window, OpenDuration, ProbeLease} \cup RetryAfters \subseteq 1 .. StateTTL
ASSUME FaultsAssumption == MaxFaults \in Nat

VARIABLES
  circuit,   \* the state key
  probes,    \* the probes key: token -> time left, or NoProbe
  call,      \* per caller, the call it is in
  late,      \* calls that were admitted before the circuit last opened
  recent,    \* the last FailureThreshold failures applied, the newest last:
             \* time left until each is a window old
  faults     \* faults that have happened

vars == <<circuit, probes, call, late, recent, faults>>

Tokens == 1 .. (MaxConcurrent + Cardinality(Callers))
NoProbe == -1
NoCall == [busy |-> FALSE, token |-> 0, gen |-> 0, leaseIn |-> 0]

(* A missing key reads as a closed circuit of generation 0. *)
Fresh == [state |-> "CLOSED", gen |-> 0, failures |-> 0, seen |-> 0,
          windowIn |-> 0, openIn |-> 0, expiresIn |-> 0]

Init ==
  /\ circuit = Fresh
  /\ probes = [t \in Tokens |-> NoProbe]
  /\ call = [c \in Callers |-> NoCall]
  /\ late = {}
  /\ recent = [n \in 1 .. FailureThreshold |-> 0]
  /\ faults = 0

Fault == faults < MaxFaults /\ faults' = faults + 1

-----------------------------------------------------------------------------
(* ACQUIRE *)
Touched(k) == IF k = Fresh THEN k ELSE [k EXCEPT !.expiresIn = StateTTL]

(* An open circuit whose deadline has passed becomes half open. *)
Reopenable(k) ==
  IF k.state = "OPEN" /\ k.openIn = 0 THEN [k EXCEPT !.state = "HALF_OPEN"]
  ELSE k

PurgedNever == probes        \* a mutant of Purged: expired probes are kept

Purged == [t \in Tokens |-> IF probes[t] = 0 THEN NoProbe ELSE probes[t]]

Live(set) == {t \in Tokens : set[t] # NoProbe}
Held == {call[c].token : c \in Callers}
Token == Min(Tokens \ (Live(Purged) \cup Held))

LimitIgnored == TRUE         \* a mutant of UnderLimit

UnderLimit == Cardinality(Live(Purged)) < MaxConcurrent

(* The script's three answers: a plain permission, a probe, a denial. *)
Acquired ==
  LET k == Reopenable(circuit) IN
  /\ circuit' = Touched(k)
  /\ probes' = IF k.state = "HALF_OPEN" /\ UnderLimit
               THEN [Purged EXCEPT ![Token] = ProbeLease]
               ELSE Purged

Granted ==
  LET k == Reopenable(circuit) IN
  CASE k.state = "CLOSED" -> [NoCall EXCEPT !.busy = TRUE]
    [] k.state = "HALF_OPEN" /\ UnderLimit ->
         [busy |-> TRUE, token |-> Token, gen |-> k.gen, leaseIn |-> ProbeLease]
    [] OTHER -> NoCall

Acquire(c) ==
  /\ ~call[c].busy
  /\ Acquired
  /\ call' = [call EXCEPT ![c] = Granted]
  /\ UNCHANGED <<late, recent, faults>>

(* The script ran but its answer was lost: the gate denies the request as  *)
(* unavailable, and a probe it was granted belongs to nobody.              *)
AcquireUnanswered(c) ==
  /\ ~call[c].busy
  /\ Acquired
  /\ Fault
  /\ UNCHANGED <<call, late, recent>>

-----------------------------------------------------------------------------
(* OBSERVE *)
IsProbe(c) == call[c].token # 0

CurrentInAnyGeneration(c) == \* a mutant of Current: generation not compared
  circuit.state = "HALF_OPEN" /\ probes[call[c].token] # NoProbe

(* The probe is the circuit's own, whether or not its lease has run out. *)
Current(c) ==
  /\ circuit.state = "HALF_OPEN"
  /\ circuit.gen = call[c].gen
  /\ probes[call[c].token] # NoProbe

Without(c) == [probes EXCEPT ![call[c].token] = NoProbe]
NoProbes == [t \in Tokens |-> NoProbe]

WindowedKeepingFailures(k) == \* a mutant of Windowed: failures not reset
  IF k.windowIn = 0 THEN [k EXCEPT !.windowIn = Window, !.seen = 0] ELSE k

(* A window that is over, or was never begun, begins now. *)
Windowed(k) ==
  IF k.windowIn = 0
  THEN [k EXCEPT !.windowIn = Window, !.failures = 0, !.seen = 0]
  ELSE k

Capped(n, bound) == IF n > bound THEN bound ELSE n

Counted(k, failed) ==
  [Windowed(k) EXCEPT
     !.failures = Capped(@ + failed, FailureThreshold),
     !.seen = Capped(@ + 1, MinimumObservations),
     !.expiresIn = StateTTL]

Pressed(k) == k.failures >= FailureThreshold /\ k.seen >= MinimumObservations

Opened(k, wait) ==
  [k EXCEPT !.state = "OPEN", !.gen = @ + 1, !.openIn = wait]

Reset(k) == [Fresh EXCEPT !.gen = k.gen + 1, !.expiresIn = StateTTL]

(* A success closes the circuit if it is a probe's; otherwise it is only   *)
(* an observation, which may complete the sample that opens the circuit.   *)
AppliedSuccess(c) ==
  IF IsProbe(c)
  THEN circuit' = Reset(circuit) /\ probes' = NoProbes
  ELSE LET k == Counted(circuit, 0) IN
       /\ circuit' = IF Pressed(k) THEN Opened(k, OpenDuration) ELSE k
       /\ probes' = probes

(* retry is 0 when the provider did not name a delay. *)
AppliedFailure(c, retry) ==
  LET k == Counted(circuit, 1) IN
  IF IsProbe(c) \/ retry > 0 \/ Pressed(k)
  THEN /\ circuit' = Opened(k, Max({OpenDuration, retry}))
       /\ probes' = NoProbes
  ELSE circuit' = k /\ probes' = probes

Results == [class : {"success", "excluded", "failure"}, retry : {0}]
           \cup [class : {"failure"}, retry : RetryAfters]

Observed(c, result) ==
  CASE IsProbe(c) /\ ~Current(c) ->
         UNCHANGED <<circuit, probes>>
    [] IsProbe(c) /\ Current(c) /\ probes[call[c].token] = 0 ->
         circuit' = circuit /\ probes' = Without(c)
    [] OTHER ->
         CASE result.class = "success" -> AppliedSuccess(c)
           [] result.class = "failure" -> AppliedFailure(c, result.retry)
           [] result.class = "excluded" ->
                /\ circuit' = circuit
                /\ probes' = IF IsProbe(c) THEN Without(c) ELSE probes

(* One more failure among the last ones. *)
Remembered ==
  [n \in 1 .. FailureThreshold |->
     IF n = FailureThreshold THEN Window ELSE recent[n + 1]]

(* The call ends, and with it the report of its result. *)
Ends(c) ==
  /\ call[c].busy
  /\ call' = [call EXCEPT ![c] = NoCall]

Observe(c, result) ==
  /\ Ends(c)
  /\ Observed(c, result)
  /\ late' = IF circuit'.gen # circuit.gen /\ circuit'.state = "OPEN"
             THEN {d \in Callers \ {c} : call[d].busy}
             ELSE late \ {c}
  /\ recent' = IF result.class = "failure" /\ circuit' # circuit
               THEN Remembered ELSE recent
  /\ IF result.class = "success" THEN UNCHANGED faults ELSE Fault

-----------------------------------------------------------------------------
(* RELEASE: the permission is not used, because admission was denied or    *)
(* the caller lost its flight before the provider was called.              *)
Release(c) ==
  /\ Ends(c)
  /\ IF IsProbe(c) /\ Current(c)
     THEN circuit' = Touched(circuit) /\ probes' = Without(c)
     ELSE UNCHANGED <<circuit, probes>>
  /\ late' = late \ {c}
  /\ Fault
  /\ UNCHANGED recent

(* The caller dies, or its report never reaches the store. *)
Vanish(c) ==
  /\ Ends(c)
  /\ late' = late \ {c}
  /\ Fault
  /\ UNCHANGED <<circuit, probes, recent>>

Earlier(n) == IF n > 0 THEN n - 1 ELSE n

(* Time passes; the state key expires when nothing has touched it. *)
Tick ==
  /\ circuit' = IF circuit.expiresIn = 1 THEN Fresh
                ELSE [circuit EXCEPT !.windowIn = Earlier(@),
                                     !.openIn = Earlier(@),
                                     !.expiresIn = Earlier(@)]
  /\ probes' = [t \in Tokens |-> Earlier(probes[t])]
  /\ call' = [c \in Callers |-> [call[c] EXCEPT !.leaseIn = Earlier(@)]]
  /\ recent' = [n \in 1 .. FailureThreshold |-> Earlier(recent[n])]
  /\ IF \E c \in Callers : call[c].leaseIn = 1 THEN Fault ELSE UNCHANGED faults
  /\ UNCHANGED late

Next ==
  \/ \E c \in Callers :
       \/ Acquire(c) \/ AcquireUnanswered(c)
       \/ \E result \in Results : Observe(c, result)
       \/ Release(c) \/ Vanish(c)
  \/ Tick

Spec == Init /\ [][Next]_vars

(* Requests keep coming, a call ends within the gate's timeout, and time   *)
(* passes.                                                                 *)
FairSpec ==
  /\ Spec
  /\ WF_vars(Tick)
  /\ \A c \in Callers :
       /\ WF_vars(Acquire(c))
       /\ WF_vars(\E result \in Results : Observe(c, result))
-----------------------------------------------------------------------------
(* Type correctness.  An open circuit knows until when, and never outlives *)
(* its key before that.                                                    *)
TypeOK ==
  /\ circuit \in [state : {"CLOSED", "OPEN", "HALF_OPEN"}, gen : Nat,
                  failures : 0 .. FailureThreshold,
                  seen : 0 .. MinimumObservations, windowIn : 0 .. Window,
                  openIn : 0 .. StateTTL, expiresIn : 0 .. StateTTL]
  /\ probes \in [Tokens -> {NoProbe} \cup 0 .. ProbeLease]
  /\ call \in [Callers -> [busy : BOOLEAN, token : {0} \cup Tokens, gen : Nat,
                           leaseIn : 0 .. ProbeLease]]
  /\ late \subseteq {c \in Callers : call[c].busy}
  /\ recent \in [1 .. FailureThreshold -> 0 .. Window]
  /\ faults \in 0 .. MaxFaults
  /\ circuit.openIn <= circuit.expiresIn

(* However answers get lost and leases run out, the calls that probe a     *)
(* half-open circuit under a lease of theirs are no more than the policy   *)
(* allows.                                                                 *)
ProbesBounded ==
  Cardinality({c \in Callers \ late : call[c].leaseIn > 0}) <= MaxConcurrent

(* Only a probe sent since the circuit last opened closes it: a success    *)
(* that set out before is no evidence of recovery.                         *)
ClosedByNewProbe ==
  [][circuit.state = "HALF_OPEN" /\ circuit'.state = "CLOSED" =>
       \/ circuit' = Fresh
       \/ \E c \in Callers \ late : call[c].leaseIn > 0 /\ ~call'[c].busy]_vars

(* A closed circuit opens on evidence: a provider that names a delay, or   *)
(* FailureThreshold failures of which none is older than a window.         *)
OpensOnEvidence ==
  [][circuit.state = "CLOSED" /\ circuit'.state = "OPEN" =>
       \/ \E c \in Callers, retry \in RetryAfters :
            Observe(c, [class |-> "failure", retry |-> retry])
       \/ \A n \in 1 .. FailureThreshold : recent'[n] > 0]_vars

(* Once the faults stop the circuit closes for good, although probes were  *)
(* lost with their callers and late results keep arriving.                 *)
Recovers == <>[](circuit.state = "CLOSED")

(* docs/provider-api-gate-scale-hardening.md: delayed older-generation     *)
(* results are rejected without changing deadlines.                        *)
LateResultsKeepDeadline ==
  [][\A c \in late : ~call'[c].busy => circuit'.openIn >= circuit.openIn]_vars
=============================================================================
