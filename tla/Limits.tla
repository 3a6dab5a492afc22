-------------------------------- MODULE Limits --------------------------------
(***************************************************************************)
(* The two counters the gateway keeps per key: the token bucket in front   *)
(* of the login handler (gateway-go/internal/ratelimit/tokenbucket.go) and *)
(* the sliding window of failed logins behind it                           *)
(* (gateway-go/internal/anomaly/bruteforce.go).                            *)
(*                                                                         *)
(* Each operation runs under the mutex of its map, so it is one action. A  *)
(* token is Grain grains and a bucket gains Refill grains per unit of      *)
(* time: 0.5 tokens per second is Grain = 2, Refill = 1 with seconds.      *)
(***************************************************************************)
EXTENDS Integers, Sequences, FiniteSets

CONSTANTS
  Key,        \* "login:<ip>", "ip:<ip>", "account:<email>"
  Burst,      \* tokens a bucket holds
  Grain,
  Refill,
  Window,     \* how long a failed login counts
  Threshold,  \* failures that make a burst
  MaxClock,   \* bound: the last reading of the clock
  MaxCalls    \* bound: granted requests, and failures since a reset, of a key

ASSUME LimitsAssumption ==
  /\ Burst \in Nat \ {0} /\ Grain \in Nat \ {0} /\ Refill \in Nat
  /\ Window \in Nat \ {0} /\ Threshold \in Nat \ {0}
  /\ MaxClock \in Nat /\ MaxCalls \in Nat

VARIABLES
  clock,      \* what now() reads
  buckets,    \* per key: grains left and when they were counted
  events,     \* per key: times of the failures that still count
  triggered,  \* per key: what RecordFailure returned last
  grants,     \* history, per key: when requests were let through
  failures    \* history, per key: all failures since the last reset

bucketVars == <<buckets, grants>>
windowVars == <<events, triggered, failures>>
vars == <<clock, bucketVars, windowVars>>

\* A key that is not in the map has a bucket that was never drawn from.
Bucket == [met : BOOLEAN, grains : Int, last : Nat]
NoBucket == [met |-> FALSE, grains |-> 0, last |-> 0]
Capacity == Burst * Grain

-----------------------------------------------------------------------------
(* The token bucket *)

\* Mutant: the refill is added without looking at the burst.
GrainsNow_Uncapped(b) == b.grains + Refill * (clock - b.last)

\* What is in the bucket once the time since its last count is added.
GrainsNow(b) ==
  LET filled == b.grains + Refill * (clock - b.last)
  IN  IF filled > Capacity THEN Capacity ELSE filled

\* Mutant: a refused request moves the time forward and leaves the grains.
Allow_RefusalForgets(k) ==
  LET b == buckets[k]
      there == IF b.met THEN GrainsNow(b) ELSE Capacity
      granted == there >= Grain
  IN  /\ buckets' = [buckets EXCEPT ![k] =
                       [met |-> TRUE, last |-> clock,
                        grains |-> IF granted THEN there - Grain ELSE b.grains]]
      /\ grants' = IF granted THEN [grants EXCEPT ![k] = Append(@, clock)] ELSE grants
      /\ UNCHANGED <<clock, windowVars>>

Allow(k) ==
  LET b == buckets[k]
      there == IF b.met THEN GrainsNow(b) ELSE Capacity
      granted == there >= Grain
  IN  /\ granted => Len(grants[k]) < MaxCalls
      /\ buckets' = [buckets EXCEPT ![k] =
                       [met |-> TRUE, last |-> clock,
                        grains |-> IF granted THEN there - Grain ELSE there]]
      /\ grants' = IF granted THEN [grants EXCEPT ![k] = Append(@, clock)] ELSE grants
      /\ UNCHANGED <<clock, windowVars>>

-----------------------------------------------------------------------------
(* The window of failures *)

\* Mutant: a failure still counts when it is exactly as old as the window.
Recent_Inclusive(s, t) ==
  LET kept[i \in 0..Len(s)] ==
        IF i = 0 THEN <<>>
        ELSE IF s[i] >= t - Window THEN Append(kept[i - 1], s[i]) ELSE kept[i - 1]
  IN  kept[Len(s)]

\* The loop over the stored times: what is kept of the first i.
Recent(s, t) ==
  LET kept[i \in 0..Len(s)] ==
        IF i = 0 THEN <<>>
        ELSE IF s[i] > t - Window THEN Append(kept[i - 1], s[i]) ELSE kept[i - 1]
  IN  kept[Len(s)]

RecordFailure(k) ==
  LET kept == Append(Recent(events[k], clock), clock)
  IN  /\ Len(failures[k]) < MaxCalls
      /\ events' = [events EXCEPT ![k] = kept]
      /\ triggered' = [triggered EXCEPT ![k] = Len(kept) >= Threshold]
      /\ failures' = [failures EXCEPT ![k] = Append(@, clock)]
      /\ UNCHANGED <<clock, bucketVars>>

Reset(k) ==
  /\ events' = [events EXCEPT ![k] = <<>>]
  /\ failures' = [failures EXCEPT ![k] = <<>>]
  /\ triggered' = [triggered EXCEPT ![k] = FALSE]
  /\ UNCHANGED <<clock, bucketVars>>

-----------------------------------------------------------------------------
Tick ==
  /\ clock < MaxClock
  /\ clock' = clock + 1
  /\ UNCHANGED <<bucketVars, windowVars>>

Init ==
  /\ clock = 0
  /\ buckets = [k \in Key |-> NoBucket]
  /\ events = [k \in Key |-> <<>>]
  /\ triggered = [k \in Key |-> FALSE]
  /\ grants = [k \in Key |-> <<>>]
  /\ failures = [k \in Key |-> <<>>]

Next ==
  \/ Tick
  \/ \E k \in Key : Allow(k) \/ RecordFailure(k) \/ Reset(k)

Spec == Init /\ [][Next]_vars

-----------------------------------------------------------------------------
(* Properties *)

\* Every variable has its type, and no bucket is overdrawn or overfull
\* (tokenbucket.go:41-60).
TypeOK ==
  /\ clock \in Nat
  /\ buckets \in [Key -> Bucket]
  /\ \A k \in Key : buckets[k].grains \in 0..Capacity /\ buckets[k].last <= clock
  /\ events \in [Key -> Seq(Nat)]
  /\ triggered \in [Key -> BOOLEAN]
  /\ grants \in [Key -> Seq(Nat)]
  /\ failures \in [Key -> Seq(Nat)]

\* Grains that the requests granted from the i-th on may take until time t.
Allowance(s, i, t) == Capacity + Refill * (t - s[i])
Spent(i, j) == (j - i + 1) * Grain

\* The promise of a limiter with a burst and a refill rate: over every stretch of
\* time, however its requests and refusals are spread, a key is granted no more
\* than the burst and what was refilled meanwhile (main.go:95, tokenbucket.go:35-61).
GrantsBounded ==
  \A k \in Key : LET s == grants[k] IN
    \A j \in 1..Len(s) : \A i \in 1..j : Spent(i, j) <= Allowance(s, i, s[j])

\* A key could be granted one more request now without breaking that promise.
Entitled(k) ==
  LET s == grants[k]
      n == Len(s)
  IN  \A i \in 1..n : Spent(i, n) + Grain <= Allowance(s, i, clock)

\* A request is refused only when granting it would break the promise: no earlier
\* refusal, and no rounding of an idle time to the burst, takes anything from a key.
RefusedOnlyWhenSpent ==
  [][\A k \in Key : Allow(k) /\ Entitled(k) => grants'[k] # grants[k]]_vars

\* The answer of RecordFailure is about all the failures since the last success, as
\* if none had ever been trimmed: a burst is reported exactly when enough of them
\* lie within the window before the newest (bruteforce.go:36-54).
BurstExactlyReported ==
  \A k \in Key : LET s == failures[k] IN
    triggered[k] <=>
      /\ s # <<>>
      /\ Cardinality({i \in 1..Len(s) : s[Len(s)] - s[i] < Window}) >= Threshold
=============================================================================
