---------------------------- MODULE RateLimiter ----------------------------
(***************************************************************************)
(* The sliding window that limits the login attempts of one address: each  *)
(* thread reads the clock, then takes the limiter's lock, prunes the deque *)
(* and records its attempt.  Between the two steps others may overtake it. *)
(***************************************************************************)
EXTENDS Integers, Sequences

CONSTANTS
  Threads,      \* concurrent login requests of the address
  MaxAttempts,  \* auth_rate_limit_max_attempts
  Window,       \* auth_rate_limit_window_seconds
  MaxTime, MaxCalls   \* bounds: the clock and the calls made

VARIABLES
  now,      \* the monotonic clock
  stamp,    \* the time each thread has read; Idle outside of is_allowed
  bucket,   \* the deque of the address
  calls,    \* calls made
  granted,  \* history: the stamps of the attempts let pass
  late      \* history: a thread was overtaken by one with a later stamp

vars == <<now, stamp, bucket, calls, granted, late>>

Idle == -1

TypeOK ==
  /\ now \in 0..MaxTime
  /\ stamp \in [Threads -> 0..MaxTime \cup {Idle}]
  /\ bucket \in Seq(0..MaxTime) /\ granted \in Seq(0..MaxTime)
  /\ calls \in 0..MaxCalls /\ late \in BOOLEAN

Init ==
  /\ now = 0 /\ calls = 0 /\ late = FALSE
  /\ stamp = [t \in Threads |-> Idle]
  /\ bucket = <<>> /\ granted = <<>>

Tick == now < MaxTime /\ now' = now + 1 /\ UNCHANGED <<stamp, bucket, calls, granted, late>>

ReadClock(t) ==
  /\ stamp[t] = Idle /\ calls < MaxCalls
  /\ stamp' = [stamp EXCEPT ![t] = now]
  /\ calls' = calls + 1
  /\ UNCHANGED <<now, bucket, granted, late>>

\* Prunes one second too many.
ExpiredAtCutoff(s, time) == s <= time - Window

\* A stamp older than the cutoff.
Expired(s, time) == s < time - Window

\* The deque without the expired stamps at its head.
Pruned(time) ==
  LET live == {i \in 1..Len(bucket) : ~Expired(bucket[i], time)} IN
  IF live = {} THEN <<>> ELSE SubSeq(bucket, CHOOSE i \in live : \A j \in live : i <= j, Len(bucket))

\* An attempt over the budget is refused and leaves no stamp.
IsAllowed(t) ==
  /\ stamp[t] # Idle
  /\ IF Len(Pruned(stamp[t])) >= MaxAttempts
     THEN bucket' = Pruned(stamp[t]) /\ UNCHANGED granted
     ELSE /\ bucket' = Append(Pruned(stamp[t]), stamp[t])
          /\ granted' = Append(granted, stamp[t])
  /\ late' = (late \/ \E i \in 1..Len(granted) : stamp[t] < granted[i])
  /\ stamp' = [stamp EXCEPT ![t] = Idle]
  /\ UNCHANGED <<now, calls>>

Next == Tick \/ \E t \in Threads : ReadClock(t) \/ IsAllowed(t)

Spec == Init /\ [][Next]_vars
-----------------------------------------------------------------------------
\* No window, its two ends included, holds more granted attempts than the budget, unless
\* a thread that read the clock first was overtaken on its way to the lock.
AttemptsBounded ==
  ~late => \A i \in 1..Len(granted) :
             i > MaxAttempts => granted[i - MaxAttempts] < granted[i] - Window
=============================================================================
