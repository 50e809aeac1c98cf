------------------------------ MODULE RateLimit ------------------------------
(***************************************************************************)
(* The rate limiter of core/rate_limit.py, for one key.  A request counts  *)
(* itself in a bucket that all processes share in Redis, with INCR, and    *)
(* the first one gives the bucket its expiry, with EXPIRE; on any error of *)
(* Redis it counts in a window that its process keeps in memory.           *)
(*                                                                         *)
(* Requests are served by threads.  The steps of a request are its calls   *)
(* to Redis and, in memory, the look-up of the window and the assignment   *)
(* that follows it.  Times are counted down, one Tick a unit; counts above *)
(* the limit are all alike.                                                *)
(***************************************************************************)
EXTENDS Integers, FiniteSets

CONSTANTS
  Process,
  Thread,
  ProcessOf,       \* [Thread -> Process]
  limit,
  window_seconds,
  MaxFailures      \* bound: lost replies, failures of EXPIRE and crashes in a behaviour

ASSUME RateLimitAssumption ==
  /\ ProcessOf \in [Thread -> Process]
  /\ limit \in Nat \ {0} /\ window_seconds \in Nat \ {0}
  /\ MaxFailures \in Nat

VARIABLES
  bucket,    \* the key in Redis: its value and time to live
  mem,       \* _mem[key] of every process: time left until reset_at, and count
  at,        \* where the request of a thread stands
  failures,  \* failures so far
  orphaned,  \* history: a failure came between INCR and EXPIRE of the bucket
  passed,    \* history: requests that the current window of a process let pass
  raced      \* history: processes in which look-ups of the current window overlapped

vars == <<bucket, mem, at, failures, orphaned, passed, raced>>

NoBucket == [n |-> 0, ttl |-> 0]
Forever == -1
NoWindow == [left |-> 0, count |-> 0]

Up(n) == IF n > limit THEN n ELSE n + 1

Idle == [step |-> "idle"]
ToExpire == [step |-> "expire"]
ToMemory == [step |-> "memory"]
Opening(late) == [step |-> "open", late |-> late]
Counting(n, here) == [step |-> "count", n |-> n, here |-> here]

Place == {Idle, ToExpire, ToMemory}
           \cup {Opening(late) : late \in 0 .. window_seconds}
           \cup {Counting(n, here) : n \in 0 .. limit + 1, here \in BOOLEAN}

Go(t, place) == at' = [at EXCEPT ![t] = place]
ThreadsOf(p) == {t \in Thread : ProcessOf[t] = p}

-----------------------------------------------------------------------------
(* Redis *)

\* INCR keeps the time to live of a key, and creates one without.
Incremented ==
  [n |-> Up(bucket.n), ttl |-> IF bucket = NoBucket THEN Forever ELSE bucket.ttl]

\* EXPIRE does nothing to a key that is gone.
Expiring == IF bucket = NoBucket THEN bucket ELSE [bucket EXCEPT !.ttl = window_seconds]

\* Mutants: the expiry is set by every hit, or by the one that fills the bucket.
Incr_ExpireAlways(t) ==
  /\ at[t] = Idle
  /\ bucket' = Incremented
  /\ Go(t, ToExpire)
  /\ UNCHANGED <<mem, failures, orphaned, passed, raced>>
Incr_ExpireAtLimit(t) ==
  /\ at[t] = Idle
  /\ bucket' = Incremented
  /\ Go(t, IF Incremented.n = limit THEN ToExpire ELSE Idle)
  /\ UNCHANGED <<mem, failures, orphaned, passed, raced>>

\* The first hit still has the expiry to set; any other has its answer.
Incr(t) ==
  /\ at[t] = Idle
  /\ bucket' = Incremented
  /\ Go(t, IF Incremented.n = 1 THEN ToExpire ELSE Idle)
  /\ UNCHANGED <<mem, failures, orphaned, passed, raced>>

Expire(t) ==
  /\ at[t] = ToExpire
  /\ bucket' = Expiring
  /\ Go(t, Idle)
  /\ UNCHANGED <<mem, failures, orphaned, passed, raced>>

\* Redis cannot be reached.
Unreachable(t) ==
  /\ at[t] = Idle
  /\ Go(t, ToMemory)
  /\ UNCHANGED <<bucket, mem, failures, orphaned, passed, raced>>

Fails(t) ==
  /\ failures < MaxFailures
  /\ failures' = failures + 1
  /\ Go(t, ToMemory)
  /\ UNCHANGED <<mem, passed, raced>>

\* The reply is lost.
IncrFails(t) ==
  /\ at[t] = Idle
  /\ Fails(t)
  /\ bucket' = Incremented
  /\ orphaned' = (orphaned \/ bucket = NoBucket)

\* Redis cannot be reached, or its reply is lost.
ExpireFails(t) ==
  /\ at[t] = ToExpire
  /\ Fails(t)
  /\ \/ UNCHANGED bucket /\ orphaned' = TRUE
     \/ bucket' = Expiring /\ UNCHANGED orphaned

-----------------------------------------------------------------------------
(* Memory *)

InMemory(t) == at[t].step \in {"open", "count"}
Overlaps(t) == \E u \in ThreadsOf(ProcessOf[t]) \ {t} : InMemory(u)

\* The window of the process is none or over, or it is looked up with its count.
LookUp(t) ==
  LET w == mem[ProcessOf[t]]
  IN  /\ at[t] = ToMemory
      /\ Go(t, IF w.left = 0 THEN Opening(0) ELSE Counting(w.count, TRUE))
      /\ raced' = IF Overlaps(t) THEN raced \cup {ProcessOf[t]} ELSE raced
      /\ UNCHANGED <<bucket, mem, failures, orphaned, passed>>

\* A new window, of the time the request looked at the clock, takes the place
\* of the one that other threads may still hold.
OpenWindow(t) ==
  LET p == ProcessOf[t]
  IN  /\ at[t].step = "open"
      /\ mem' = [mem EXCEPT ![p] = [left |-> window_seconds - at[t].late, count |-> 1]]
      /\ at' = [u \in Thread |->
                 IF u = t THEN Idle
                 ELSE IF u \in ThreadsOf(p) /\ at[u].step = "count"
                      THEN Counting(at[u].n, FALSE) ELSE at[u]]
      /\ passed' = [passed EXCEPT ![p] = 1]
      /\ raced' = IF Overlaps(t) THEN raced ELSE raced \ {p}
      /\ UNCHANGED <<bucket, failures, orphaned>>

\* Mutant: the count is compared before it is increased.
CountHit_ComparesFirst(t) ==
  LET p == ProcessOf[t]
      n == Up(at[t].n)
  IN  /\ at[t].step = "count"
      /\ mem' = IF at[t].here THEN [mem EXCEPT ![p].count = n] ELSE mem
      /\ passed' = IF at[t].here /\ at[t].n <= limit THEN [passed EXCEPT ![p] = Up(@)] ELSE passed
      /\ Go(t, Idle)
      /\ UNCHANGED <<bucket, failures, orphaned, raced>>

\* The count goes to the window that was looked up.  (The comparison reads it
\* again, but only a request that overlaps can have changed it.)
CountHit(t) ==
  LET p == ProcessOf[t]
      n == Up(at[t].n)
  IN  /\ at[t].step = "count"
      /\ mem' = IF at[t].here THEN [mem EXCEPT ![p].count = n] ELSE mem
      /\ passed' = IF at[t].here /\ n <= limit THEN [passed EXCEPT ![p] = Up(@)] ELSE passed
      /\ Go(t, Idle)
      /\ UNCHANGED <<bucket, failures, orphaned, raced>>

-----------------------------------------------------------------------------

Crash(p) ==
  /\ failures < MaxFailures
  /\ failures' = failures + 1
  /\ at' = [t \in Thread |-> IF t \in ThreadsOf(p) THEN Idle ELSE at[t]]
  /\ orphaned' = (orphaned \/ \E t \in ThreadsOf(p) : at[t] = ToExpire)
  /\ mem' = [mem EXCEPT ![p] = NoWindow]
  /\ passed' = [passed EXCEPT ![p] = 0]
  /\ raced' = raced \ {p}
  /\ UNCHANGED bucket

\* A unit of time passes.
Tick ==
  /\ bucket' = CASE bucket.ttl > 1 -> [bucket EXCEPT !.ttl = @ - 1]
                 [] bucket.ttl = 1 -> NoBucket
                 [] OTHER -> bucket
  /\ orphaned' = (orphaned /\ bucket.ttl # 1)
  /\ mem' = [p \in Process |-> IF mem[p].left = 0 THEN mem[p] ELSE [mem[p] EXCEPT !.left = @ - 1]]
  /\ at' = [t \in Thread |->
             IF at[t].step = "open" /\ at[t].late < window_seconds
             THEN Opening(at[t].late + 1) ELSE at[t]]
  /\ UNCHANGED <<failures, passed, raced>>

Init ==
  /\ bucket = NoBucket
  /\ mem = [p \in Process |-> NoWindow]
  /\ at = [t \in Thread |-> Idle]
  /\ failures = 0
  /\ orphaned = FALSE
  /\ passed = [p \in Process |-> 0]
  /\ raced = {}

Next ==
  \/ \E t \in Thread : \/ Incr(t) \/ Expire(t) \/ Unreachable(t)
                       \/ IncrFails(t) \/ ExpireFails(t)
                       \/ LookUp(t) \/ OpenWindow(t) \/ CountHit(t)
  \/ \E p \in Process : Crash(p)
  \/ Tick

\* Time passes, and a thread that has INCR's answer goes on to EXPIRE.
Spec ==
  /\ Init /\ [][Next]_vars
  /\ WF_vars(Tick)
  /\ \A t \in Thread : WF_vars(Expire(t))

-----------------------------------------------------------------------------
(* Properties *)

\* Counts, times and places have their types, and a bucket is without expiry
\* only while its first request is between INCR and EXPIRE or has failed there.
RateLimitTypeOK ==
  /\ bucket \in [n : 0 .. limit + 1, ttl : {Forever} \cup 0 .. window_seconds]
  /\ mem \in [Process -> [left : 0 .. window_seconds, count : 0 .. limit + 1]]
  /\ at \in [Thread -> Place]
  /\ bucket.ttl = Forever => orphaned \/ \E t \in Thread : at[t] = ToExpire

\* A key that has used up its bucket or its window is admitted again in time,
\* however fast its requests go on, unless a failure orphaned the bucket.
KeyIsAdmittedAgain ==
  /\ bucket.n > limit ~> bucket.n <= limit \/ orphaned
  /\ \A p \in Process : mem[p].count > limit ~> mem[p].left = 0

\* Without Redis, one window of a process lets no more than limit requests
\* pass, unless look-ups of it overlapped.
MemoryWindowHolds == \A p \in Process : passed[p] <= limit \/ p \in raced

=============================================================================
