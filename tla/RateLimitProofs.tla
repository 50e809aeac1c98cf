---------------------------- MODULE RateLimitProofs ----------------------------
(***************************************************************************)
(* The safety of RateLimit for every limit, window and number of threads.  *)
(***************************************************************************)
EXTENDS RateLimit, TLAPS

\* What the steps of a request need to know of its place.
LEMMA PlaceFacts ==
  ASSUME NEW x \in Place
  PROVE  /\ x.step = "open" => x.late \in 0 .. window_seconds /\ x = Opening(x.late)
         /\ x.step = "count" => /\ x.n \in 0 .. limit + 1 /\ x.here \in BOOLEAN
                                /\ x = Counting(x.n, x.here)
         /\ x.step \notin {"open", "count"} => x \in {Idle, ToExpire, ToMemory}
BY DEF Place, Idle, ToExpire, ToMemory, Opening, Counting

LEMMA PlacesAre ==
  /\ Idle \in Place /\ ToExpire \in Place /\ ToMemory \in Place
  /\ \A late \in 0 .. window_seconds : Opening(late) \in Place
  /\ \A n \in 0 .. limit + 1, here \in BOOLEAN : Counting(n, here) \in Place
  /\ Idle # ToExpire /\ ToMemory # ToExpire
  /\ \A late : Opening(late) # ToExpire
  /\ \A n, here : Counting(n, here) # ToExpire
<1>1. /\ Idle \in Place /\ ToExpire \in Place /\ ToMemory \in Place
      /\ \A late \in 0 .. window_seconds : Opening(late) \in Place
      /\ \A n \in 0 .. limit + 1, here \in BOOLEAN : Counting(n, here) \in Place
  BY DEF Place
<1>2. /\ Idle.step = "idle" /\ ToExpire.step = "expire" /\ ToMemory.step = "memory"
      /\ \A late : Opening(late).step = "open"
      /\ \A n, here : Counting(n, here).step = "count"
  BY DEF Idle, ToExpire, ToMemory, Opening, Counting
<1> QED
  BY <1>1, <1>2

LEMMA UpFacts ==
  ASSUME NEW n \in 0 .. limit + 1
  PROVE  Up(n) \in 1 .. limit + 1
BY RateLimitAssumption DEF Up

Types ==
  /\ bucket \in [n : 0 .. limit + 1, ttl : {Forever} \cup 0 .. window_seconds]
  /\ mem \in [Process -> [left : 0 .. window_seconds, count : 0 .. limit + 1]]
  /\ at \in [Thread -> Place]
Attended == bucket.ttl = Forever => orphaned \/ \E t \in Thread : at[t] = ToExpire

LEMMA TypeOKIs == RateLimitTypeOK <=> Types /\ Attended
BY DEF RateLimitTypeOK, Types, Attended

LEMMA BucketFacts ==
  ASSUME Types
  PROVE  /\ Incremented \in [n : 0 .. limit + 1, ttl : {Forever} \cup 0 .. window_seconds]
         /\ Expiring \in [n : 0 .. limit + 1, ttl : {Forever} \cup 0 .. window_seconds]
         /\ Expiring.ttl # Forever
         /\ bucket # NoBucket => Incremented.ttl = bucket.ttl
<1>1. bucket.n \in 0 .. limit + 1 /\ bucket.ttl \in {Forever} \cup 0 .. window_seconds
  BY DEF Types
<1>2. Up(bucket.n) \in 0 .. limit + 1
  BY <1>1, UpFacts, RateLimitAssumption
<1> QED
  BY <1>1, <1>2, RateLimitAssumption DEF Types, Incremented, Expiring, NoBucket, Forever

LEMMA InitTypeOK == Init => RateLimitTypeOK
BY RateLimitAssumption, PlacesAre DEF Init, RateLimitTypeOK, NoBucket, NoWindow, Forever

LEMMA NextTypeOK == RateLimitTypeOK /\ [Next]_vars => RateLimitTypeOK'
<1> SUFFICES ASSUME Types, Attended, [Next]_vars PROVE Types' /\ Attended'
  BY TypeOKIs DEF RateLimitTypeOK, Types, Attended
<1> USE RateLimitAssumption
<1>1. ASSUME NEW t \in Thread, Incr(t) PROVE Types' /\ Attended'
  <2>1. Types'
    BY <1>1, BucketFacts, PlacesAre DEF Types, Incr, Go
  <2>2. CASE bucket = NoBucket
    <3>1. Incremented.n = 1
      BY <2>2 DEF Incremented, Up, NoBucket
    <3>2. at'[t] = ToExpire
      BY <3>1, <1>1 DEF Incr, Go, Types
    <3> QED
      BY <3>2, <2>1 DEF Attended
  <2>3. CASE bucket # NoBucket
    <3>1. bucket'.ttl = bucket.ttl
      BY <1>1, <2>3, BucketFacts DEF Incr
    <3>2. \A u \in Thread : at[u] = ToExpire => at'[u] = ToExpire
      BY <1>1, PlacesAre DEF Incr, Go, Types
    <3> QED
      BY <3>1, <3>2, <2>1, <1>1 DEF Attended, Incr
  <2> QED
    BY <2>1, <2>2, <2>3
<1>2. ASSUME NEW t \in Thread, Expire(t) PROVE Types' /\ Attended'
  BY <1>2, BucketFacts, PlacesAre DEF Types, Attended, Expire, Go
<1>3. ASSUME NEW t \in Thread, Unreachable(t) PROVE Types' /\ Attended'
  BY <1>3, PlacesAre DEF Types, Attended, Unreachable, Go
<1>4. ASSUME NEW t \in Thread, IncrFails(t) PROVE Types' /\ Attended'
  <2>1. Types'
    BY <1>4, BucketFacts, PlacesAre DEF Types, IncrFails, Fails, Go
  <2>2. bucket # NoBucket => bucket'.ttl = bucket.ttl
    BY <1>4, BucketFacts DEF IncrFails
  <2>3. \A u \in Thread : at[u] = ToExpire => at'[u] = ToExpire
    BY <1>4, PlacesAre DEF IncrFails, Fails, Go, Types
  <2> QED
    BY <1>4, <2>1, <2>2, <2>3 DEF Attended, IncrFails
<1>5. ASSUME NEW t \in Thread, ExpireFails(t) PROVE Types' /\ Attended'
  BY <1>5, BucketFacts, PlacesAre DEF Types, Attended, ExpireFails, Fails, Go
<1>6. ASSUME NEW t \in Thread, LookUp(t) PROVE Types' /\ Attended'
  <2>1. ProcessOf[t] \in Process
    OBVIOUS
  <2>2. mem[ProcessOf[t]].count \in 0 .. limit + 1
    BY <2>1 DEF Types
  <2>3. Types'
    BY <1>6, <2>2, PlacesAre DEF Types, LookUp, Go
  <2>4. \A u \in Thread : at[u] = ToExpire => at'[u] = ToExpire
    BY <1>6, PlacesAre DEF LookUp, Go, Types
  <2> QED
    BY <1>6, <2>3, <2>4 DEF Attended, LookUp
<1>7. ASSUME NEW t \in Thread, OpenWindow(t) PROVE Types' /\ Attended'
  <2>1. ProcessOf[t] \in Process /\ at[t].late \in 0 .. window_seconds
    BY <1>7, PlaceFacts DEF OpenWindow, Types
  <2>2. mem' \in [Process -> [left : 0 .. window_seconds, count : 0 .. limit + 1]]
    BY <1>7, <2>1 DEF OpenWindow, Types
  <2>3. \A u \in Thread : /\ at'[u] \in Place
                          /\ at[u] = ToExpire => at'[u] = ToExpire
    <3> SUFFICES ASSUME NEW u \in Thread
                 PROVE  at'[u] \in Place /\ (at[u] = ToExpire => at'[u] = ToExpire)
      OBVIOUS
    <3>1. at[u] \in Place
      BY DEF Types
    <3>2. at[u].step = "count" => Counting(at[u].n, FALSE) \in Place
      BY <3>1, PlaceFacts, PlacesAre
    <3>3. ToExpire.step = "expire"
      BY DEF ToExpire
    <3> QED
      BY <1>7, <3>1, <3>2, <3>3, PlacesAre DEF OpenWindow
  <2> QED
    BY <1>7, <2>2, <2>3 DEF OpenWindow, Types, Attended
<1>8. ASSUME NEW t \in Thread, CountHit(t) PROVE Types' /\ Attended'
  <2>1. ProcessOf[t] \in Process /\ Up(at[t].n) \in 0 .. limit + 1
    <3>1. at[t].n \in 0 .. limit + 1
      BY <1>8, PlaceFacts DEF CountHit, Types
    <3> QED
      BY <3>1, UpFacts
  <2>2. mem' \in [Process -> [left : 0 .. window_seconds, count : 0 .. limit + 1]]
    BY <1>8, <2>1 DEF CountHit, Types
  <2>3. \A u \in Thread : at[u] = ToExpire => at'[u] = ToExpire
    BY <1>8, PlacesAre DEF CountHit, Go, Types, ToExpire
  <2> QED
    BY <1>8, <2>2, <2>3, PlacesAre DEF CountHit, Go, Types, Attended
<1>9. ASSUME NEW p \in Process, Crash(p) PROVE Types' /\ Attended'
  <2>1. mem' \in [Process -> [left : 0 .. window_seconds, count : 0 .. limit + 1]]
    BY <1>9 DEF Crash, Types, NoWindow
  <2>2. at' \in [Thread -> Place]
    BY <1>9, PlacesAre DEF Crash, Types
  <2>3. bucket'.ttl = Forever => orphaned' \/ \E t \in Thread : at'[t] = ToExpire
    BY <1>9 DEF Crash, Attended
  <2> QED
    BY <1>9, <2>1, <2>2, <2>3 DEF Types, Attended, Crash
<1>10. ASSUME Tick PROVE Types' /\ Attended'
  <2>1. bucket.n \in 0 .. limit + 1 /\ bucket.ttl \in {Forever} \cup 0 .. window_seconds
    BY DEF Types
  <2>2. /\ bucket' \in [n : 0 .. limit + 1, ttl : {Forever} \cup 0 .. window_seconds]
        /\ bucket'.ttl = Forever => bucket.ttl = Forever
    <3>1. bucket.ttl > 1 => bucket' = [bucket EXCEPT !.ttl = @ - 1]
      BY <1>10, <2>1 DEF Tick
    <3>2. bucket.ttl = 1 => bucket' = NoBucket
      BY <1>10, <2>1 DEF Tick
    <3>3. bucket.ttl = 0 \/ bucket.ttl = Forever => bucket' = bucket
      BY <1>10, <2>1 DEF Tick, Forever
    <3>4. bucket.ttl > 1 => bucket.ttl - 1 \in 0 .. window_seconds
      BY <2>1 DEF Forever
    <3>5. bucket.ttl > 1 \/ bucket.ttl = 1 \/ bucket.ttl = 0 \/ bucket.ttl = Forever
      BY <2>1 DEF Forever
    <3> QED
      BY <2>1, <3>1, <3>2, <3>3, <3>4, <3>5 DEF Types, NoBucket, Forever
  <2>3. mem' \in [Process -> [left : 0 .. window_seconds, count : 0 .. limit + 1]]
    <3> SUFFICES ASSUME NEW p \in Process
                 PROVE  mem'[p] \in [left : 0 .. window_seconds, count : 0 .. limit + 1]
      BY <1>10 DEF Tick
    <3>1. mem[p] \in [left : 0 .. window_seconds, count : 0 .. limit + 1]
      BY DEF Types
    <3>2. mem[p].left # 0 => mem[p].left - 1 \in 0 .. window_seconds
      BY <3>1
    <3>3. mem'[p] = IF mem[p].left = 0 THEN mem[p] ELSE [mem[p] EXCEPT !.left = @ - 1]
      BY <1>10 DEF Tick
    <3> QED
      BY <3>1, <3>2, <3>3
  <2>4. \A u \in Thread : /\ at'[u] \in Place
                          /\ at[u] = ToExpire => at'[u] = ToExpire
    <3> SUFFICES ASSUME NEW u \in Thread
                 PROVE  at'[u] \in Place /\ (at[u] = ToExpire => at'[u] = ToExpire)
      OBVIOUS
    <3>1. at[u] \in Place
      BY DEF Types
    <3>2. at[u].step = "open" /\ at[u].late < window_seconds => Opening(at[u].late + 1) \in Place
      BY <3>1, PlaceFacts, PlacesAre
    <3>3. ToExpire.step = "expire"
      BY DEF ToExpire
    <3> QED
      BY <1>10, <3>1, <3>2, <3>3 DEF Tick
  <2>5. bucket.ttl = Forever /\ orphaned => orphaned'
    <3>1. bucket.ttl = Forever => bucket.ttl # 1
      BY DEF Forever
    <3> QED
      BY <1>10, <3>1, Zenon DEF Tick
  <2>6. at' \in [Thread -> Place]
    BY <1>10, <2>4 DEF Tick
  <2> QED
    BY <2>2, <2>3, <2>4, <2>5, <2>6 DEF Types, Attended
<1>11. ASSUME UNCHANGED vars PROVE Types' /\ Attended'
  BY <1>11 DEF vars, Types, Attended
<1> QED
  BY <1>1, <1>2, <1>3, <1>4, <1>5, <1>6, <1>7, <1>8, <1>9, <1>10, <1>11 DEF Next

\* Counts, times and places stay typed, and a bucket never lacks its expiry
\* unless its first request is about to set it or has failed there, for any
\* limit, window and number of threads and processes.
THEOREM BucketIsAttended == Spec => []RateLimitTypeOK
BY InitTypeOK, NextTypeOK, PTL DEF Spec

-------------------------------------------------------------------------------

\* Unless look-ups of a window have overlapped, one thread at most is at it,
\* with the count the window has, and the count is that of the requests let
\* pass, up to the limit.
Sole(p) ==
  /\ \A t, u \in ThreadsOf(p) : InMemory(t) /\ InMemory(u) => t = u
  /\ \A t \in ThreadsOf(p) : at[t].step = "count" => at[t].here /\ at[t].n = mem[p].count
  /\ passed[p] = IF mem[p].count > limit THEN limit ELSE mem[p].count

WindowInv ==
  /\ passed \in [Process -> Nat]
  /\ \A p \in Process : p \in raced \/ Sole(p)

LEMMA SoleHolds ==
  ASSUME Types, WindowInv PROVE MemoryWindowHolds
<1> SUFFICES ASSUME NEW p \in Process, p \notin raced PROVE passed[p] <= limit
  BY DEF MemoryWindowHolds
<1>1. Sole(p)
  BY DEF WindowInv
<1>2. mem[p].count \in 0 .. limit + 1
  BY DEF Types
<1> QED
  BY <1>1, <1>2, RateLimitAssumption DEF Sole

LEMMA StepsOf ==
  /\ Idle.step = "idle" /\ ToExpire.step = "expire" /\ ToMemory.step = "memory"
  /\ \A late \in Int : Opening(late).step = "open" /\ Opening(late).late = late
  /\ \A n \in Int, here \in BOOLEAN :
       LET x == Counting(n, here) IN x.step = "count" /\ x.n = n /\ x.here = here
BY DEF Idle, ToExpire, ToMemory, Opening, Counting

\* A step of thread t outside memory that leaves the windows alone.
LEMMA ElsewhereKeepsSole ==
  ASSUME Types, NEW p \in Process, Sole(p), NEW t \in Thread,
         at' = [at EXCEPT ![t] = at'[t]], ~InMemory(t)',
         mem'[p] = mem[p], passed'[p] = passed[p]
  PROVE  Sole(p)'
<1>1. \A u \in Thread \ {t} : at'[u] = at[u]
  BY DEF Types
<1>2. \A u \in ThreadsOf(p) : InMemory(u)' => u # t /\ InMemory(u)
  BY <1>1 DEF InMemory, ThreadsOf
<1>3. \A u \in ThreadsOf(p) : at'[u].step = "count" => u # t /\ at'[u] = at[u]
  BY <1>1 DEF InMemory, ThreadsOf
<1> QED
  BY <1>2, <1>3 DEF Sole, ThreadsOf

LEMMA NextWindowInv == Types /\ WindowInv /\ [Next]_vars => WindowInv'
<1> SUFFICES ASSUME Types, WindowInv, [Next]_vars PROVE WindowInv'
  OBVIOUS
<1> USE RateLimitAssumption
<1>1. ASSUME NEW t \in Thread,
             Incr(t) \/ Expire(t) \/ Unreachable(t) \/ IncrFails(t) \/ ExpireFails(t)
      PROVE  WindowInv'
  <2>1. /\ UNCHANGED <<mem, passed, raced>>
        /\ \E x \in {Idle, ToExpire, ToMemory} : at' = [at EXCEPT ![t] = x]
    BY <1>1 DEF Incr, Expire, Unreachable, IncrFails, ExpireFails, Fails, Go
  <2>2. at'[t] \in {Idle, ToExpire, ToMemory} /\ at' = [at EXCEPT ![t] = at'[t]]
    BY <2>1 DEF Types
  <2>3. ~InMemory(t)'
    BY <2>2, StepsOf DEF InMemory
  <2>4. ASSUME NEW p \in Process, p \notin raced' PROVE Sole(p)'
    BY <2>1, <2>2, <2>3, <2>4, ElsewhereKeepsSole DEF WindowInv
  <2> QED
    BY <2>1, <2>4 DEF WindowInv
<1>2. ASSUME NEW t \in Thread, LookUp(t) PROVE WindowInv'
  <2> DEFINE q == ProcessOf[t]
  <2>1. /\ at' = [at EXCEPT ![t] = IF mem[q].left = 0 THEN Opening(0)
                                   ELSE Counting(mem[q].count, TRUE)]
        /\ UNCHANGED <<mem, passed>>
        /\ raced' = IF Overlaps(t) THEN raced \cup {q} ELSE raced
    BY <1>2 DEF LookUp, Go
  <2>2. ASSUME NEW p \in Process, p \notin raced' PROVE Sole(p)'
    <3>1. Sole(p)
      BY <2>1, <2>2 DEF WindowInv
    <3>2. \A u \in Thread \ {t} : at'[u] = at[u]
      BY <2>1 DEF Types
    <3>3. CASE p # q
      <4>1. \A u \in ThreadsOf(p) : u # t
        BY <3>3 DEF ThreadsOf
      <4>2. \A u \in ThreadsOf(p) : at'[u] = at[u]
        BY <3>2, <4>1 DEF ThreadsOf
      <4> QED
        BY <2>1, <3>1, <4>2 DEF Sole, InMemory
    <3>4. CASE p = q
      <4>1. \A u \in ThreadsOf(p) : InMemory(u) => u = t
        BY <2>1, <2>2, <3>4 DEF Overlaps
      <4>2. \A u \in ThreadsOf(p) : InMemory(u)' => u = t
        BY <3>2, <4>1 DEF InMemory, ThreadsOf
      <4>3. mem[p].count \in Int
        BY DEF Types
      <4>4. at'[t].step = "count" => at'[t].here /\ at'[t].n = mem[p].count
        <5>1. at'[t] = IF mem[p].left = 0 THEN Opening(0) ELSE Counting(mem[p].count, TRUE)
          BY <2>1, <3>4 DEF Types
        <5>2. Opening(0).step # "count"
          BY DEF Opening
        <5>3. Counting(mem[p].count, TRUE).here /\ Counting(mem[p].count, TRUE).n = mem[p].count
          BY DEF Counting
        <5> QED
          BY <5>1, <5>2, <5>3
      <4>5. \A u \in ThreadsOf(p) : at'[u].step = "count" => u = t
        BY <4>2 DEF InMemory
      <4> QED
        BY <2>1, <3>1, <4>2, <4>4, <4>5 DEF Sole
    <3> QED
      BY <3>3, <3>4
  <2> QED
    BY <2>1, <2>2 DEF WindowInv
<1>3. ASSUME NEW t \in Thread, OpenWindow(t) PROVE WindowInv'
  <2> DEFINE q == ProcessOf[t]
  <2>0. q \in Process /\ InMemory(t)
    BY <1>3 DEF OpenWindow, InMemory
  <2>1. passed' = [passed EXCEPT ![q] = 1] /\ passed' \in [Process -> Nat]
    BY <1>3 DEF OpenWindow, WindowInv
  <2>2. ASSUME NEW p \in Process, p \notin raced', p # q PROVE Sole(p)'
    <3>1. Sole(p)
      BY <1>3, <2>2 DEF OpenWindow, WindowInv
    <3>2. \A u \in ThreadsOf(p) : u # t /\ u \notin ThreadsOf(q)
      BY <2>2 DEF ThreadsOf
    <3>3. \A u \in ThreadsOf(p) : at'[u] = at[u]
      BY <1>3, <3>2 DEF OpenWindow, ThreadsOf
    <3>4. mem'[p] = mem[p] /\ passed'[p] = passed[p]
      BY <1>3, <2>2 DEF OpenWindow, Types, WindowInv
    <3> QED
      BY <3>1, <3>3, <3>4 DEF Sole, InMemory
  <2>3. ASSUME q \notin raced' PROVE Sole(q)'
    <3>1. ~Overlaps(t)
      <4>1. CASE q \in raced
        BY <1>3, <2>3, <4>1 DEF OpenWindow
      <4>2. CASE Sole(q)
        BY <2>0, <4>2 DEF Sole, Overlaps, ThreadsOf
      <4> QED
        BY <2>0, <4>1, <4>2 DEF WindowInv
    <3>2. \A u \in ThreadsOf(q) \ {t} : ~InMemory(u)
      BY <3>1 DEF Overlaps
    <3>3. \A u \in ThreadsOf(q) : ~InMemory(u)'
      <4> SUFFICES ASSUME NEW u \in ThreadsOf(q) PROVE ~InMemory(u)'
        OBVIOUS
      <4>1. CASE u = t
        <5>1. at'[t] = Idle
          BY <1>3 DEF OpenWindow
        <5> QED
          BY <4>1, <5>1, StepsOf DEF InMemory
      <4>2. CASE u # t
        <5>1. at'[u] = at[u]
          BY <1>3, <4>2, <3>2 DEF OpenWindow, ThreadsOf, InMemory
        <5> QED
          BY <4>2, <5>1, <3>2 DEF InMemory
      <4> QED
        BY <4>1, <4>2
    <3>4. mem'[q].count = 1 /\ passed'[q] = 1
      BY <1>3, <2>0 DEF OpenWindow, Types, WindowInv
    <3>5. \A u \in ThreadsOf(q) : at'[u].step # "count"
      BY <3>3 DEF InMemory
    <3> QED
      BY <3>3, <3>4, <3>5 DEF Sole
  <2> QED
    BY <2>1, <2>2, <2>3 DEF WindowInv
<1>4. ASSUME NEW t \in Thread, CountHit(t) PROVE WindowInv'
  <2> DEFINE q == ProcessOf[t]
             n == Up(at[t].n)
  <2>0. q \in Process /\ InMemory(t) /\ t \in ThreadsOf(q) /\ passed[q] \in Nat
    BY <1>4 DEF CountHit, InMemory, ThreadsOf, WindowInv
  <2>1. at[t].n \in 0 .. limit + 1 /\ at[t].here \in BOOLEAN
    BY <1>4, PlaceFacts DEF CountHit, Types
  <2>2. passed' \in [Process -> Nat]
    <3>1. Up(passed[q]) \in Nat
      BY <2>0 DEF Up
    <3> QED
      BY <1>4, <2>0, <3>1 DEF CountHit, WindowInv
  <2>3. at' = [at EXCEPT ![t] = Idle] /\ at'[t] = Idle /\ raced' = raced
    BY <1>4 DEF CountHit, Go, Types
  <2>4. ~InMemory(t)'
    BY <2>3, StepsOf DEF InMemory
  <2>5. ASSUME NEW p \in Process, p \notin raced', p # q PROVE Sole(p)'
    <3>1. mem'[p] = mem[p] /\ passed'[p] = passed[p]
      BY <1>4, <2>5 DEF CountHit, Types, WindowInv
    <3>2. Sole(p)
      BY <2>3, <2>5 DEF WindowInv
    <3> QED
      BY <2>3, <2>4, <3>1, <3>2, ElsewhereKeepsSole
  <2>6. ASSUME q \notin raced' PROVE Sole(q)'
    <3>1. Sole(q)
      BY <2>0, <2>3, <2>6 DEF WindowInv
    <3>2. at[t].here /\ at[t].n = mem[q].count
      BY <1>4, <2>0, <3>1 DEF Sole, CountHit
    <3>3. mem'[q].count = n
      BY <1>4, <2>0, <3>2 DEF CountHit, Types
    <3>4. passed'[q] = IF n <= limit THEN Up(passed[q]) ELSE passed[q]
      BY <1>4, <2>0, <3>2 DEF CountHit, WindowInv
    <3>5. passed'[q] = IF n > limit THEN limit ELSE n
      BY <2>1, <3>1, <3>2, <3>4 DEF Sole, Up
    <3>6. \A u \in ThreadsOf(q) : ~InMemory(u)'
      <4>1. \A u \in ThreadsOf(q) \ {t} : ~InMemory(u)
        BY <2>0, <3>1 DEF Sole
      <4>2. \A u \in Thread \ {t} : at'[u] = at[u]
        BY <2>3 DEF Types
      <4> QED
        BY <2>4, <4>1, <4>2 DEF InMemory, ThreadsOf
    <3>7. \A u \in ThreadsOf(q) : at'[u].step # "count"
      BY <3>6 DEF InMemory
    <3> QED
      BY <3>3, <3>5, <3>6, <3>7 DEF Sole
  <2> QED
    BY <2>2, <2>5, <2>6 DEF WindowInv
<1>5. ASSUME NEW q \in Process, Crash(q) PROVE WindowInv'
  <2>1. passed' \in [Process -> Nat]
    BY <1>5 DEF Crash, WindowInv
  <2>2. ASSUME NEW p \in Process, p \notin raced', p # q PROVE Sole(p)'
    <3>1. Sole(p)
      BY <1>5, <2>2 DEF Crash, WindowInv
    <3>2. \A u \in ThreadsOf(p) : at'[u] = at[u]
      BY <1>5, <2>2 DEF Crash, ThreadsOf
    <3>3. mem'[p] = mem[p] /\ passed'[p] = passed[p]
      BY <1>5, <2>2 DEF Crash, Types, WindowInv
    <3> QED
      BY <3>1, <3>2, <3>3 DEF Sole, InMemory
  <2>3. Sole(q)'
    <3>1. \A u \in ThreadsOf(q) : at'[u] = Idle
      BY <1>5 DEF Crash, ThreadsOf
    <3>2. \A u \in ThreadsOf(q) : ~InMemory(u)' /\ at'[u].step # "count"
      BY <3>1, StepsOf DEF InMemory
    <3>3. mem'[q].count = 0 /\ passed'[q] = 0
      BY <1>5 DEF Crash, Types, WindowInv, NoWindow
    <3> QED
      BY <3>2, <3>3 DEF Sole
  <2> QED
    BY <2>1, <2>2, <2>3 DEF WindowInv
<1>6. ASSUME Tick PROVE WindowInv'
  <2>1. UNCHANGED <<passed, raced>>
    BY <1>6 DEF Tick
  <2>2. \A u \in Thread : /\ at'[u].step = at[u].step
                          /\ at[u].step = "count" => at'[u] = at[u]
    <3> SUFFICES ASSUME NEW u \in Thread
                 PROVE  at'[u].step = at[u].step /\ (at[u].step = "count" => at'[u] = at[u])
      OBVIOUS
    <3>1. at[u].step = "open" => at[u].late \in Int
      BY PlaceFacts DEF Types
    <3> QED
      BY <1>6, <3>1, StepsOf DEF Tick
  <2>3. \A p \in Process : mem'[p].count = mem[p].count
    BY <1>6 DEF Tick, Types
  <2>4. ASSUME NEW p \in Process, Sole(p) PROVE Sole(p)'
    BY <2>1, <2>2, <2>3, <2>4 DEF Sole, InMemory, ThreadsOf
  <2> QED
    BY <2>1, <2>4 DEF WindowInv
<1>7. ASSUME UNCHANGED vars PROVE WindowInv'
  BY <1>7 DEF vars, WindowInv, Sole, InMemory
<1> QED
  BY <1>1, <1>2, <1>3, <1>4, <1>5, <1>6, <1>7 DEF Next

\* The fallback lets no more than limit requests of a process pass in one
\* window unless look-ups of it overlapped, for any limit, window and number
\* of threads and processes.
THEOREM MemoryWindowAlwaysHolds == Spec => []MemoryWindowHolds
<1>1. Init => WindowInv
  <2> SUFFICES ASSUME Init PROVE WindowInv
    OBVIOUS
  <2>1. \A t \in Thread : ~InMemory(t) /\ at[t].step # "count"
    BY StepsOf DEF Init, InMemory
  <2> QED
    BY <2>1, RateLimitAssumption DEF Init, WindowInv, Sole, NoWindow, ThreadsOf
<1>2. RateLimitTypeOK => Types
  BY TypeOKIs
<1>3. Types /\ WindowInv => MemoryWindowHolds
  BY SoleHolds
<1> QED
  BY <1>1, <1>2, <1>3, NextWindowInv, BucketIsAttended, PTL DEF Spec

===============================================================================
