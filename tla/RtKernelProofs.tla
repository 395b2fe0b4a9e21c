--------------------------- MODULE RtKernelProofs ---------------------------
(***************************************************************************)
(* Theorems about the kernel, for any threads, priorities, time slices and *)
(* roles: no thread gets lost, the highest priority runs, what threads and *)
(* interrupts see of a semaphore is a counting semaphore, and timers fire  *)
(* at their tick, in order, across the wrap of the tick.                   *)
(***************************************************************************)
EXTENDS RtKernel, SequenceTheorems, FiniteSetTheorems, TLAPS

(* What every function of the scheduler keeps of its data, as one value s. *)
SchedType(s) ==
  s \in [cur : Thread, stat : [Thread -> Stats], yield : [Thread -> BOOLEAN],
         queue : [Prios -> Seq(Thread)]]

InQueues(s) ==
  \A p \in Prios : /\ IsInjective(s.queue[p])
                   /\ Range(s.queue[p]) = {t \in Thread : s.stat[t] = "ready" /\ Prio[t] = p}

OneRuns(s) ==
  /\ s.stat[s.cur] \notin {"ready", "init"}
  /\ \A t \in Thread : s.stat[t] = "running" => t = s.cur

SchedOK(s) ==
  /\ SchedType(s) /\ InQueues(s) /\ OneRuns(s)
  /\ s.stat[Idle] \in {"ready", "running"}

(* No ready thread has a higher priority than the present one.             *)
NoneBefore(s) == \A u \in Thread : s.stat[u] = "ready" => ~Before(u, s.cur)

(* A thread at a place of its own code runs, and rightly so unless an      *)
(* interrupt is about to reschedule; a thread that waits for the semaphore *)
(* is in rt_sem_take without an error, one that sleeps is not.             *)
InOwnCode(t) == pc[t] \in {"run", "took"}

(* The list of timers: each thread has at most one in it.                  *)
Timers == [thread : Thread, at : 0..TickMod-1]
Once(list) == \A i, j \in DOMAIN list : list[i].thread = list[j].thread => i = j
Timed(list) == {x.thread : x \in Range(list)}

(* Who is suspended will be woken.                                         *)
Waits ==
  /\ IsInjective(waiters) /\ Once(timers)
  /\ Range(waiters) \cup Timed(timers) = {t \in Thread : k.stat[t] = "suspend"}

Sleeping == Timed(timers) \ Range(waiters)

Places ==
  /\ InOwnCode(k.cur) => k.stat[k.cur] = "running"
  /\ InOwnCode(k.cur) /\ uart = "off" => NoneBefore(k)
  /\ \A t \in Range(waiters) : pc[t] \in {"take", "took"} /\ err[t] = "OK"
  /\ \A t \in Sleeping : pc[t] \in {"sched", "run"}

IInv == TypeOK /\ SchedOK(k) /\ Waits /\ Places
-----------------------------------------------------------------------------
(* The entries of a sequence that loses its i-th one.                      *)
LEMMA RemoveAtIs ==
  ASSUME NEW S, NEW s \in Seq(S), NEW i \in 1..Len(s)
  PROVE  /\ RemoveAt(s, i) \in Seq(S)
         /\ Len(RemoveAt(s, i)) = Len(s) - 1
         /\ \A j \in 1..Len(s)-1 : RemoveAt(s, i)[j] = IF j < i THEN s[j] ELSE s[j + 1]
<1>. DEFINE a == SubSeq(s, 1, i-1)
            b == SubSeq(s, i+1, Len(s))
<1>1. Len(s) \in Nat /\ \A j \in 1..Len(s) : s[j] \in S
  BY ElementOfSeq
<1>2. /\ a \in Seq(S) /\ Len(a) = i - 1
      /\ \A j \in 1..i-1 : a[j] = s[j]
  <2>1. \A j \in 1..i-1 : s[j] \in S
    BY <1>1
  <2>2. /\ a \in Seq(S) /\ Len(a) = IF 1 <= i - 1 THEN (i - 1) - 1 + 1 ELSE 0
        /\ \A j \in 1..(i - 1) - 1 + 1 : a[j] = s[1 + j - 1]
    BY <2>1, <1>1, SubSeqProperties, i - 1 \in Int, 1 \in Int
  <2>3. QED
    BY <2>2
<1>3. /\ b \in Seq(S) /\ Len(b) = Len(s) - i
      /\ \A j \in 1..Len(s)-i : b[j] = s[i + j]
  <2>1. \A j \in i+1..Len(s) : s[j] \in S
    BY <1>1
  <2>2. /\ b \in Seq(S) /\ Len(b) = IF i + 1 <= Len(s) THEN Len(s) - (i + 1) + 1 ELSE 0
        /\ \A j \in 1..Len(s) - (i + 1) + 1 : b[j] = s[i + 1 + j - 1]
    BY <2>1, <1>1, SubSeqProperties, i + 1 \in Int
  <2>3. QED
    BY <2>2, <1>1
<1>. DEFINE r == a \o b
<1>4. /\ r \in Seq(S) /\ Len(r) = Len(s) - 1
      /\ \A j \in 1..Len(s)-1 : r[j] = IF j <= i - 1 THEN a[j] ELSE b[j - (i - 1)]
  <2>1. /\ r \in Seq(S) /\ Len(r) = Len(a) + Len(b)
        /\ \A j \in 1..Len(a) + Len(b) : r[j] = IF j <= Len(a) THEN a[j] ELSE b[j - Len(a)]
    BY <1>2, <1>3, ConcatProperties
  <2>. HIDE DEF r, a, b
  <2>2. Len(a) + Len(b) = Len(s) - 1
    BY <1>1, <1>2, <1>3
  <2>3. QED
    BY <2>1, <2>2, <1>2
<1>5. RemoveAt(s, i) = r
  BY DEF RemoveAt
<1>. HIDE DEF r, a, b
<1>6. ASSUME NEW j \in 1..Len(s)-1
      PROVE  r[j] = IF j < i THEN s[j] ELSE s[j + 1]
  <2>1. CASE j < i
    BY <2>1, <1>1, <1>2, <1>4
  <2>2. CASE ~(j < i)
    <3>1. r[j] = b[j - (i - 1)]
      BY <2>2, <1>1, <1>4
    <3>2. j - (i - 1) \in 1..Len(s)-i /\ i + (j - (i - 1)) = j + 1
      BY <2>2, <1>1
    <3>3. QED
      BY <3>1, <3>2, <1>3, <2>2
  <2>3. QED
    BY <2>1, <2>2
<1>7. QED
  BY <1>4, <1>5, <1>6

(* The entries of a sequence that gets x as its i-th one.                  *)
LEMMA InsertAtIs ==
  ASSUME NEW S, NEW s \in Seq(S), NEW i \in 1..Len(s)+1, NEW x \in S
  PROVE  /\ InsertAt(s, i, x) \in Seq(S)
         /\ Len(InsertAt(s, i, x)) = Len(s) + 1
         /\ \A j \in 1..Len(s)+1 :
              InsertAt(s, i, x)[j] = IF j < i THEN s[j] ELSE IF j = i THEN x ELSE s[j - 1]
<1>. DEFINE a == SubSeq(s, 1, i-1)
            b == SubSeq(s, i, Len(s))
            c == a \o <<x>>
            r == c \o b
<1>1. Len(s) \in Nat /\ \A j \in 1..Len(s) : s[j] \in S
  BY ElementOfSeq
<1>2. /\ a \in Seq(S) /\ Len(a) = i - 1
      /\ \A j \in 1..i-1 : a[j] = s[j]
  <2>1. \A j \in 1..i-1 : s[j] \in S
    BY <1>1
  <2>2. /\ a \in Seq(S) /\ Len(a) = IF 1 <= i - 1 THEN (i - 1) - 1 + 1 ELSE 0
        /\ \A j \in 1..(i - 1) - 1 + 1 : a[j] = s[1 + j - 1]
    BY <2>1, <1>1, SubSeqProperties, i - 1 \in Int, 1 \in Int
  <2>3. QED
    BY <2>2
<1>3. /\ b \in Seq(S) /\ Len(b) = Len(s) - i + 1
      /\ \A j \in 1..Len(s)-i+1 : b[j] = s[i + j - 1]
  <2>1. \A j \in i..Len(s) : s[j] \in S
    BY <1>1
  <2>2. /\ b \in Seq(S) /\ Len(b) = IF i <= Len(s) THEN Len(s) - i + 1 ELSE 0
        /\ \A j \in 1..Len(s) - i + 1 : b[j] = s[i + j - 1]
    BY <2>1, <1>1, SubSeqProperties, i \in Int
  <2>3. QED
    BY <2>2, <1>1
<1>4. <<x>> \in Seq(S) /\ Len(<<x>>) = 1 /\ <<x>>[1] = x
  OBVIOUS
<1>5. /\ c \in Seq(S) /\ Len(c) = i
      /\ \A j \in 1..i : c[j] = IF j < i THEN s[j] ELSE x
  <2>1. /\ c \in Seq(S) /\ Len(c) = Len(a) + Len(<<x>>)
        /\ \A j \in 1..Len(a) + Len(<<x>>) :
             c[j] = IF j <= Len(a) THEN a[j] ELSE <<x>>[j - Len(a)]
    BY <1>2, <1>4, ConcatProperties
  <2>. HIDE DEF a, c
  <2>2. QED
    BY <2>1, <1>2, <1>4
<1>6. /\ r \in Seq(S) /\ Len(r) = Len(c) + Len(b)
      /\ \A j \in 1..Len(c) + Len(b) : r[j] = IF j <= Len(c) THEN c[j] ELSE b[j - Len(c)]
  BY <1>3, <1>5, ConcatProperties
<1>7. InsertAt(s, i, x) = r
  BY DEF InsertAt
<1>. HIDE DEF r, c, a, b
<1>8. ASSUME NEW j \in 1..Len(s)+1
      PROVE  r[j] = IF j < i THEN s[j] ELSE IF j = i THEN x ELSE s[j - 1]
  <2>1. CASE j <= i
    BY <2>1, <1>1, <1>3, <1>5, <1>6
  <2>2. CASE ~(j <= i)
    <3>1. r[j] = b[j - Len(c)]
      BY <2>2, <1>1, <1>3, <1>5, <1>6
    <3>2. j - Len(c) \in 1..Len(s)-i+1 /\ i + (j - Len(c)) - 1 = j - 1
      BY <2>2, <1>1, <1>5
    <3>3. QED
      BY <3>1, <3>2, <1>3, <2>2
  <2>3. QED
    BY <2>1, <2>2
<1>9. QED
  BY <1>1, <1>3, <1>5, <1>6, <1>7, <1>8

(* A set of naturals has a least element: of the finite sets T \cap 0..n   *)
(* one contains no other.                                                  *)
LEMMA Least ==
  ASSUME NEW T, T \subseteq Nat, T # {}
  PROVE  \E x \in T : \A y \in T : x <= y
<1>. DEFINE Upto(n) == T \cap (0..n)
            F == {Upto(n) : n \in T}
<1>1. F \subseteq FiniteSubsetsOf(Nat)
  <2>1. ASSUME NEW n \in T PROVE Upto(n) \subseteq Nat /\ IsFiniteSet(Upto(n))
    <3>1. n \in Int /\ 0 \in Int
      BY T \subseteq Nat
    <3>2. IsFiniteSet(0..n)
      BY <3>1, FS_Interval
    <3>3. IsFiniteSet(T \cap (0..n))
      BY <3>2, FS_Intersection
    <3>4. QED
      BY <3>3
  <2>2. QED
    BY <2>1 DEF FiniteSubsetsOf
<1>2. F # {}
  OBVIOUS
<1>3. PICK U \in F : \A V \in F : <<V, U>> \notin StrictSubsetOrdering(Nat)
  BY <1>1, <1>2, WFMin, FS_StrictSubsetOrderingWellFounded
<1>4. PICK n \in T : U = Upto(n)
  BY <1>3
<1>5. ASSUME NEW y \in T, ~(n <= y) PROVE FALSE
  <2>1. y < n
    BY <1>5
  <2>2. Upto(y) \subseteq Upto(n)
    BY <2>1
  <2>3. n \in Upto(n) /\ n \notin Upto(y)
    BY <2>1
  <2>4. <<Upto(y), Upto(n)>> \in StrictSubsetOrdering(Nat)
    BY <2>2, <2>3 DEF StrictSubsetOrdering
  <2>5. QED
    BY <2>4, <1>3, <1>4
<1>6. QED
  BY <1>5
-----------------------------------------------------------------------------
(* Lists without repetition: a thread put at the end, the first one taken, *)
(* one unlinked, wherever it is.                                           *)
LEMMA AppendKeeps ==
  ASSUME NEW S, NEW s \in Seq(S), IsInjective(s), NEW x \in S, x \notin Range(s)
  PROVE  /\ Append(s, x) \in Seq(S) /\ IsInjective(Append(s, x))
         /\ Range(Append(s, x)) = Range(s) \cup {x}
<1>1. Len(s) \in Nat /\ DOMAIN s = 1..Len(s) /\ \A i \in 1..Len(s) : s[i] \in S
  BY LenProperties, ElementOfSeq
<1>. DEFINE r == Append(s, x)
<1>2. /\ r \in Seq(S) /\ DOMAIN r = 1..Len(s)+1
      /\ \A i \in 1..Len(s)+1 : r[i] = IF i <= Len(s) THEN s[i] ELSE x
  BY <1>1, AppendProperties
<1>. HIDE DEF r
<1>3. \A i \in 1..Len(s) : s[i] # x
  BY <1>1 DEF Range
<1>4. IsInjective(r)
  BY <1>1, <1>2, <1>3 DEF IsInjective
<1>5. Range(r) = Range(s) \cup {x}
  <2>1. ASSUME NEW y \in Range(r) PROVE y \in Range(s) \cup {x}
    BY <1>1, <1>2, <2>1 DEF Range
  <2>2. x \in Range(r)
    <3>1. Len(s) + 1 \in DOMAIN r /\ r[Len(s) + 1] = x
      BY <1>1, <1>2
    <3>2. QED
      BY <3>1 DEF Range
  <2>3. ASSUME NEW i \in DOMAIN s PROVE s[i] \in Range(r)
    <3>1. i \in DOMAIN r /\ r[i] = s[i]
      BY <1>1, <1>2
    <3>2. QED
      BY <3>1 DEF Range
  <2>4. QED
    BY <2>1, <2>2, <2>3 DEF Range
<1>6. QED
  BY <1>2, <1>4, <1>5 DEF r

(* The first of a list is taken out.                                       *)
LEMMA TailKeeps ==
  ASSUME NEW S, NEW s \in Seq(S), IsInjective(s), s # << >>
  PROVE  /\ Head(s) \in S /\ Head(s) \in Range(s)
         /\ Tail(s) \in Seq(S) /\ IsInjective(Tail(s))
         /\ Range(Tail(s)) = Range(s) \ {Head(s)}
<1>1. Len(s) \in Nat \ {0} /\ DOMAIN s = 1..Len(s)
  BY LenProperties, EmptySeq
<1>. DEFINE r == Tail(s)
<1>2. /\ Head(s) \in S /\ Head(s) = s[1]
      /\ r \in Seq(S) /\ DOMAIN r = 1..Len(s)-1
      /\ \A i \in 1..Len(s)-1 : r[i] = s[i + 1]
  BY <1>1, HeadTailProperties, LenProperties
<1>. HIDE DEF r
<1>3. IsInjective(r)
  <2>1. ASSUME NEW i \in 1..Len(s)-1, NEW j \in 1..Len(s)-1, r[i] = r[j] PROVE i = j
    <3>1. s[i + 1] = s[j + 1] /\ i + 1 \in DOMAIN s /\ j + 1 \in DOMAIN s
      BY <1>1, <1>2, <2>1
    <3>2. i + 1 = j + 1
      BY <3>1 DEF IsInjective
    <3>3. QED
      BY <3>2
  <2>2. QED
    BY <1>2, <2>1 DEF IsInjective
<1>4. ASSUME NEW y \in Range(r) PROVE y \in Range(s) \ {Head(s)}
  <2>1. PICK i \in 1..Len(s)-1 : y = s[i + 1]
    BY <1>2, <1>4 DEF Range
  <2>2. i + 1 \in DOMAIN s /\ 1 \in DOMAIN s /\ i + 1 # 1
    BY <1>1
  <2>3. s[i + 1] # s[1]
    BY <2>2 DEF IsInjective
  <2>4. QED
    BY <2>1, <2>2, <2>3, <1>2 DEF Range
<1>5. ASSUME NEW y \in Range(s) \ {Head(s)} PROVE y \in Range(r)
  <2>1. PICK i \in 1..Len(s) : y = s[i]
    BY <1>1, <1>5 DEF Range
  <2>2. i - 1 \in DOMAIN r /\ r[i - 1] = s[i - 1 + 1] /\ i - 1 + 1 = i
    BY <1>1, <1>2, <1>5, <2>1
  <2>3. QED
    BY <2>1, <2>2 DEF Range
<1>6. Head(s) \in Range(s)
  BY <1>1, <1>2 DEF Range
<1>7. QED
  BY <1>2, <1>3, <1>4, <1>5, <1>6 DEF r

(* Where the entries of a list are that has lost its i-th one.             *)
LEMMA Removed ==
  ASSUME NEW S, NEW s \in Seq(S), NEW i \in DOMAIN s
  PROVE  LET r == RemoveAt(s, i)
         IN  /\ r \in Seq(S)
             /\ \A j \in DOMAIN r : \E m \in DOMAIN s \ {i} : r[j] = s[m]
             /\ \A m \in DOMAIN s \ {i} : \E j \in DOMAIN r : r[j] = s[m]
             /\ \A j, l \in DOMAIN r : j # l =>
                  \E m, n \in DOMAIN s : m # n /\ r[j] = s[m] /\ r[l] = s[n]
<1>. DEFINE r == RemoveAt(s, i)
<1>1. Len(s) \in Nat /\ DOMAIN s = 1..Len(s) /\ i \in 1..Len(s)
  BY LenProperties
<1>2. /\ r \in Seq(S) /\ DOMAIN r = 1..Len(s)-1
      /\ \A j \in 1..Len(s)-1 : r[j] = IF j < i THEN s[j] ELSE s[j + 1]
  BY <1>1, RemoveAtIs, LenProperties
<1>. HIDE DEF r
<1>. DEFINE From(j) == IF j < i THEN j ELSE j + 1
<1>3. ASSUME NEW j \in DOMAIN r PROVE From(j) \in DOMAIN s \ {i} /\ r[j] = s[From(j)]
  BY <1>1, <1>2
<1>4. ASSUME NEW m \in DOMAIN s \ {i} PROVE \E j \in DOMAIN r : r[j] = s[m]
  <2>1. CASE m < i
    BY <2>1, <1>1, <1>2
  <2>2. CASE ~(m < i)
    <3>1. m - 1 \in DOMAIN r /\ r[m - 1] = s[m - 1 + 1] /\ m - 1 + 1 = m
      BY <2>2, <1>1, <1>2
    <3>2. QED
      BY <3>1
  <2>3. QED
    BY <2>1, <2>2
<1>5. ASSUME NEW j \in DOMAIN r, NEW l \in DOMAIN r, j # l PROVE From(j) # From(l)
  BY <1>1, <1>2, <1>5
<1>. HIDE DEF From
<1>6. QED
  BY <1>2, <1>3, <1>4, <1>5 DEF r

(* One entry is unlinked, wherever it is, if it is in the list.            *)
LEMMA UnlinkedKeeps ==
  ASSUME NEW S, NEW s \in Seq(S), IsInjective(s), NEW t
  PROVE  LET r == Unlinked(s, {i \in DOMAIN s : s[i] = t})
         IN  r \in Seq(S) /\ IsInjective(r) /\ Range(r) = Range(s) \ {t}
<1>. DEFINE at == {i \in DOMAIN s : s[i] = t}
            r == Unlinked(s, at)
<1>1. CASE at = {}
  BY <1>1 DEF Unlinked, Range
<1>2. CASE at # {}
  <2>1. PICK i \in DOMAIN s : s[i] = t /\ r = RemoveAt(s, i)
    BY <1>2 DEF Unlinked
  <2>. HIDE DEF r, at
  <2>2. /\ r \in Seq(S)
        /\ \A j \in DOMAIN r : \E m \in DOMAIN s \ {i} : r[j] = s[m]
        /\ \A m \in DOMAIN s \ {i} : \E j \in DOMAIN r : r[j] = s[m]
        /\ \A j, l \in DOMAIN r : j # l =>
             \E m, n \in DOMAIN s : m # n /\ r[j] = s[m] /\ r[l] = s[n]
    BY <2>1, Removed
  <2>3. IsInjective(r)
    BY <2>2 DEF IsInjective
  <2>4. \A m \in DOMAIN s \ {i} : s[m] # t
    BY <2>1 DEF IsInjective
  <2>5. Range(r) = Range(s) \ {t}
    <3>1. ASSUME NEW j \in DOMAIN r PROVE r[j] \in Range(s) \ {t}
      BY <2>2, <2>4 DEF Range
    <3>2. ASSUME NEW m \in DOMAIN s, s[m] # t PROVE s[m] \in Range(r)
      BY <2>1, <2>2, <3>2 DEF Range
    <3>3. QED
      BY <3>1, <3>2 DEF Range
  <2>6. QED
    BY <2>2, <2>3, <2>5 DEF r, at
<1>3. QED
  BY <1>1, <1>2

(* A timer is stopped, wherever it is in the list, and one started.        *)
LEMMA StoppedKeeps ==
  ASSUME NEW list \in Seq(Timers), Once(list), NEW t
  PROVE  LET r == Stopped(list, t)
         IN  r \in Seq(Timers) /\ Once(r) /\ Timed(r) = Timed(list) \ {t}
<1>. DEFINE at == {i \in DOMAIN list : list[i].thread = t}
            r == Stopped(list, t)
<1>1. CASE at = {}
  BY <1>1 DEF Stopped, Unlinked, Range, Timed
<1>2. CASE at # {}
  <2>1. PICK i \in DOMAIN list : list[i].thread = t /\ r = RemoveAt(list, i)
    BY <1>2 DEF Stopped, Unlinked
  <2>. HIDE DEF r, at
  <2>2. /\ r \in Seq(Timers)
        /\ \A j \in DOMAIN r : \E m \in DOMAIN list \ {i} : r[j] = list[m]
        /\ \A m \in DOMAIN list \ {i} : \E j \in DOMAIN r : r[j] = list[m]
        /\ \A j, l \in DOMAIN r : j # l =>
             \E m, n \in DOMAIN list : m # n /\ r[j] = list[m] /\ r[l] = list[n]
    BY <2>1, Removed
  <2>3. Once(r)
    <3>1. ASSUME NEW j \in DOMAIN r, NEW l \in DOMAIN r, j # l
          PROVE  r[j].thread # r[l].thread
      <4>1. PICK m \in DOMAIN list, n \in DOMAIN list :
              m # n /\ r[j] = list[m] /\ r[l] = list[n]
        BY <2>2, <3>1
      <4>2. list[m].thread # list[n].thread
        BY <4>1 DEF Once
      <4>3. QED
        BY <4>1, <4>2
    <3>2. QED
      BY <3>1 DEF Once
  <2>4. ASSUME NEW m \in DOMAIN list \ {i} PROVE list[m].thread # t
    <3>1. list[m].thread = list[i].thread => m = i
      BY DEF Once
    <3>2. QED
      BY <2>1, <3>1
  <2>5. Timed(r) = Timed(list) \ {t}
    <3>1. ASSUME NEW j \in DOMAIN r PROVE r[j].thread \in Timed(list) \ {t}
      BY <2>2, <2>4 DEF Range, Timed
    <3>2. ASSUME NEW m \in DOMAIN list, list[m].thread # t
          PROVE  list[m].thread \in Timed(r)
      BY <2>1, <2>2, <3>2 DEF Range, Timed
    <3>3. QED
      BY <3>1, <3>2 DEF Range, Timed
  <2>6. QED
    BY <2>2, <2>3, <2>5 DEF r, at
<1>3. QED
  BY <1>1, <1>2

(* A timer is linked in before the first of those that are due later.      *)
LEMMA LinkedKeeps ==
  ASSUME NEW list \in Seq(Timers), Once(list), NEW x \in Timers,
         x.thread \notin Timed(list), NEW later, later \subseteq DOMAIN list
  PROVE  LET r == Linked(list, x, later)
         IN  r \in Seq(Timers) /\ Once(r) /\ Timed(r) = Timed(list) \cup {x.thread}
<1>1. Len(list) \in Nat /\ DOMAIN list = 1..Len(list)
  BY LenProperties
<1>2. \E n \in later \cup {Len(list) + 1} : \A i \in later : n <= i
  <2>1. CASE later = {}
    BY <2>1
  <2>2. CASE later # {}
    <3>1. later \subseteq Nat
      BY <1>1
    <3>2. QED
      BY <2>2, <3>1, Least
  <2>3. QED
    BY <2>1, <2>2
<1>. DEFINE Place == CHOOSE n \in later \cup {Len(list) + 1} : \A i \in later : n <= i
            r == Linked(list, x, later)
<1>3. Place \in 1..Len(list)+1
  BY <1>1, <1>2
<1>4. r = InsertAt(list, Place, x)
  BY DEF Linked
<1>. HIDE DEF Place, r
<1>5. /\ r \in Seq(Timers) /\ DOMAIN r = 1..Len(list)+1
      /\ \A j \in 1..Len(list)+1 :
           r[j] = IF j < Place THEN list[j] ELSE IF j = Place THEN x ELSE list[j - 1]
  <2>1. /\ r \in Seq(Timers) /\ Len(r) = Len(list) + 1
        /\ \A j \in 1..Len(list)+1 :
             r[j] = IF j < Place THEN list[j] ELSE IF j = Place THEN x ELSE list[j - 1]
    <3>. DEFINE b == InsertAt(list, Place, x)
    <3>1. /\ b \in Seq(Timers) /\ Len(b) = Len(list) + 1
          /\ \A j \in 1..Len(list)+1 :
               b[j] = IF j < Place THEN list[j] ELSE IF j = Place THEN x ELSE list[j - 1]
      BY <1>3, InsertAtIs, SMTT(60)
    <3>. HIDE DEF b
    <3>2. QED
      BY <3>1, <1>4 DEF b
  <2>2. QED
    BY <1>1, <2>1, LenProperties
<1>. DEFINE From(j) == IF j < Place THEN j ELSE j - 1
<1>6. ASSUME NEW j \in DOMAIN r, j # Place
      PROVE  From(j) \in DOMAIN list /\ r[j] = list[From(j)]
  BY <1>1, <1>3, <1>5, <1>6
<1>7. ASSUME NEW j \in DOMAIN r, NEW l \in DOMAIN r, j # Place, l # Place, j # l
      PROVE  From(j) # From(l)
  BY <1>1, <1>3, <1>5, <1>7
<1>8. Place \in DOMAIN r /\ r[Place] = x
  BY <1>1, <1>3, <1>5
<1>9. ASSUME NEW m \in DOMAIN list PROVE \E j \in DOMAIN r : r[j] = list[m]
  <2>1. CASE m < Place
    BY <2>1, <1>1, <1>3, <1>5
  <2>2. CASE ~(m < Place)
    <3>1. m + 1 \in DOMAIN r /\ r[m + 1] = list[m + 1 - 1] /\ m + 1 - 1 = m
      BY <2>2, <1>1, <1>3, <1>5
    <3>2. QED
      BY <3>1
  <2>3. QED
    BY <2>1, <2>2
<1>. HIDE DEF From
<1>10. \A m \in DOMAIN list : list[m].thread # x.thread
  BY DEF Timed, Range
<1>11. Once(r)
  <2>1. ASSUME NEW j \in DOMAIN r, NEW l \in DOMAIN r, j # l
        PROVE  r[j].thread # r[l].thread
    BY <2>1, <1>6, <1>7, <1>8, <1>10 DEF Once
  <2>2. QED
    BY <2>1 DEF Once
<1>12. Timed(r) = Timed(list) \cup {x.thread}
  <2>1. ASSUME NEW j \in DOMAIN r PROVE r[j].thread \in Timed(list) \cup {x.thread}
    BY <1>6, <1>8 DEF Timed, Range
  <2>2. ASSUME NEW m \in DOMAIN list PROVE list[m].thread \in Timed(r)
    BY <1>9 DEF Timed, Range
  <2>3. x.thread \in Timed(r)
    BY <1>8 DEF Timed, Range
  <2>4. QED
    BY <2>1, <2>2, <2>3 DEF Timed, Range
<1>13. QED
  BY <1>5, <1>11, <1>12 DEF r

(* The first timer is taken out.                                           *)
LEMMA FirstTimer ==
  ASSUME NEW list \in Seq(Timers), Once(list), list # << >>
  PROVE  /\ Head(list) \in Timers /\ Head(list).thread \in Timed(list)
         /\ Tail(list) \in Seq(Timers) /\ Once(Tail(list))
         /\ Timed(Tail(list)) = Timed(list) \ {Head(list).thread}
<1>1. IsInjective(list)
  BY DEF Once, IsInjective
<1>2. /\ Head(list) \in Timers /\ Head(list) \in Range(list)
      /\ Tail(list) \in Seq(Timers)
      /\ Range(Tail(list)) = Range(list) \ {Head(list)}
  BY <1>1, TailKeeps
<1>3. \A x, y \in Range(list) : x.thread = y.thread => x = y
  BY DEF Once, Range
<1>4. Timed(Tail(list)) = Timed(list) \ {Head(list).thread}
  BY <1>2, <1>3 DEF Timed
<1>5. Once(Tail(list))
  <2>1. IsInjective(Tail(list))
    BY <1>1, TailKeeps
  <2>2. \A x, y \in Range(Tail(list)) : x.thread = y.thread => x = y
    BY <1>2, <1>3
  <2>3. QED
    BY <2>1, <2>2 DEF Once, IsInjective, Range
<1>6. QED
  BY <1>2, <1>4, <1>5 DEF Timed
-----------------------------------------------------------------------------
(* The scheduler.  First what it does to the queues: a thread is appended  *)
(* to that of its priority, the first one is taken out.                    *)
Lists(s) == SchedType(s) /\ InQueues(s)

(* Priorities are numbers, one queue for each.                             *)
LEMMA PriosTyped == \A t \in Thread : Prio[t] \in Prios /\ Prio[t] \in Nat
BY KernelAssumption DEF Prios

(* rt_schedule_insert_thread for a thread that is not the present one.     *)
LEMMA InsertedLists ==
  ASSUME NEW s, Lists(s), NEW t \in Thread, t # s.cur, s.stat[t] # "ready"
  PROVE  LET r == Inserted(s, t)
         IN  /\ Lists(r) /\ r.cur = s.cur /\ r.yield = s.yield
             /\ r.stat = [s.stat EXCEPT ![t] = "ready"]
             /\ \A p \in Prios : s.queue[p] # << >> =>
                                   r.queue[p] # << >> /\ Head(r.queue[p]) = Head(s.queue[p])
<1>. DEFINE q == s.queue[Prio[t]]
            r == Inserted(s, t)
<1>1. Prio[t] \in Prios
  BY PriosTyped
<1>2. /\ r = [s EXCEPT !.stat[t] = "ready", !.queue[Prio[t]] = Append(q, t)]
      /\ s.queue \in [Prios -> Seq(Thread)] /\ s.stat \in [Thread -> Stats]
      /\ s.yield \in [Thread -> BOOLEAN] /\ s.cur \in Thread
  BY DEF Inserted, Lists, SchedType
<1>3. /\ r.cur = s.cur /\ r.yield = s.yield
      /\ r.stat = [s.stat EXCEPT ![t] = "ready"]
      /\ r.queue = [s.queue EXCEPT ![Prio[t]] = Append(q, t)]
      /\ r = [cur |-> r.cur, stat |-> r.stat, yield |-> r.yield, queue |-> r.queue]
  BY <1>2 DEF Lists, SchedType
<1>4. q \in Seq(Thread) /\ IsInjective(q) /\ t \notin Range(q)
  BY <1>1 DEF Lists, SchedType, InQueues
<1>5. /\ Append(q, t) \in Seq(Thread) /\ IsInjective(Append(q, t))
      /\ Range(Append(q, t)) = Range(q) \cup {t}
  BY <1>4, AppendKeeps
<1>. HIDE DEF r
<1>6. SchedType(r)
  BY <1>1, <1>2, <1>3, <1>5 DEF SchedType, Stats
<1>7. InQueues(r)
  <2>1. ASSUME NEW p \in Prios, p # Prio[t]
        PROVE  IsInjective(r.queue[p]) /\
               Range(r.queue[p]) = {u \in Thread : r.stat[u] = "ready" /\ Prio[u] = p}
    <3>1. r.queue[p] = s.queue[p]
      BY <1>2, <1>3, <2>1
    <3>2. \A u \in Thread : Prio[u] = p => r.stat[u] = s.stat[u]
      BY <1>2, <1>3, <2>1
    <3>3. QED
      BY <3>1, <3>2 DEF Lists, InQueues
  <2>2. /\ IsInjective(r.queue[Prio[t]])
        /\ Range(r.queue[Prio[t]]) =
             {u \in Thread : r.stat[u] = "ready" /\ Prio[u] = Prio[t]}
    <3>1. r.queue[Prio[t]] = Append(q, t)
      BY <1>1, <1>2, <1>3
    <3>2. Range(q) = {u \in Thread : s.stat[u] = "ready" /\ Prio[u] = Prio[t]}
      BY <1>1 DEF Lists, InQueues
    <3>3. \A u \in Thread : r.stat[u] = IF u = t THEN "ready" ELSE s.stat[u]
      BY <1>2, <1>3
    <3>. HIDE DEF q
    <3>4. QED
      BY <3>1, <3>2, <3>3, <1>5
  <2>3. QED
    BY <2>1, <2>2 DEF InQueues
<1>8. ASSUME NEW p \in Prios, s.queue[p] # << >>
      PROVE  r.queue[p] # << >> /\ Head(r.queue[p]) = Head(s.queue[p])
  <2>1. CASE p = Prio[t]
    <3>1. r.queue[p] = Append(q, t) /\ q # << >>
      BY <1>2, <1>3, <1>8, <2>1
    <3>. HIDE DEF q
    <3>2. Len(q) \in Nat \ {0}
      BY <1>4, <3>1, EmptySeq, LenProperties
    <3>3. Len(Append(q, t)) = Len(q) + 1 /\ Append(q, t)[1] = q[1]
      BY <1>4, <3>2, AppendProperties
    <3>4. Append(q, t) # << >>
      BY <3>2, <3>3
    <3>5. QED
      BY <1>4, <1>5, <3>1, <3>3, <3>4, <2>1, HeadTailProperties DEF q
  <2>2. CASE p # Prio[t]
    BY <1>2, <1>3, <1>8, <2>2
  <2>3. QED
    BY <2>1, <2>2
<1>9. QED
  BY <1>3, <1>6, <1>7, <1>8 DEF r, Lists

(* rt_schedule_remove_thread for the thread the scheduler has chosen.      *)
LEMMA TakenLists ==
  ASSUME NEW s, Lists(s), NEW t \in Thread, s.queue[Prio[t]] # << >>,
         t = Head(s.queue[Prio[t]])
  PROVE  LET r == [s EXCEPT !.queue[Prio[t]] = Tail(@), !.stat[t] = "running"]
         IN  /\ Lists(r) /\ r.cur = s.cur /\ r.yield = s.yield
             /\ r.stat = [s.stat EXCEPT ![t] = "running"]
<1>. DEFINE q == s.queue[Prio[t]]
            r == [s EXCEPT !.queue[Prio[t]] = Tail(@), !.stat[t] = "running"]
<1>1. Prio[t] \in Prios
  BY PriosTyped
<1>0. r = [s EXCEPT !.queue[Prio[t]] = Tail(q), !.stat[t] = "running"]
  OBVIOUS
<1>2. /\ s.queue \in [Prios -> Seq(Thread)] /\ s.stat \in [Thread -> Stats]
      /\ s.yield \in [Thread -> BOOLEAN] /\ s.cur \in Thread
  BY DEF Lists, SchedType
<1>3. /\ r.cur = s.cur /\ r.yield = s.yield
      /\ r.stat = [s.stat EXCEPT ![t] = "running"]
      /\ r.queue = [s.queue EXCEPT ![Prio[t]] = Tail(q)]
      /\ r = [cur |-> r.cur, stat |-> r.stat, yield |-> r.yield, queue |-> r.queue]
  <2>. HIDE DEF r, q
  <2>1. QED
    BY <1>0, <1>2 DEF Lists, SchedType
<1>4. q \in Seq(Thread) /\ IsInjective(q) /\ q # << >> /\ t = Head(q)
  BY <1>1 DEF Lists, SchedType, InQueues
<1>5. /\ Tail(q) \in Seq(Thread) /\ IsInjective(Tail(q))
      /\ Range(Tail(q)) = Range(q) \ {t}
  BY <1>4, TailKeeps
<1>. HIDE DEF r
<1>6. SchedType(r)
  BY <1>1, <1>2, <1>3, <1>5 DEF SchedType, Stats
<1>7. InQueues(r)
  <2>1. ASSUME NEW p \in Prios, p # Prio[t]
        PROVE  IsInjective(r.queue[p]) /\
               Range(r.queue[p]) = {u \in Thread : r.stat[u] = "ready" /\ Prio[u] = p}
    <3>1. r.queue[p] = s.queue[p]
      BY <1>2, <1>3, <2>1
    <3>2. \A u \in Thread : Prio[u] = p => r.stat[u] = s.stat[u]
      BY <1>2, <1>3, <2>1
    <3>3. QED
      BY <3>1, <3>2 DEF Lists, InQueues
  <2>2. /\ IsInjective(r.queue[Prio[t]])
        /\ Range(r.queue[Prio[t]]) =
             {u \in Thread : r.stat[u] = "ready" /\ Prio[u] = Prio[t]}
    <3>1. r.queue[Prio[t]] = Tail(q)
      BY <1>1, <1>2, <1>3
    <3>2. Range(q) = {u \in Thread : s.stat[u] = "ready" /\ Prio[u] = Prio[t]}
      BY <1>1 DEF Lists, InQueues
    <3>3. \A u \in Thread : r.stat[u] = IF u = t THEN "running" ELSE s.stat[u]
      BY <1>2, <1>3
    <3>. HIDE DEF q
    <3>4. QED
      BY <3>1, <3>2, <3>3, <1>5
  <2>3. QED
    BY <2>1, <2>2 DEF InQueues
<1>8. QED
  BY <1>3, <1>6, <1>7 DEF r, Lists

(* The first thread of the first queue that is not empty is ready, and no  *)
(* ready thread has a higher priority.                                     *)
LEMMA HighestIs ==
  ASSUME NEW s, Lists(s), ~ \A p \in Prios : s.queue[p] = << >>
  PROVE  LET to == Highest(s)
         IN  /\ to \in Thread /\ s.stat[to] = "ready"
             /\ s.queue[Prio[to]] # << >> /\ to = Head(s.queue[Prio[to]])
             /\ \A u \in Thread : s.stat[u] = "ready" => Prio[to] <= Prio[u]
<1>. DEFINE Full == {p \in Prios : s.queue[p] # << >>}
            First == CHOOSE p \in Prios : /\ s.queue[p] # << >>
                                          /\ \A q \in Prios : s.queue[q] # << >> => p <= q
<1>1. \E p \in Full : \A q \in Full : p <= q
  <2>1. Full \subseteq Nat
    BY KernelAssumption DEF Prios
  <2>. HIDE DEF Full
  <2>2. Full # {}
    BY DEF Full
  <2>3. QED
    BY <2>1, <2>2, Least
<1>2. /\ First \in Prios /\ s.queue[First] # << >>
      /\ \A q \in Prios : s.queue[q] # << >> => First <= q
  BY <1>1
<1>3. Highest(s) = Head(s.queue[First])
  BY DEF Highest
<1>. HIDE DEF First
<1>4. s.queue[First] \in Seq(Thread) /\ IsInjective(s.queue[First])
  BY <1>2 DEF Lists, SchedType, InQueues
<1>5. Highest(s) \in Thread /\ Highest(s) \in Range(s.queue[First])
  BY <1>2, <1>3, <1>4, TailKeeps
<1>6. s.stat[Highest(s)] = "ready" /\ Prio[Highest(s)] = First
  BY <1>2, <1>5 DEF Lists, InQueues
<1>7. ASSUME NEW u \in Thread, s.stat[u] = "ready" PROVE First <= Prio[u]
  <2>1. Prio[u] \in Prios /\ u \in Range(s.queue[Prio[u]])
    BY <1>7, PriosTyped DEF Lists, InQueues
  <2>2. s.queue[Prio[u]] # << >>
    BY <2>1 DEF Range
  <2>3. QED
    BY <2>1, <2>2, <1>2
<1>8. QED
  BY <1>2, <1>3, <1>5, <1>6, <1>7

(* rt_schedule, from any state of the scheduler: afterwards the present    *)
(* thread runs and none of higher priority is ready; it takes away nobody's*)
(* wish to run, and gives it to nobody.                                    *)
SameWish(s, r) ==
  \A t \in Thread : \/ r.stat[t] = s.stat[t]
                    \/ {r.stat[t], s.stat[t]} \subseteq {"ready", "running"}

(* rt_schedule when the present thread stays.                              *)
LEMMA StaysOK ==
  ASSUME NEW s, SchedOK(s), ~ \A p \in Prios : s.queue[p] = << >>, Stays(s)
  PROVE  LET r == Scheduled(s)
         IN  /\ SchedOK(r) /\ r.stat[r.cur] = "running" /\ NoneBefore(r)
             /\ SameWish(s, r)
<1>. DEFINE r == Scheduled(s)
            to == Highest(s)
<1>1. /\ s.yield \in [Thread -> BOOLEAN] /\ s.cur \in Thread /\ s.stat[s.cur] = "running"
      /\ s \in [cur : Thread, stat : [Thread -> Stats], yield : [Thread -> BOOLEAN],
                queue : [Prios -> Seq(Thread)]]
  BY DEF SchedOK, SchedType, Stays
<1>2. r = [s EXCEPT !.yield[s.cur] = FALSE]
  BY <1>1 DEF Scheduled
<1>3. to \in Thread /\ \A u \in Thread : s.stat[u] = "ready" => Prio[to] <= Prio[u]
  BY HighestIs DEF SchedOK, Lists
<1>4. Prio[s.cur] <= Prio[to]
  BY <1>1, <1>3, PriosTyped DEF Stays, Before
<1>. HIDE DEF r, to
<1>5. /\ r.cur = s.cur /\ r.stat = s.stat /\ r.queue = s.queue
      /\ SchedType(r)
  BY <1>1, <1>2 DEF SchedType
<1>6. NoneBefore(r)
  BY <1>1, <1>3, <1>4, <1>5, PriosTyped DEF NoneBefore, Before
<1>7. QED
  BY <1>1, <1>5, <1>6 DEF SchedOK, InQueues, OneRuns, SameWish, r

(* rt_schedule when another thread gets the processor.                     *)
LEMMA SwitchOK ==
  ASSUME NEW s, SchedOK(s), ~ \A p \in Prios : s.queue[p] = << >>, ~Stays(s)
  PROVE  LET r == Scheduled(s)
         IN  /\ SchedOK(r) /\ r.stat[r.cur] = "running" /\ NoneBefore(r)
             /\ SameWish(s, r)
<1>. DEFINE r == Scheduled(s)
            to == Highest(s)
            from == s.cur
            runs == s.stat[from] = "running"
            unyielded == IF runs THEN [s EXCEPT !.yield[from] = FALSE] ELSE s
            moved == [unyielded EXCEPT !.cur = to]
            back == IF runs THEN Inserted(moved, from) ELSE moved
            stat == IF runs THEN [s.stat EXCEPT ![from] = "ready"] ELSE s.stat
<1>1. /\ s.yield \in [Thread -> BOOLEAN] /\ from \in Thread /\ s.stat \in [Thread -> Stats]
      /\ s \in [cur : Thread, stat : [Thread -> Stats], yield : [Thread -> BOOLEAN],
                queue : [Prios -> Seq(Thread)]]
  BY DEF SchedOK, SchedType
<1>2. /\ to \in Thread /\ s.stat[to] = "ready" /\ Prio[to] \in Prios
      /\ s.queue[Prio[to]] # << >> /\ to = Head(s.queue[Prio[to]])
      /\ \A u \in Thread : s.stat[u] = "ready" => Prio[to] <= Prio[u]
  BY HighestIs, PriosTyped DEF SchedOK, Lists
<1>3. r = [back EXCEPT !.queue[Prio[to]] = Tail(@), !.stat[to] = "running"]
  BY DEF Scheduled
<1>4. s.stat[from] \notin {"ready", "init"} /\ to # from
  BY <1>2 DEF SchedOK, OneRuns
<1>. HIDE DEF to
<1>5. /\ moved.cur = to /\ moved.stat = s.stat /\ moved.queue = s.queue
      /\ Lists(moved)
  <2>1. moved.cur = to /\ moved.stat = s.stat /\ moved.queue = s.queue /\ SchedType(moved)
    BY <1>1, <1>2 DEF SchedType
  <2>. HIDE DEF moved
  <2>2. QED
    BY <2>1 DEF Lists, SchedOK, InQueues
<1>. HIDE DEF r, moved
<1>6. /\ Lists(back) /\ back.cur = to /\ back.stat = stat
      /\ back.queue[Prio[to]] # << >> /\ to = Head(back.queue[Prio[to]])
  <2>1. CASE runs
    BY <2>1, <1>1, <1>2, <1>4, <1>5, InsertedLists
  <2>2. CASE ~runs
    BY <2>2, <1>2, <1>5
  <2>3. QED
    BY <2>1, <2>2
<1>. HIDE DEF back
<1>7. Lists(r) /\ r.cur = to /\ r.stat = [stat EXCEPT ![to] = "running"]
  <2>. DEFINE x == [back EXCEPT !.queue[Prio[to]] = Tail(@), !.stat[to] = "running"]
  <2>1. /\ Lists(x) /\ x.cur = back.cur
        /\ x.stat = [back.stat EXCEPT ![to] = "running"]
    BY <1>2, <1>6, TakenLists
  <2>2. QED
    BY <2>1, <1>3, <1>6
<1>8. \A u \in Thread : r.stat[u] = IF u = to THEN "running"
                                    ELSE IF u = from /\ runs THEN "ready" ELSE s.stat[u]
  BY <1>1, <1>2, <1>4, <1>7
<1>9. OneRuns(r)
  BY <1>1, <1>2, <1>7, <1>8 DEF OneRuns, SchedOK
<1>10. NoneBefore(r)
  <2>1. ASSUME runs PROVE Prio[to] <= Prio[from]
    <3>1. ~Before(from, to)
      BY <2>1 DEF Stays, to
    <3>2. QED
      BY <3>1, <1>1, <1>2, PriosTyped DEF Before
  <2>2. ASSUME NEW u \in Thread, r.stat[u] = "ready" PROVE Prio[to] <= Prio[u]
    BY <2>1, <2>2, <1>2, <1>8
  <2>3. QED
    BY <2>2, <1>2, <1>7, PriosTyped DEF NoneBefore, Before
<1>11. r.stat[Idle] \in {"ready", "running"}
  BY <1>8, KernelAssumption DEF SchedOK
<1>12. SameWish(s, r)
  BY <1>2, <1>8 DEF SameWish
<1>13. r.stat[r.cur] = "running"
  BY <1>2, <1>7, <1>8
<1>14. QED
  BY <1>7, <1>9, <1>10, <1>11, <1>12, <1>13 DEF Lists, SchedOK, r

(* rt_schedule in either case, and when no other thread is ready.          *)
LEMMA ScheduledOK ==
  ASSUME NEW s, SchedOK(s)
  PROVE  LET r == Scheduled(s)
         IN  /\ SchedOK(r) /\ r.stat[r.cur] = "running" /\ NoneBefore(r)
             /\ SameWish(s, r)
<1>1. CASE \A p \in Prios : s.queue[p] = << >>
  <2>1. Scheduled(s) = s
    BY <1>1 DEF Scheduled
  <2>2. ASSUME NEW u \in Thread PROVE s.stat[u] # "ready"
    BY <1>1, PriosTyped DEF SchedOK, InQueues, Range
  <2>3. s.stat[Idle] = "running" /\ Idle = s.cur
    BY <2>2, KernelAssumption DEF SchedOK, OneRuns
  <2>4. QED
    BY <2>1, <2>2, <2>3 DEF NoneBefore, SameWish
<1>2. CASE ~ \A p \in Prios : s.queue[p] = << >>
  BY <1>2, StaysOK, SwitchOK
<1>3. QED
  BY <1>1, <1>2

(* A thread becomes ready, or goes on when it has not yet left the         *)
(* processor; the running thread stops; its time slice is over.            *)
LEMMA InsertedOK ==
  ASSUME NEW s, SchedOK(s), NEW t \in Thread, s.stat[t] \in {"suspend", "init"}
  PROVE  LET r == Inserted(s, t)
         IN  /\ SchedOK(r) /\ r.cur = s.cur
             /\ r.stat = [s.stat EXCEPT ![t] = IF t = s.cur THEN "running" ELSE "ready"]
<1>. DEFINE r == Inserted(s, t)
<1>1. /\ s.cur \in Thread /\ s.stat \in [Thread -> Stats]
      /\ s \in [cur : Thread, stat : [Thread -> Stats], yield : [Thread -> BOOLEAN],
                queue : [Prios -> Seq(Thread)]]
  BY DEF SchedOK, SchedType
<1>2. Idle \in Thread /\ t # Idle
  BY KernelAssumption DEF SchedOK
<1>3. CASE t # s.cur
  <2>1. /\ Lists(r) /\ r.cur = s.cur /\ r.yield = s.yield
        /\ r.stat = [s.stat EXCEPT ![t] = "ready"]
    BY <1>3, InsertedLists DEF SchedOK, Lists
  <2>. HIDE DEF r
  <2>2. QED
    BY <2>1, <1>1, <1>2, <1>3 DEF SchedOK, Lists, OneRuns, r
<1>4. CASE t = s.cur
  <2>1. /\ r.cur = s.cur /\ r.yield = s.yield /\ r.queue = s.queue
        /\ r.stat = [s.stat EXCEPT ![t] = "running"]
        /\ SchedType(r)
    BY <1>1, <1>4 DEF Inserted, SchedType, Stats
  <2>. HIDE DEF r
  <2>2. \A u \in Thread : (r.stat[u] = "ready") = (s.stat[u] = "ready")
    BY <2>1, <1>1, <1>4
  <2>3. InQueues(r)
    BY <2>1, <2>2 DEF InQueues, SchedOK
  <2>4. OneRuns(r) /\ r.stat[Idle] \in {"ready", "running"}
    BY <2>1, <1>1, <1>2, <1>4 DEF OneRuns, SchedOK
  <2>5. QED
    BY <2>1, <2>3, <2>4, <1>4 DEF SchedOK, r
<1>5. QED
  BY <1>3, <1>4

(* The running thread is suspended or closed.                              *)
LEMMA HaltedOK ==
  ASSUME NEW s, SchedOK(s), s.stat[s.cur] = "running", s.cur # Idle,
         NEW x \in {"suspend", "close"}
  PROVE  LET r == [s EXCEPT !.stat[s.cur] = x]
         IN  /\ SchedOK(r) /\ r.cur = s.cur
             /\ r.stat = [s.stat EXCEPT ![s.cur] = x]
<1>. DEFINE r == [s EXCEPT !.stat[s.cur] = x]
<1>1. /\ s.cur \in Thread /\ s.stat \in [Thread -> Stats] /\ Idle \in Thread
      /\ s \in [cur : Thread, stat : [Thread -> Stats], yield : [Thread -> BOOLEAN],
                queue : [Prios -> Seq(Thread)]]
  BY KernelAssumption DEF SchedOK, SchedType
<1>2. /\ r.cur = s.cur /\ r.yield = s.yield /\ r.queue = s.queue
      /\ r.stat = [s.stat EXCEPT ![s.cur] = x]
      /\ SchedType(r)
  BY <1>1 DEF SchedType, Stats
<1>. HIDE DEF r
<1>3. \A u \in Thread : (r.stat[u] = "ready") = (s.stat[u] = "ready")
  BY <1>1, <1>2
<1>4. InQueues(r)
  BY <1>2, <1>3 DEF InQueues, SchedOK
<1>5. OneRuns(r) /\ r.stat[Idle] \in {"ready", "running"}
  BY <1>1, <1>2 DEF OneRuns, SchedOK
<1>6. QED
  BY <1>2, <1>4, <1>5 DEF SchedOK, r

(* The present thread is marked to give way to its equals.                 *)
LEMMA YieldedOK ==
  ASSUME NEW s, SchedOK(s)
  PROVE  LET r == [s EXCEPT !.yield[s.cur] = TRUE]
         IN  SchedOK(r) /\ r.cur = s.cur /\ r.stat = s.stat
<1>. DEFINE r == [s EXCEPT !.yield[s.cur] = TRUE]
<1>1. r.cur = s.cur /\ r.queue = s.queue /\ r.stat = s.stat /\ SchedType(r)
  BY DEF SchedOK, SchedType
<1>. HIDE DEF r
<1>2. QED
  BY <1>1 DEF SchedOK, InQueues, OneRuns, r
-----------------------------------------------------------------------------
(* The invariant holds at first: only the idle thread is ready.            *)
LEMMA InitOK == Init => IInv
<1>. SUFFICES ASSUME Init PROVE IInv
  OBVIOUS
<1>1. Main \in Thread /\ Idle \in Thread /\ Main # Idle /\ Prio[Idle] \in Prios
  BY KernelAssumption, PriosTyped
<1>2. /\ k.cur = Main
      /\ k.stat = [t \in Thread |-> IF t = Main THEN "running"
                               ELSE IF t = Idle THEN "ready" ELSE "init"]
      /\ k.queue = [p \in Prios |-> IF p = Prio[Idle] THEN <<Idle>> ELSE << >>]
  BY DEF Init
<1>3. SchedType(k)
  BY <1>1 DEF Init, SchedType, Stats
<1>4. InQueues(k)
  <2>1. ASSUME NEW p \in Prios
        PROVE  IsInjective(k.queue[p]) /\
               Range(k.queue[p]) = {t \in Thread : k.stat[t] = "ready" /\ Prio[t] = p}
    <3>1. \A t \in Thread : k.stat[t] = "ready" <=> t = Idle
      BY <1>1, <1>2
    <3>2. CASE p = Prio[Idle]
      <4>1. k.queue[p] = <<Idle>>
        BY <1>1, <1>2, <3>2
      <4>2. IsInjective(<<Idle>>) /\ Range(<<Idle>>) = {Idle}
        BY DEF IsInjective, Range
      <4>3. QED
        BY <4>1, <4>2, <3>1, <3>2, <1>1
    <3>3. CASE p # Prio[Idle]
      <4>1. k.queue[p] = << >>
        BY <1>2, <3>3
      <4>2. IsInjective(<< >>) /\ Range(<< >>) = {}
        BY DEF IsInjective, Range
      <4>3. QED
        BY <4>1, <4>2, <3>1, <3>3
    <3>4. QED
      BY <3>2, <3>3
  <2>2. QED
    BY <2>1 DEF InQueues
<1>5. SchedOK(k)
  BY <1>1, <1>2, <1>3, <1>4 DEF SchedOK, OneRuns
<1>6. NoneBefore(k)
  BY <1>1, <1>2, KernelAssumption DEF NoneBefore, Before
<1>7. Range(waiters) = {} /\ Timed(timers) = {} /\ Once(timers) /\ IsInjective(waiters)
  BY DEF Init, Range, Timed, Once, IsInjective
<1>8. Waits
  BY <1>2, <1>7 DEF Waits
<1>9. Places
  BY <1>1, <1>2, <1>6, <1>7 DEF Places, Sleeping, InOwnCode
<1>10. TypeOK
  <2>1. \A t \in Thread : Slice[t] \in Nat /\ Slice[t] <= Slice[t]
    BY KernelAssumption
  <2>2. QED
    BY <1>3, <2>1, KernelAssumption DEF TypeOK, Init, SchedType
<1>11. QED
  BY <1>5, <1>8, <1>9, <1>10 DEF IInv
-----------------------------------------------------------------------------
(* What the invariant says of the lists, and of a thread at its own code.  *)
LEMMA Facts ==
  ASSUME IInv
  PROVE  /\ k.cur \in Thread /\ k.stat \in [Thread -> Stats]
         /\ waiters \in Seq(Thread) /\ IsInjective(waiters)
         /\ timers \in Seq(Timers) /\ Once(timers)
         /\ \A t : t \in Range(waiters) \/ t \in Timed(timers) <=>
                     t \in Thread /\ k.stat[t] = "suspend"
BY DEF IInv, TypeOK, SchedOK, SchedType, Waits, Timers

(* A thread at a place of its own code runs and waits for nothing.         *)
LEMMA Running ==
  ASSUME IInv, NEW t \in Thread, Runs(t, "run") \/ Runs(t, "took")
  PROVE  /\ t = k.cur /\ k.stat[t] = "running"
         /\ t \notin Range(waiters) /\ t \notin Timed(timers)
BY Facts DEF IInv, Runs, Places, InOwnCode

(* rt_timer_start for a thread that has no active timer.                   *)
LEMMA StartTimerOK ==
  ASSUME IInv, NEW t \in Thread, t \notin Timed(timers), NEW time \in Times,
         StartTimer(t, time)
  PROVE  /\ timers' \in Seq(Timers) /\ Once(timers')
         /\ Timed(timers') = Timed(timers) \cup {t}
<1>. DEFINE list == Stopped(timers, t)
            at == (tick + time) % TickMod
            x == [thread |-> t, at |-> at]
            later == {i \in DOMAIN list : (list[i].at - at) % TickMod \in 1..Half-1}
<1>1. list \in Seq(Timers) /\ Once(list) /\ Timed(list) = Timed(timers)
  <2>1. timers \in Seq(Timers) /\ Once(timers)
    BY Facts
  <2>2. list \in Seq(Timers) /\ Once(list) /\ Timed(list) = Timed(timers) \ {t}
    BY <2>1, StoppedKeeps
  <2>. HIDE DEF list
  <2>3. QED
    BY <2>2
<1>2. at \in 0..TickMod-1
  <2>1. tick \in Nat /\ time \in Int /\ TickMod \in Nat \ {0}
    BY KernelAssumption DEF IInv, TypeOK
  <2>2. QED
    BY <2>1
<1>3. x \in Timers /\ x.thread = t
  <2>. HIDE DEF at
  <2>1. QED
    BY <1>2 DEF Timers
<1>4. timers' = Linked(list, x, later) /\ later \subseteq DOMAIN list
  BY DEF StartTimer
<1>. HIDE DEF list, x, later
<1>5. QED
  BY <1>1, <1>3, <1>4, LinkedKeeps

(* A step that only the semaphore's value or the tick's check notices.     *)
LEMMA TakeTokenOK ==
  ASSUME IInv, NEW t \in Thread, TakeToken(t)
  PROVE  IInv'
<1>1. TypeOK'
  <2>1. value' \in 0..SemMax
    BY KernelAssumption DEF IInv, TakeToken, TypeOK
  <2>2. QED
    BY <2>1 DEF IInv, TakeToken, TypeOK
<1>2. SchedOK(k') /\ Waits' /\ Places'
  BY DEF IInv, TakeToken, Waits, Places, Sleeping, InOwnCode, NoneBefore
<1>3. QED
  BY <1>1, <1>2 DEF IInv

(* rt_sem_take without a token, with a time limit or without one.          *)
LEMMA WaitOK ==
  ASSUME IInv, NEW t \in Thread, Calls[t] # {}, Wait(t),
         timers' \in Seq(Timers), Once(timers'),
         Timed(timers') \cup {t} = Timed(timers) \cup {t}
  PROVE  IInv'
<1>1. /\ t = k.cur /\ k.stat[t] = "running" /\ t # Idle
      /\ t \notin Range(waiters) /\ t \notin Timed(timers)
  BY Running, KernelAssumption DEF Wait
<1>2. SchedOK(k') /\ k'.cur = t /\ k'.stat = [k.stat EXCEPT ![t] = "suspend"]
  BY <1>1, HaltedOK DEF IInv, Wait, Suspended
<1>3. /\ waiters' \in Seq(Thread) /\ IsInjective(waiters')
      /\ Range(waiters') = Range(waiters) \cup {t}
  BY <1>1, Facts, AppendKeeps DEF Wait, Queued
<1>4. TypeOK'
  BY <1>2, <1>3 DEF IInv, TypeOK, Wait, Goes, SchedOK, SchedType, Timers
<1>5. Waits'
  BY <1>1, <1>2, <1>3, Facts DEF Waits
<1>6. Places'
  <2>1. /\ pc' = [pc EXCEPT ![t] = "take"] /\ err' = [err EXCEPT ![t] = "OK"]
        /\ pc \in [Thread -> {"run", "sched", "take", "took"}]
        /\ err \in [Thread -> {"OK", "ETIMEOUT"}]
    BY DEF Wait, Goes, IInv, TypeOK
  <2>2. ~InOwnCode(k.cur)'
    BY <1>2, <2>1 DEF InOwnCode
  <2>3. ASSUME NEW u \in Range(waiters')
        PROVE  pc'[u] \in {"take", "took"} /\ err'[u] = "OK"
    BY <1>3, <2>1, Facts DEF IInv, Places
  <2>4. ASSUME NEW u \in Sleeping'
        PROVE  pc'[u] \in {"sched", "run"}
    <3>1. u \in Sleeping /\ u # t
      BY <1>3 DEF Sleeping
    <3>2. QED
      BY <2>1, <3>1, Facts DEF IInv, Places, Sleeping
  <2>5. QED
    BY <2>2, <2>3, <2>4 DEF Places
<1>7. QED
  BY <1>2, <1>4, <1>5, <1>6 DEF IInv

(* The end of rt_sem_take.                                                 *)
LEMMA TakeReturnsOK ==
  ASSUME IInv, NEW t \in Thread, TakeReturns(t)
  PROVE  IInv'
<1>1. t = k.cur /\ t \notin Range(waiters) /\ t \notin Timed(timers)
  BY Running DEF TakeReturns
<1>2. /\ pc' = [pc EXCEPT ![t] = "run"] /\ err' = [err EXCEPT ![t] = "OK"]
      /\ pc \in [Thread -> {"run", "sched", "take", "took"}]
      /\ err \in [Thread -> {"OK", "ETIMEOUT"}] /\ pc[t] = "took"
  BY DEF TakeReturns, Goes, Runs, IInv, TypeOK
<1>3. TypeOK'
  BY <1>2 DEF IInv, TakeReturns, TypeOK
<1>4. SchedOK(k') /\ Waits'
  BY DEF IInv, TakeReturns, Waits
<1>5. Places'
  BY <1>1, <1>2, Facts DEF IInv, TakeReturns, Places, Sleeping, InOwnCode, NoneBefore
<1>6. QED
  BY <1>3, <1>4, <1>5 DEF IInv

(* A release, by whomever: it wakes the one that waits longest and only    *)
(* that one, out of both lists.                                            *)
LEMMA ReleaseOK ==
  ASSUME IInv, Release
  PROVE  /\ SchedOK(k') /\ k'.cur = k.cur /\ Waits'
         /\ waiters' \in Seq(Thread) /\ timers' \in Seq(Timers) /\ value' \in 0..SemMax
         /\ Range(waiters') \subseteq Range(waiters) /\ Sleeping' \subseteq Sleeping
         /\ k.stat[k.cur] = "running" => k'.stat[k.cur] = "running"
         /\ ~Wakes => k' = k
<1>1. CASE Wakes
  <2>. DEFINE t == Head(waiters)
  <2>1. waiters \in Seq(Thread) /\ IsInjective(waiters) /\ waiters # << >>
    BY <1>1, Facts DEF Wakes
  <2>2. /\ t \in Thread /\ t \in Range(waiters)
        /\ waiters' \in Seq(Thread) /\ IsInjective(waiters')
        /\ Range(waiters') = Range(waiters) \ {t}
    <3>1. waiters' = Tail(waiters)
      BY <1>1 DEF Release
    <3>2. QED
      BY <2>1, <3>1, TailKeeps
  <2>. HIDE DEF t
  <2>3. timers' \in Seq(Timers) /\ Once(timers') /\ Timed(timers') = Timed(timers) \ {t}
    <3>1. timers \in Seq(Timers) /\ Once(timers)
      BY Facts
    <3>2. timers' = Stopped(timers, t)
      BY <1>1 DEF Release, t
    <3>3. QED
      BY <3>1, <3>2, StoppedKeeps
  <2>4. k.stat[t] = "suspend"
    BY <2>2, Facts
  <2>5. /\ SchedOK(k') /\ k'.cur = k.cur
        /\ k'.stat = [k.stat EXCEPT ![t] = IF t = k.cur THEN "running" ELSE "ready"]
    <3>1. k' = Inserted(k, t)
      BY <1>1 DEF Release, t
    <3>2. SchedOK(k)
      BY DEF IInv
    <3>3. QED
      BY <3>1, <3>2, <2>2, <2>4, InsertedOK
  <2>6. Waits'
    BY <2>2, <2>3, <2>5, Facts DEF Waits
  <2>7. Sleeping' \subseteq Sleeping
    BY <2>2, <2>3 DEF Sleeping
  <2>8. value' \in 0..SemMax
    BY <1>1 DEF Release, IInv, TypeOK
  <2>9. k.stat[k.cur] = "running" => k'.stat[k.cur] = "running"
    BY <2>4, <2>5, Facts
  <2>10. QED
    BY <1>1, <2>2, <2>3, <2>5, <2>6, <2>7, <2>8, <2>9
<1>2. CASE ~Wakes
  <2>1. k' = k /\ waiters' = waiters /\ timers' = timers
    BY <1>2 DEF Release
  <2>2. value' \in 0..SemMax
    BY <1>2, KernelAssumption DEF Release, IInv, TypeOK
  <2>3. QED
    BY <2>1, <2>2, Facts DEF IInv, Waits, Sleeping
<1>3. QED
  BY <1>1, <1>2

(* rt_sem_release in a thread keeps the invariant.                         *)
LEMMA ThreadReleasesOK ==
  ASSUME IInv, NEW t \in Thread, ThreadReleases(t)
  PROVE  IInv'
<1>1. t = k.cur /\ k.stat[t] = "running" /\ t \notin Range(waiters) /\ t \notin Timed(timers)
  BY Running DEF ThreadReleases
<1>2. /\ SchedOK(k') /\ k'.cur = k.cur /\ Waits'
      /\ waiters' \in Seq(Thread) /\ timers' \in Seq(Timers) /\ value' \in 0..SemMax
      /\ Range(waiters') \subseteq Range(waiters) /\ Sleeping' \subseteq Sleeping
      /\ k'.stat[k.cur] = "running"
      /\ ~Wakes => k' = k
  BY <1>1, ReleaseOK DEF ThreadReleases
<1>3. /\ pc' = IF Wakes THEN [pc EXCEPT ![t] = "sched"] ELSE pc
      /\ pc \in [Thread -> {"run", "sched", "take", "took"}]
      /\ left' = left /\ tick' = tick /\ err' = err /\ uart' = uart /\ sys' = sys
  BY DEF ThreadReleases, Release, IInv, TypeOK
<1>4. TypeOK'
  BY <1>2, <1>3 DEF IInv, TypeOK, SchedOK, SchedType, Timers
<1>5. Places'
  <2>1. InOwnCode(k.cur)' /\ uart' = "off" => NoneBefore(k')
    BY <1>1, <1>2, <1>3 DEF InOwnCode, IInv, Places
  <2>2. \A u \in Range(waiters') : pc'[u] = pc[u] /\ u \in Range(waiters)
    BY <1>1, <1>2, <1>3, Facts
  <2>3. \A u \in Sleeping' : pc'[u] = pc[u] /\ u \in Sleeping
    BY <1>1, <1>2, <1>3, Facts DEF Sleeping
  <2>4. QED
    BY <2>1, <2>2, <2>3, <1>2, <1>3 DEF Places, IInv
<1>6. QED
  BY <1>2, <1>4, <1>5 DEF IInv

(* rt_sem_release in the interrupt keeps the invariant.                    *)
LEMMA UartReleasesOK ==
  ASSUME IInv, UartReleases
  PROVE  IInv'
<1>1. /\ SchedOK(k') /\ k'.cur = k.cur /\ Waits'
      /\ waiters' \in Seq(Thread) /\ timers' \in Seq(Timers) /\ value' \in 0..SemMax
      /\ Range(waiters') \subseteq Range(waiters) /\ Sleeping' \subseteq Sleeping
      /\ k.stat[k.cur] = "running" => k'.stat[k.cur] = "running"
      /\ ~Wakes => k' = k
  BY ReleaseOK DEF UartReleases
<1>2. /\ uart = "off" /\ uart' = IF Wakes THEN "sched" ELSE "off"
      /\ left' = left /\ tick' = tick /\ err' = err /\ pc' = pc /\ sys' = sys
  BY DEF UartReleases, Release
<1>3. TypeOK'
  BY <1>1, <1>2 DEF IInv, TypeOK, SchedOK, SchedType, Timers
<1>4. Places'
  BY <1>1, <1>2 DEF IInv, Places, InOwnCode
<1>5. QED
  BY <1>1, <1>3, <1>4 DEF IInv

(* A call of rt_schedule leaves those that are suspended suspended.        *)
LEMMA RescheduledOK ==
  ASSUME IInv, NEW s, SchedOK(s), s.stat = k.stat, k' = Scheduled(s)
  PROVE  /\ SchedOK(k') /\ k'.stat[k'.cur] = "running" /\ NoneBefore(k')
         /\ \A t \in Thread : k'.stat[t] = "suspend" <=> k.stat[t] = "suspend"
<1>1. SchedOK(k') /\ k'.stat[k'.cur] = "running" /\ NoneBefore(k') /\ SameWish(s, k')
  BY ScheduledOK
<1>2. QED
  BY <1>1 DEF SameWish

(* The interrupt reschedules before it ends.                               *)
LEMMA UartSchedulesOK ==
  ASSUME IInv, UartSchedules
  PROVE  IInv'
<1>1. /\ SchedOK(k') /\ k'.stat[k'.cur] = "running" /\ NoneBefore(k')
      /\ \A t \in Thread : k'.stat[t] = "suspend" <=> k.stat[t] = "suspend"
  BY RescheduledOK DEF IInv, UartSchedules
<1>2. /\ uart' = "off" /\ left' = left /\ value' = value /\ waiters' = waiters
      /\ tick' = tick /\ timers' = timers /\ err' = err /\ pc' = pc /\ sys' = sys
  BY DEF UartSchedules
<1>3. TypeOK'
  BY <1>1, <1>2 DEF IInv, TypeOK, SchedOK, SchedType
<1>4. Waits' /\ Places'
  BY <1>1, <1>2 DEF IInv, Waits, Places, Sleeping
<1>5. QED
  BY <1>1, <1>3, <1>4 DEF IInv

(* A thread that has slept, waited, started another or ended reschedules.  *)
LEMMA CallsScheduleOK ==
  ASSUME IInv, NEW t \in Thread, CallsSchedule(t)
  PROVE  IInv'
<1>1. /\ SchedOK(k') /\ k'.stat[k'.cur] = "running" /\ NoneBefore(k')
      /\ \A u \in Thread : k'.stat[u] = "suspend" <=> k.stat[u] = "suspend"
  BY RescheduledOK DEF IInv, CallsSchedule
<1>2. /\ uart' = uart /\ left' = left /\ value' = value /\ waiters' = waiters
      /\ tick' = tick /\ timers' = timers /\ err' = err /\ sys' = sys
      /\ pc[t] \in {"sched", "take"} /\ pc \in [Thread -> {"run", "sched", "take", "took"}]
      /\ pc' = [pc EXCEPT ![t] = IF pc[t] = "take" THEN "took" ELSE "run"]
  BY DEF CallsSchedule, Goes, Runs, IInv, TypeOK
<1>3. TypeOK'
  BY <1>1, <1>2 DEF IInv, TypeOK, SchedOK, SchedType
<1>4. Waits'
  BY <1>1, <1>2 DEF IInv, Waits
<1>5. \A u \in Range(waiters) \cup Sleeping : u \in Thread
  BY Facts DEF Sleeping
<1>6. \A u \in Range(waiters') : pc'[u] \in {"take", "took"} /\ err'[u] = "OK"
  BY <1>2, <1>5 DEF IInv, Places
<1>7. \A u \in Sleeping' : pc'[u] \in {"sched", "run"}
  BY <1>2, <1>5 DEF IInv, Places, Sleeping
<1>8. Places'
  BY <1>1, <1>6, <1>7 DEF Places
<1>9. QED
  BY <1>1, <1>3, <1>4, <1>8 DEF IInv

(* rt_thread_sleep suspends the thread and starts its timer.               *)
LEMMA SleepOK ==
  ASSUME IInv, NEW t \in Thread, NEW time \in Times, Sleep(t, time)
  PROVE  IInv'
<1>1. /\ t = k.cur /\ k.stat[t] = "running" /\ t # Idle
      /\ t \notin Range(waiters) /\ t \notin Timed(timers)
  BY Running, KernelAssumption DEF Sleep
<1>2. SchedOK(k') /\ k'.cur = t /\ k'.stat = [k.stat EXCEPT ![t] = "suspend"]
  BY <1>1, HaltedOK DEF IInv, Sleep, Suspended
<1>3. /\ timers' \in Seq(Timers) /\ Once(timers')
      /\ Timed(timers') = Timed(timers) \cup {t}
  BY <1>1, StartTimerOK DEF Sleep
<1>4. /\ pc' = [pc EXCEPT ![t] = "sched"] /\ err' = [err EXCEPT ![t] = "OK"]
      /\ pc \in [Thread -> {"run", "sched", "take", "took"}]
      /\ err \in [Thread -> {"OK", "ETIMEOUT"}]
      /\ left' = left /\ value' = value /\ waiters' = waiters
      /\ tick' = tick /\ uart' = uart /\ sys' = sys
  BY DEF Sleep, Goes, IInv, TypeOK
<1>5. TypeOK'
  BY <1>2, <1>3, <1>4 DEF IInv, TypeOK, SchedOK, SchedType, Timers
<1>6. Waits'
  BY <1>1, <1>2, <1>3, <1>4, Facts DEF Waits
<1>7. Places'
  <2>1. ~InOwnCode(k.cur)'
    BY <1>2, <1>4 DEF InOwnCode
  <2>2. ASSUME NEW u \in Range(waiters')
        PROVE  pc'[u] \in {"take", "took"} /\ err'[u] = "OK"
    BY <1>1, <1>4, Facts DEF IInv, Places
  <2>3. ASSUME NEW u \in Sleeping'
        PROVE  pc'[u] \in {"sched", "run"}
    <3>1. u = t \/ u \in Sleeping
      BY <1>3, <1>4 DEF Sleeping
    <3>2. QED
      BY <1>4, <3>1, Facts DEF IInv, Places, Sleeping
  <2>4. QED
    BY <2>1, <2>2, <2>3 DEF Places
<1>8. QED
  BY <1>2, <1>5, <1>6, <1>7 DEF IInv

(* rt_thread_startup makes the new thread ready.                           *)
LEMMA StartupOK ==
  ASSUME IInv, NEW t \in Thread, NEW u \in Thread, Startup(t, u)
  PROVE  IInv'
<1>1. /\ t = k.cur /\ k.stat[t] = "running"
      /\ t \notin Range(waiters) /\ t \notin Timed(timers)
  BY Running DEF Startup
<1>2. SchedOK(k') /\ k'.cur = t /\ k'.stat = [k.stat EXCEPT ![u] = "ready"]
  <2>1. k.stat[u] = "init" /\ u # t /\ k' = Inserted(k, u) /\ SchedOK(k)
    BY <1>1 DEF Startup, IInv
  <2>2. QED
    BY <1>1, <2>1, InsertedOK
<1>3. /\ pc' = [pc EXCEPT ![t] = "sched"] /\ k.stat[u] = "init"
      /\ pc \in [Thread -> {"run", "sched", "take", "took"}]
      /\ left' = left /\ value' = value /\ waiters' = waiters /\ tick' = tick
      /\ timers' = timers /\ err' = err /\ uart' = uart /\ sys' = sys
  BY DEF Startup, Goes, IInv, TypeOK
<1>4. TypeOK'
  BY <1>2, <1>3 DEF IInv, TypeOK, SchedOK, SchedType
<1>5. Waits'
  <2>1. \A v \in Thread : k'.stat[v] = "suspend" <=> k.stat[v] = "suspend"
    BY <1>2, <1>3, Facts
  <2>2. QED
    BY <2>1, <1>3 DEF IInv, Waits
<1>6. Places'
  <2>1. ~InOwnCode(k.cur)'
    BY <1>2, <1>3 DEF InOwnCode
  <2>2. \A v \in Range(waiters) \cup Timed(timers) : pc'[v] = pc[v]
    BY <1>1, <1>3, Facts
  <2>3. QED
    BY <2>1, <2>2, <1>3 DEF IInv, Places, Sleeping
<1>7. QED
  BY <1>2, <1>4, <1>5, <1>6 DEF IInv

(* A thread ends.                                                          *)
LEMMA ExitOK ==
  ASSUME IInv, NEW t \in Thread, Exit(t)
  PROVE  IInv'
<1>1. /\ t = k.cur /\ k.stat[t] = "running" /\ t # Idle
      /\ t \notin Range(waiters) /\ t \notin Timed(timers)
  BY Running, KernelAssumption DEF Exit
<1>2. SchedOK(k') /\ k'.cur = t /\ k'.stat = [k.stat EXCEPT ![t] = "close"]
  BY <1>1, HaltedOK DEF IInv, Exit
<1>3. /\ pc' = [pc EXCEPT ![t] = "sched"]
      /\ pc \in [Thread -> {"run", "sched", "take", "took"}]
      /\ left' = left /\ value' = value /\ waiters' = waiters /\ tick' = tick
      /\ timers' = timers /\ err' = err /\ uart' = uart /\ sys' = sys
  BY DEF Exit, Goes, IInv, TypeOK
<1>4. TypeOK'
  BY <1>2, <1>3 DEF IInv, TypeOK, SchedOK, SchedType
<1>5. Waits'
  <2>1. \A v \in Thread : k'.stat[v] = "suspend" <=> k.stat[v] = "suspend"
    BY <1>1, <1>2, Facts
  <2>2. QED
    BY <2>1, <1>3 DEF IInv, Waits
<1>6. Places'
  <2>1. ~InOwnCode(k.cur)'
    BY <1>2, <1>3 DEF InOwnCode
  <2>2. \A v \in Range(waiters) \cup Timed(timers) : pc'[v] = pc[v]
    BY <1>1, <1>3, Facts
  <2>3. QED
    BY <2>1, <2>2, <1>3 DEF IInv, Places, Sleeping
<1>7. QED
  BY <1>2, <1>4, <1>5, <1>6 DEF IInv
-----------------------------------------------------------------------------
(* SysTick.                                                                *)
LEMMA TickOK ==
  ASSUME IInv, Tick
  PROVE  IInv'
<1>1. /\ value' = value /\ waiters' = waiters /\ timers' = timers
      /\ err' = err /\ pc' = pc /\ uart' = uart /\ sys' = "check"
  BY DEF Tick
<1>2. /\ SchedOK(k')
      /\ k' = k \/ (k'.stat[k'.cur] = "running" /\ NoneBefore(k'))
      /\ \A u \in Thread : k'.stat[u] = "suspend" <=> k.stat[u] = "suspend"
  <2>1. CASE UsedUp(k.cur)
    <3>. DEFINE s == [k EXCEPT !.yield[k.cur] = TRUE]
    <3>1. SchedOK(s) /\ s.stat = k.stat
      BY YieldedOK DEF IInv
    <3>2. k' = Scheduled(s)
      BY <2>1 DEF Tick
    <3>. HIDE DEF s
    <3>3. /\ SchedOK(k') /\ k'.stat[k'.cur] = "running" /\ NoneBefore(k')
          /\ \A u \in Thread : k'.stat[u] = "suspend" <=> k.stat[u] = "suspend"
      BY <3>1, <3>2, RescheduledOK
    <3>4. QED
      BY <3>3
  <2>2. CASE ~UsedUp(k.cur)
    BY <2>2 DEF Tick, IInv
  <2>3. QED
    BY <2>1, <2>2
<1>3. left' \in [Thread -> Nat \ {0}] /\ \A t \in Thread : left'[t] <= Slice[t]
  <2>1. /\ left \in [Thread -> Nat \ {0}] /\ Slice \in [Thread -> Nat \ {0}]
        /\ \A t \in Thread : left[t] <= Slice[t]
        /\ k.cur \in Thread
    BY Facts, KernelAssumption DEF IInv, TypeOK
  <2>2. left' = [left EXCEPT ![k.cur] = IF left[k.cur] = 1 THEN Slice[k.cur]
                                                          ELSE left[k.cur] - 1]
    BY DEF Tick, UsedUp
  <2>3. QED
    BY <2>1, <2>2
<1>4. tick' \in 0..TickMod-1
  <2>1. tick \in Nat /\ TickMod \in Nat \ {0} /\ tick' = (tick + 1) % TickMod
    BY KernelAssumption DEF IInv, TypeOK, Tick
  <2>2. QED
    BY <2>1
<1>5. TypeOK'
  BY <1>1, <1>2, <1>3, <1>4 DEF IInv, TypeOK, SchedOK, SchedType
<1>6. Waits'
  BY <1>1, <1>2 DEF IInv, Waits
<1>7. Places'
  BY <1>1, <1>2 DEF IInv, Places, Sleeping, InOwnCode
<1>8. QED
  BY <1>2, <1>5, <1>6, <1>7 DEF IInv

(* A timer that is due wakes its thread, out of the waiters too.           *)
LEMMA TimeoutOK ==
  ASSUME IInv, Timeout
  PROVE  IInv'
<1>. DEFINE t == Head(timers).thread
<1>1. timers \in Seq(Timers) /\ Once(timers) /\ timers # << >>
  BY Facts DEF Timeout, Expired
<1>2. /\ t \in Timed(timers)
      /\ timers' \in Seq(Timers) /\ Once(timers')
      /\ Timed(timers') = Timed(timers) \ {t}
  <2>1. timers' = Tail(timers)
    BY DEF Timeout
  <2>2. QED
    BY <1>1, <2>1, FirstTimer
<1>. HIDE DEF t
<1>3. t \in Thread /\ k.stat[t] = "suspend"
  BY <1>2, Facts
<1>4. /\ waiters' \in Seq(Thread) /\ IsInjective(waiters')
      /\ Range(waiters') = Range(waiters) \ {t}
  <2>. DEFINE r == Unlinked(waiters, {i \in DOMAIN waiters : waiters[i] = t})
  <2>1. waiters' = r
    BY DEF Timeout, t
  <2>2. waiters \in Seq(Thread) /\ IsInjective(waiters)
    BY Facts
  <2>3. r \in Seq(Thread) /\ IsInjective(r) /\ Range(r) = Range(waiters) \ {t}
    BY <2>2, UnlinkedKeeps
  <2>. HIDE DEF r
  <2>4. QED
    BY <2>1, <2>3
<1>. DEFINE s == Inserted(k, t)
<1>5. /\ SchedOK(s)
      /\ s.stat = [k.stat EXCEPT ![t] = IF t = k.cur THEN "running" ELSE "ready"]
  BY <1>3, InsertedOK DEF IInv
<1>6. k' = Scheduled(s)
  BY DEF Timeout, t
<1>. HIDE DEF s
<1>7. SchedOK(k') /\ k'.stat[k'.cur] = "running" /\ NoneBefore(k') /\ SameWish(s, k')
  BY <1>5, <1>6, ScheduledOK
<1>8. /\ err' = [err EXCEPT ![t] = "ETIMEOUT"] /\ err \in [Thread -> {"OK", "ETIMEOUT"}]
      /\ left' = left /\ value' = value /\ tick' = tick
      /\ pc' = pc /\ uart' = uart /\ sys' = sys
  BY DEF Timeout, t, IInv, TypeOK
<1>9. TypeOK'
  BY <1>2, <1>4, <1>7, <1>8 DEF IInv, TypeOK, SchedOK, SchedType, Timers
<1>10. Waits'
  <2>1. \A u \in Thread : k'.stat[u] = "suspend" <=> k.stat[u] = "suspend" /\ u # t
    BY <1>3, <1>5, <1>7, Facts DEF SameWish
  <2>2. QED
    BY <2>1, <1>2, <1>4, Facts DEF Waits
<1>11. Places'
  <2>1. ASSUME NEW u \in Range(waiters')
        PROVE  pc'[u] \in {"take", "took"} /\ err'[u] = "OK"
    BY <1>4, <1>8, Facts DEF IInv, Places
  <2>2. Sleeping' \subseteq Sleeping
    BY <1>2, <1>4 DEF Sleeping
  <2>3. QED
    BY <2>1, <2>2, <1>7, <1>8 DEF IInv, Places
<1>12. QED
  BY <1>7, <1>9, <1>10, <1>11 DEF IInv

(* rt_timer_check ends.                                                    *)
LEMMA CheckDoneOK ==
  ASSUME IInv, CheckDone
  PROVE  IInv'
<1>1. TypeOK'
  BY DEF IInv, CheckDone, TypeOK
<1>2. SchedOK(k') /\ Waits' /\ Places'
  BY DEF IInv, CheckDone, Waits, Places, Sleeping, InOwnCode, NoneBefore
<1>3. QED
  BY <1>1, <1>2 DEF IInv

(* Every step keeps the invariant.                                         *)
LEMMA StepOK == IInv /\ [Next]_vars => IInv'
<1>. SUFFICES ASSUME IInv, [Next]_vars PROVE IInv'
  OBVIOUS
<1>1. ASSUME NEW t \in Thread, Application(t) PROVE IInv'
  <2>1. CASE TakeToken(t)
    BY <2>1, TakeTokenOK
  <2>2. CASE TakeForever(t)
    <3>1. Calls[t] # {} /\ Wait(t) /\ timers' = timers
      BY <2>2 DEF TakeForever
    <3>2. QED
      BY <3>1, Facts, WaitOK
  <2>3. CASE TakeReturns(t)
    BY <2>3, TakeReturnsOK
  <2>4. CASE ThreadReleases(t)
    BY <2>4, ThreadReleasesOK
  <2>5. ASSUME NEW time \in Times, TakeTimed(t, time) PROVE IInv'
    <3>1. Calls[t] # {} /\ Wait(t) /\ StartTimer(t, time)
      BY <2>5 DEF TakeTimed
    <3>2. t \notin Timed(timers)
      BY <3>1, Running DEF Wait
    <3>3. QED
      BY <3>1, <3>2, StartTimerOK, WaitOK
  <2>6. ASSUME NEW time \in Times, Sleep(t, time) PROVE IInv'
    BY <2>6, SleepOK
  <2>7. ASSUME NEW u \in Thread, Startup(t, u) PROVE IInv'
    BY <2>7, StartupOK
  <2>8. CASE Exit(t)
    BY <2>8, ExitOK
  <2>9. CASE CallsSchedule(t)
    BY <2>9, CallsScheduleOK
  <2>10. QED
    BY <1>1, <2>1, <2>2, <2>3, <2>4, <2>5, <2>6, <2>7, <2>8, <2>9 DEF Application
<1>2. CASE UartReleases
  BY <1>2, UartReleasesOK
<1>3. CASE UartSchedules
  BY <1>3, UartSchedulesOK
<1>4. CASE SysTick
  BY <1>4, TickOK, TimeoutOK, CheckDoneOK DEF SysTick
<1>5. CASE UNCHANGED vars
  <2>1. TypeOK'
    BY <1>5 DEF IInv, vars, TypeOK
  <2>2. SchedOK(k') /\ Waits' /\ Places'
    BY <1>5 DEF IInv, vars, Waits, Places, Sleeping, InOwnCode, NoneBefore
  <2>3. QED
    BY <2>1, <2>2 DEF IInv
<1>6. QED
  BY <1>1, <1>2, <1>3, <1>4, <1>5 DEF Next

(* So the invariant holds in every state.                                  *)
LEMMA Invariant == Spec => []IInv
BY InitOK, StepOK, PTL DEF Spec

(* The kernel's data keep their types: the queues of threads, the lists of *)
(* timers and waiters, and remaining_tick, which never runs below one.     *)
THEOREM KernelTypeOK == Spec => []TypeOK
<1>1. IInv => TypeOK
  BY DEF IInv
<1>2. QED
  BY <1>1, Invariant, PTL

(* No thread gets lost, whatever releases, timeouts, sleeps, starts and    *)
(* ends of threads come between each other (scheduler.c, ipc.c, timer.c).  *)
THEOREM KernelNoThreadLost == Spec => []NoThreadLost
<1>1. IInv => NoThreadLost
  BY DEF IInv, NoThreadLost, Waits, Once, Timed, SchedOK, InQueues
<1>2. QED
  BY <1>1, Invariant, PTL

(* Code of an application runs only while no thread of higher priority is  *)
(* ready (rt_schedule, and who has to call it).                            *)
THEOREM KernelHighestRuns == Spec => []HighestRuns
<1>1. IInv => HighestRuns
  BY DEF IInv, HighestRuns, Places, InOwnCode, NoneBefore
<1>2. QED
  BY <1>1, Invariant, PTL
-----------------------------------------------------------------------------
(* The semaphore as its users see it.  What a step makes of what each      *)
(* thread is doing, and who that is for.                                   *)
User == [t \in Thread |-> Doing(t)]

(* Who is not touched by a step does what it did.                          *)
LEMMA NobodyElse ==
  ASSUME NEW S, S \subseteq Thread,
         \A u \in Thread \ S : u \in Range(waiters') <=> u \in Range(waiters),
         \A u \in Thread \ S : pc'[u] = pc[u] /\ err'[u] = err[u]
  PROVE  \A u \in Thread \ S : Doing(u)' = Doing(u)
BY DEF Doing

(* A step for one thread, as the counting semaphore sees it.               *)
LEMMA OneDoes ==
  ASSUME NEW t \in Thread, NEW w, Doing(t)' = w,
         \A u \in Thread \ {t} : Doing(u)' = Doing(u)
  PROVE  User' = [User EXCEPT ![t] = w] /\ User[t] = Doing(t)
BY DEF User

(* A step the counting semaphore does not see.                             *)
LEMMA NobodyDoes ==
  ASSUME value' = value, \A u \in Thread : Doing(u)' = Doing(u)
  PROVE  UNCHANGED Semaphore!semVars
BY DEF Semaphore!semVars

(* Each action as one of the counting semaphore, or as none of it.         *)
LEMMA TakesIt ==
  ASSUME IInv, NEW t \in Thread, TakeToken(t)
  PROVE  Semaphore!Take(t)
<1>1. t \notin Range(waiters) /\ pc[t] = "run" /\ value > 0 /\ value' = value - 1
  BY Running DEF TakeToken, Runs
<1>2. Doing(t) = "away"
  BY <1>1 DEF Doing
<1>3. User' = User
  BY DEF TakeToken, User, Doing
<1>4. QED
  BY <1>1, <1>2, <1>3 DEF Semaphore!Take, User

(* A wait is a wait.                                                       *)
LEMMA WaitsForIt ==
  ASSUME IInv, NEW t \in Thread, Wait(t)
  PROVE  Semaphore!Wait(t)
<1>1. t \notin Range(waiters) /\ pc[t] = "run" /\ value = 0 /\ value' = value
  BY Running DEF Wait, Runs
<1>2. Range(waiters') = Range(waiters) \cup {t}
  BY <1>1, Facts, AppendKeeps DEF Wait, Queued
<1>3. Doing(t) = "away" /\ Doing(t)' = "waits"
  BY <1>1, <1>2 DEF Doing
<1>4. \A u \in Thread \ {t} : pc'[u] = pc[u] /\ err'[u] = err[u]
  BY DEF Wait, Goes, IInv, TypeOK
<1>5. \A u \in Thread \ {t} : Doing(u)' = Doing(u)
  BY <1>2, <1>4, NobodyElse
<1>6. User' = [User EXCEPT ![t] = "waits"] /\ User[t] = "away"
  BY <1>3, <1>5, OneDoes
<1>7. QED
  BY <1>1, <1>6 DEF Semaphore!Wait, Semaphore!Set, User

(* The return of rt_sem_take is the return.                                *)
LEMMA Returns ==
  ASSUME IInv, NEW t \in Thread, TakeReturns(t)
  PROVE  Semaphore!Return(t)
<1>1. /\ t \notin Range(waiters) /\ pc[t] = "took" /\ value' = value /\ waiters' = waiters
      /\ pc' = [pc EXCEPT ![t] = "run"] /\ err' = [err EXCEPT ![t] = "OK"]
      /\ pc \in [Thread -> {"run", "sched", "take", "took"}]
      /\ err \in [Thread -> {"OK", "ETIMEOUT"}]
  BY Running DEF TakeReturns, Runs, Goes, IInv, TypeOK
<1>2. Doing(t) \in {"holds", "gaveUp"} /\ Doing(t)' = "away"
  BY <1>1 DEF Doing
<1>3. \A u \in Thread \ {t} : Doing(u)' = Doing(u)
  BY <1>1, NobodyElse
<1>4. User' = [User EXCEPT ![t] = "away"] /\ User[t] \in {"holds", "gaveUp"}
  BY <1>2, <1>3, OneDoes
<1>5. QED
  BY <1>1, <1>4 DEF Semaphore!Return, Semaphore!Set, User

(* Whoever releases has nothing to do with the semaphore himself.          *)
LEMMA GrantsOrKeeps ==
  ASSUME IInv, Release, NEW S, S \subseteq Thread,
         \A u \in Thread \ S : pc'[u] = pc[u],
         \A u \in S : u \notin Range(waiters) /\ {pc[u], pc'[u]} \subseteq {"run", "sched"}
  PROVE  [Semaphore!Next]_(Semaphore!semVars)
<1>1. err' = err
  BY DEF Release
<1>2. CASE Wakes
  <2>1. waiters \in Seq(Thread) /\ IsInjective(waiters) /\ waiters # << >>
    BY <1>2, Facts DEF Wakes
  <2>2. waiters' = Tail(waiters) /\ value' = value
    BY <1>2 DEF Release
  <2>3. PICK t \in Thread : t \in Range(waiters) /\ Range(waiters') = Range(waiters) \ {t}
    BY <2>1, <2>2, TailKeeps
  <2>4. pc[t] \in {"take", "took"} /\ err[t] = "OK" /\ pc'[t] = pc[t]
    BY <2>3 DEF IInv, Places
  <2>5. Doing(t) = "waits" /\ Doing(t)' = "holds"
    BY <2>3, <2>4, <1>1 DEF Doing
  <2>6. \A u \in Thread \ {t} : Doing(u)' = Doing(u)
    BY <2>3, <1>1 DEF Doing
  <2>7. User' = [User EXCEPT ![t] = "holds"] /\ User[t] = "waits"
    BY <2>3, <2>5, <2>6, OneDoes
  <2>8. Semaphore!Grant(t)
    BY <2>2, <2>7 DEF Semaphore!Grant, Semaphore!Set, User
  <2>9. QED
    BY <2>3, <2>8 DEF Semaphore!Next
<1>3. CASE ~Wakes
  <2>1. waiters = << >> /\ waiters' = waiters
    BY <1>3 DEF Release, Wakes
  <2>2. \A u \in Thread : u \notin Range(waiters)
    BY <2>1 DEF Range
  <2>3. \A u \in Thread : Doing(u)' = Doing(u) /\ Doing(u) # "waits"
    BY <2>1, <2>2, <1>1 DEF Doing
  <2>4. CASE value < SemMax
    <3>1. value' = value + 1
      BY <1>3, <2>4 DEF Release
    <3>2. User' = User /\ \A u \in Thread : User[u] # "waits"
      BY <2>3 DEF User
    <3>3. Semaphore!Keep
      BY <2>4, <3>1, <3>2 DEF Semaphore!Keep, User
    <3>4. QED
      BY <3>3 DEF Semaphore!Next
  <2>5. CASE ~(value < SemMax)
    <3>1. value' = value
      BY <1>3, <2>5 DEF Release
    <3>2. QED
      BY <3>1, <2>3, NobodyDoes
  <2>6. QED
    BY <2>4, <2>5
<1>4. QED
  BY <1>2, <1>3

(* A timeout makes its thread give up, or ends a sleep.                    *)
LEMMA GivesUpOrSlept ==
  ASSUME IInv, Timeout
  PROVE  [Semaphore!Next]_(Semaphore!semVars)
<1>1. timers \in Seq(Timers) /\ Once(timers) /\ timers # << >>
  BY Facts DEF Timeout, Expired
<1>2. PICK t \in Thread : t \in Timed(timers) /\ t = Head(timers).thread
  BY <1>1, FirstTimer, Facts
<1>. DEFINE r == Unlinked(waiters, {i \in DOMAIN waiters : waiters[i] = t})
<1>3. /\ waiters' = r /\ err' = [err EXCEPT ![t] = "ETIMEOUT"]
      /\ err \in [Thread -> {"OK", "ETIMEOUT"}] /\ pc' = pc /\ value' = value
  BY <1>2 DEF Timeout, IInv, TypeOK
<1>4. waiters \in Seq(Thread) /\ IsInjective(waiters)
  BY Facts
<1>5. Range(r) = Range(waiters) \ {t}
  BY <1>4, UnlinkedKeeps
<1>. HIDE DEF r
<1>6. waiters' = r /\ t \in Thread
  BY <1>3
<1>7. \A u \in Thread \ {t} : Doing(u)' = Doing(u)
  BY <1>3, <1>5 DEF Doing
<1>8. CASE t \in Range(waiters)
  <2>1. pc[t] \in {"take", "took"}
    BY <1>8 DEF IInv, Places
  <2>2. Doing(t) = "waits" /\ Doing(t)' = "gaveUp"
    BY <2>1, <1>3, <1>5, <1>6, <1>8 DEF Doing
  <2>3. User' = [User EXCEPT ![t] = "gaveUp"] /\ User[t] = "waits"
    BY <2>2, <1>6, <1>7, OneDoes
  <2>4. Semaphore!GiveUp(t)
    BY <2>3, <1>3 DEF Semaphore!GiveUp, Semaphore!Set, User
  <2>5. QED
    BY <2>4, <1>6 DEF Semaphore!Next
<1>9. CASE t \notin Range(waiters)
  <2>1. pc[t] \in {"sched", "run"}
    BY <1>2, <1>9 DEF IInv, Places, Sleeping
  <2>2. Doing(t)' = Doing(t)
    BY <2>1, <1>3, <1>5, <1>9 DEF Doing
  <2>3. QED
    BY <2>2, <1>3, <1>7, NobodyDoes
<1>10. QED
  BY <1>8, <1>9

(* Every step of the kernel is one of the counting semaphore, or none.     *)
LEMMA StepSemaphore == IInv /\ [Next]_vars => [Semaphore!Next]_(Semaphore!semVars)
<1>. SUFFICES ASSUME IInv, [Next]_vars
              PROVE  [Semaphore!Next]_(Semaphore!semVars)
  OBVIOUS
<1>1. ASSUME NEW t \in Thread, Application(t)
      PROVE  [Semaphore!Next]_(Semaphore!semVars)
  <2>1. CASE TakeToken(t)
    BY <2>1, TakesIt DEF Semaphore!Next
  <2>2. CASE Wait(t)
    BY <2>2, WaitsForIt DEF Semaphore!Next
  <2>3. CASE TakeReturns(t)
    BY <2>3, Returns DEF Semaphore!Next
  <2>4. CASE ThreadReleases(t)
    <3>1. t \notin Range(waiters) /\ Release /\ pc[t] = "run"
      BY <2>4, Running DEF ThreadReleases, Runs
    <3>2. pc'[t] \in {"run", "sched"} /\ \A u \in Thread \ {t} : pc'[u] = pc[u]
      BY <2>4, <3>1 DEF ThreadReleases, IInv, TypeOK
    <3>. DEFINE S == {t}
    <3>3. /\ S \subseteq Thread /\ \A u \in Thread \ S : pc'[u] = pc[u]
          /\ \A u \in S : u \notin Range(waiters) /\ {pc[u], pc'[u]} \subseteq {"run", "sched"}
      BY <3>1, <3>2
    <3>. HIDE DEF S
    <3>4. QED
      BY <3>1, <3>3, GrantsOrKeeps
  <2>5. ASSUME NEW time \in Times, Sleep(t, time)
        PROVE  [Semaphore!Next]_(Semaphore!semVars)
    <3>1. /\ t \notin Range(waiters) /\ pc[t] = "run" /\ pc'[t] = "sched"
          /\ waiters' = waiters /\ value' = value
          /\ \A u \in Thread \ {t} : pc'[u] = pc[u] /\ err'[u] = err[u]
      BY <2>5, Running DEF Sleep, Runs, Goes, IInv, TypeOK
    <3>2. \A u \in Thread : Doing(u)' = Doing(u)
      BY <3>1 DEF Doing
    <3>3. QED
      BY <3>1, <3>2, NobodyDoes
  <2>6. ASSUME Exit(t) \/ \E u \in Thread : Startup(t, u)
        PROVE  [Semaphore!Next]_(Semaphore!semVars)
    <3>1. /\ t \notin Range(waiters) /\ pc[t] = "run" /\ pc'[t] = "sched"
          /\ waiters' = waiters /\ value' = value /\ err' = err
          /\ \A u \in Thread \ {t} : pc'[u] = pc[u]
      BY <2>6, Running DEF Exit, Startup, Runs, Goes, IInv, TypeOK
    <3>2. \A u \in Thread : Doing(u)' = Doing(u)
      BY <3>1 DEF Doing
    <3>3. QED
      BY <3>1, <3>2, NobodyDoes
  <2>7. CASE CallsSchedule(t)
    <3>1. /\ waiters' = waiters /\ value' = value /\ err' = err
          /\ \A u \in Thread \ {t} : pc'[u] = pc[u]
          /\ \/ pc[t] = "take" /\ pc'[t] = "took"
             \/ pc[t] = "sched" /\ pc'[t] = "run"
      BY <2>7 DEF CallsSchedule, Runs, Goes, IInv, TypeOK
    <3>2. \A u \in Thread : Doing(u)' = Doing(u)
      BY <3>1 DEF Doing
    <3>3. QED
      BY <3>1, <3>2, NobodyDoes
  <2>8. QED
    BY <1>1, <2>1, <2>2, <2>3, <2>4, <2>5, <2>6, <2>7
    DEF Application, TakeForever, TakeTimed
<1>2. CASE UartReleases
  <2>1. Release /\ pc' = pc
    BY <1>2 DEF UartReleases
  <2>. DEFINE S == {}
  <2>2. /\ S \subseteq Thread /\ \A u \in Thread \ S : pc'[u] = pc[u]
        /\ \A u \in S : u \notin Range(waiters) /\ {pc[u], pc'[u]} \subseteq {"run", "sched"}
    BY <2>1
  <2>. HIDE DEF S
  <2>3. QED
    BY <2>1, <2>2, GrantsOrKeeps
<1>3. ASSUME UartSchedules \/ Tick \/ CheckDone \/ UNCHANGED vars
      PROVE  [Semaphore!Next]_(Semaphore!semVars)
  <2>1. waiters' = waiters /\ value' = value /\ err' = err /\ pc' = pc
    BY <1>3 DEF UartSchedules, Tick, CheckDone, vars
  <2>2. \A u \in Thread : Doing(u)' = Doing(u)
    BY <2>1 DEF Doing
  <2>3. QED
    BY <2>1, <2>2, NobodyDoes
<1>4. CASE Timeout
  BY <1>4, GivesUpOrSlept
<1>5. QED
  BY <1>1, <1>2, <1>3, <1>4 DEF Next, SysTick

(* What rt_sem_take, rt_sem_release and the timeouts do to a semaphore in  *)
(* many steps is a counting semaphore: each token goes to one taker.       *)
THEOREM KernelSemaphore == Spec => SemaphoreSpec
<1>1. Init => Semaphore!Init
  <2>. SUFFICES ASSUME Init PROVE Semaphore!Init
    OBVIOUS
  <2>1. \A t \in Thread : Doing(t) = "away"
    BY DEF Init, Doing, Range
  <2>2. QED
    BY <2>1 DEF Init, Semaphore!Init
<1>2. QED
  BY <1>1, Invariant, StepSemaphore, PTL DEF Spec, SemaphoreSpec, Semaphore!Spec
-----------------------------------------------------------------------------
(* The timers, nearest first, none of them due before low ticks have passed*)
(* and none further ahead than the comparison of ticks can tell.           *)
Nearest(list, low) ==
  /\ \A i \in DOMAIN list : Ahead(list[i]) \in low..Half-1
  /\ \A i, j \in DOMAIN list : i < j => Ahead(list[i]) <= Ahead(list[j])

(* What TimersAhead needs to be kept: SysTick makes timers due and handles *)
(* them before anybody starts another one.                                 *)
TimersInv == Nearest(timers, IF sys = "off" THEN 1 ELSE 0)

(* Differences and sums of ticks wrap around at most once.                 *)
LEMMA WrapsOnce ==
  ASSUME NEW x \in -TickMod..2*TickMod-1
  PROVE  x % TickMod = IF x < 0 THEN x + TickMod ELSE IF x < TickMod THEN x ELSE x - TickMod
BY KernelAssumption

(* The range that the comparison of ticks can tell.                        *)
LEMMA HalfIs == /\ TickMod \in Nat \ {0} /\ Half \in Nat /\ 2 * Half <= TickMod - 1
                /\ \A time \in Times : time \in 1..Half-1
BY KernelAssumption DEF Half

(* How far ahead a deadline is; it comes one tick nearer with each tick.   *)
LEMMA AheadIs ==
  ASSUME tick \in 0..TickMod-1, NEW x \in Timers
  PROVE  /\ Ahead(x) = IF x.at >= tick THEN x.at - tick ELSE x.at - tick + TickMod
         /\ Ahead(x) \in 0..TickMod-1
         /\ Ahead(x) > 0 => Ahead(x) - 1 = (x.at - ((tick + 1) % TickMod)) % TickMod
<1>1. TickMod \in Nat \ {0} /\ x.at \in 0..TickMod-1
  BY KernelAssumption DEF Timers
<1>. DEFINE next == (tick + 1) % TickMod
<1>2. next = IF tick + 1 < TickMod THEN tick + 1 ELSE tick + 1 - TickMod
  BY <1>1, WrapsOnce
<1>3. Ahead(x) = IF x.at >= tick THEN x.at - tick ELSE x.at - tick + TickMod
  BY <1>1, WrapsOnce DEF Ahead
<1>4. (x.at - next) % TickMod = IF x.at >= next THEN x.at - next ELSE x.at - next + TickMod
  <2>1. next \in 0..TickMod-1
    BY <1>1, <1>2
  <2>. HIDE DEF next
  <2>2. QED
    BY <1>1, <2>1, WrapsOnce
<1>. HIDE DEF next
<1>5. Ahead(x) > 0 => Ahead(x) - 1 = (x.at - next) % TickMod
  BY <1>1, <1>2, <1>3, <1>4
<1>6. QED
  BY <1>1, <1>3, <1>5 DEF next

(* A timer that is started runs ahead of the tick by its time, and later   *)
(* than it is every timer that the comparison of the deadlines calls later.*)
LEMMA StartsAhead ==
  ASSUME tick \in 0..TickMod-1, NEW time \in Times, NEW x \in Timers,
         x.at = (tick + time) % TickMod
  PROVE  /\ Ahead(x) = time
         /\ \A y \in Timers : Ahead(y) \in 1..Half-1 =>
              ((y.at - x.at) % TickMod \in 1..Half-1 <=> Ahead(y) > time)
<1>1. /\ TickMod \in Nat \ {0} /\ Half \in Nat /\ 2 * Half <= TickMod - 1
      /\ time \in 1..Half-1 /\ x.at \in 0..TickMod-1
  BY HalfIs DEF Timers
<1>2. x.at = IF tick + time < TickMod THEN tick + time ELSE tick + time - TickMod
  <2>. DEFINE sum == tick + time
  <2>1. sum \in -TickMod..2*TickMod-1 /\ ~(sum < 0)
    BY <1>1
  <2>2. x.at = sum % TickMod
    OBVIOUS
  <2>. HIDE DEF sum
  <2>3. x.at = IF sum < TickMod THEN sum ELSE sum - TickMod
    BY <2>1, <2>2, WrapsOnce
  <2>4. QED
    BY <1>1, <2>3 DEF sum
<1>3. Ahead(x) = time
  BY <1>1, <1>2, AheadIs
<1>4. ASSUME NEW y \in Timers, Ahead(y) \in 1..Half-1
      PROVE  (y.at - x.at) % TickMod \in 1..Half-1 <=> Ahead(y) > time
  <2>1. y.at \in 0..TickMod-1
    BY DEF Timers
  <2>2. (y.at - x.at) % TickMod =
          IF y.at >= x.at THEN y.at - x.at ELSE y.at - x.at + TickMod
    <3>1. y.at - x.at \in -TickMod..2*TickMod-1 /\ y.at - x.at < TickMod
          /\ (y.at - x.at < 0 <=> ~(y.at >= x.at))
      BY <1>1, <2>1
    <3>2. QED
      BY <3>1, WrapsOnce
  <2>3. Ahead(y) = IF y.at >= tick THEN y.at - tick ELSE y.at - tick + TickMod
    BY AheadIs
  <2>4. QED
    BY <1>1, <1>2, <1>4, <2>1, <2>2, <2>3
<1>5. QED
  BY <1>3, <1>4

(* The order of the timers survives that one of them is taken out.         *)
LEMMA RemovedNearest ==
  ASSUME NEW list \in Seq(Timers), NEW low, Nearest(list, low), NEW i \in DOMAIN list
  PROVE  Nearest(RemoveAt(list, i), low)
<1>. DEFINE r == RemoveAt(list, i)
<1>1. Len(list) \in Nat /\ DOMAIN list = 1..Len(list) /\ i \in 1..Len(list)
  BY LenProperties
<1>2. /\ r \in Seq(Timers) /\ Len(r) = Len(list) - 1
      /\ \A j \in 1..Len(list)-1 : r[j] = IF j < i THEN list[j] ELSE list[j + 1]
  BY <1>1, RemoveAtIs
<1>. HIDE DEF r
<1>3. DOMAIN r = 1..Len(list)-1
  BY <1>2, LenProperties
<1>. DEFINE From(j) == IF j < i THEN j ELSE j + 1
<1>4. ASSUME NEW j \in DOMAIN r PROVE From(j) \in DOMAIN list /\ r[j] = list[From(j)]
  BY <1>1, <1>2, <1>3
<1>5. ASSUME NEW j \in DOMAIN r, NEW l \in DOMAIN r, j < l PROVE From(j) < From(l)
  BY <1>1, <1>3, <1>5
<1>. HIDE DEF From
<1>6. QED
  BY <1>4, <1>5 DEF Nearest, r

(* It survives rt_timer_stop, which may find no timer.                     *)
LEMMA StoppedNearest ==
  ASSUME NEW list \in Seq(Timers), NEW low, Nearest(list, low), NEW t
  PROVE  Nearest(Stopped(list, t), low)
<1>. DEFINE at == {i \in DOMAIN list : list[i].thread = t}
<1>1. CASE at = {}
  BY <1>1 DEF Stopped, Unlinked
<1>2. CASE at # {}
  <2>1. PICK i \in DOMAIN list : Stopped(list, t) = RemoveAt(list, i)
    BY <1>2 DEF Stopped, Unlinked
  <2>2. QED
    BY <2>1, RemovedNearest
<1>3. QED
  BY <1>1, <1>2

(* It survives that the first timer is handled, and no other timer is due  *)
(* before it.                                                              *)
LEMMA TailNearest ==
  ASSUME NEW list \in Seq(Timers), NEW low, Nearest(list, low), list # << >>
  PROVE  /\ Nearest(Tail(list), low)
         /\ Head(list) \in Timers /\ Ahead(Head(list)) \in low..Half-1
         /\ \A i \in DOMAIN list : Ahead(Head(list)) <= Ahead(list[i])
<1>1. /\ Len(list) \in Nat /\ Len(list) >= 1 /\ DOMAIN list = 1..Len(list)
      /\ Head(list) = list[1] /\ list[1] \in Timers
  BY EmptySeq, LenProperties, ElementOfSeq
<1>2. /\ Tail(list) \in Seq(Timers) /\ Len(Tail(list)) = Len(list) - 1
      /\ \A j \in 1..Len(list)-1 : Tail(list)[j] = list[j + 1]
  BY <1>1, HeadTailProperties
<1>. DEFINE r == Tail(list)
<1>3. DOMAIN r = 1..Len(list)-1
  BY <1>2, LenProperties
<1>4. ASSUME NEW j \in DOMAIN r PROVE j + 1 \in DOMAIN list /\ r[j] = list[j + 1]
  BY <1>1, <1>2, <1>3
<1>5. ASSUME NEW j \in DOMAIN r, NEW l \in DOMAIN r, j < l PROVE j + 1 < l + 1
  BY <1>1, <1>3, <1>5
<1>. HIDE DEF r
<1>6. Nearest(r, low)
  BY <1>4, <1>5 DEF Nearest
<1>7. \A i \in DOMAIN list : Ahead(list[1]) <= Ahead(list[i])
  <2>1. ASSUME NEW i \in DOMAIN list PROVE Ahead(list[1]) <= Ahead(list[i])
    <3>1. list[1] \in Timers /\ Ahead(list[1]) \in low..Half-1
      BY <1>1 DEF Nearest
    <3>2. CASE i = 1
      BY <3>1, <3>2
    <3>3. CASE i # 1
      BY <1>1, <3>3 DEF Nearest
    <3>4. QED
      BY <3>2, <3>3
  <2>2. QED
    BY <2>1
<1>8. QED
  BY <1>1, <1>6, <1>7 DEF r, Nearest

(* It survives rt_timer_start, which puts the timer before the first later *)
(* one.                                                                    *)
LEMMA LinkedNearest ==
  ASSUME NEW list \in Seq(Timers), Nearest(list, 1), NEW x \in Timers,
         tick \in 0..TickMod-1, Ahead(x) \in 1..Half-1, NEW later,
         later = {i \in DOMAIN list : Ahead(list[i]) > Ahead(x)}
  PROVE  Nearest(Linked(list, x, later), 1)
<1>1. Len(list) \in Nat /\ DOMAIN list = 1..Len(list)
  BY LenProperties
<1>2. \E n \in later \cup {Len(list) + 1} : \A i \in later : n <= i
  <2>1. CASE later = {}
    BY <2>1
  <2>2. CASE later # {}
    <3>1. later \subseteq Nat
      BY <1>1
    <3>2. QED
      BY <2>2, <3>1, Least
  <2>3. QED
    BY <2>1, <2>2
<1>. DEFINE Place == CHOOSE n \in later \cup {Len(list) + 1} : \A i \in later : n <= i
            r == Linked(list, x, later)
<1>3. /\ Place \in 1..Len(list)+1 /\ Place \in later \cup {Len(list) + 1}
      /\ \A i \in later : Place <= i
  BY <1>1, <1>2
<1>4. r = InsertAt(list, Place, x)
  BY DEF Linked
<1>. HIDE DEF Place, r
<1>5. /\ DOMAIN r = 1..Len(list)+1
      /\ \A j \in 1..Len(list)+1 :
           r[j] = IF j < Place THEN list[j] ELSE IF j = Place THEN x ELSE list[j - 1]
  <2>. DEFINE b == InsertAt(list, Place, x)
  <2>1. /\ b \in Seq(Timers) /\ Len(b) = Len(list) + 1
        /\ \A j \in 1..Len(list)+1 :
             b[j] = IF j < Place THEN list[j] ELSE IF j = Place THEN x ELSE list[j - 1]
    BY <1>3, InsertAtIs, SMTT(60)
  <2>. HIDE DEF b
  <2>2. QED
    BY <1>1, <1>4, <2>1, LenProperties DEF b
<1>6. ASSUME NEW i \in DOMAIN list
      PROVE  /\ Ahead(list[i]) \in 1..Half-1
             /\ i < Place => Ahead(list[i]) <= Ahead(x)
             /\ i >= Place => Ahead(x) < Ahead(list[i])
  <2>1. Ahead(list[i]) \in 1..Half-1 /\ Ahead(x) \in Int
    BY DEF Nearest
  <2>2. i < Place => Ahead(list[i]) <= Ahead(x)
    BY <1>1, <1>3, <2>1
  <2>3. ASSUME i >= Place PROVE Ahead(x) < Ahead(list[i])
    <3>1. Place \in later /\ Place \in DOMAIN list
      BY <1>1, <1>3, <2>3
    <3>2. Ahead(list[Place]) \in 1..Half-1 /\ Ahead(x) < Ahead(list[Place])
      BY <3>1 DEF Nearest
    <3>3. i = Place \/ Ahead(list[Place]) <= Ahead(list[i])
      BY <1>1, <2>3, <3>1 DEF Nearest
    <3>4. QED
      BY <2>1, <3>2, <3>3
  <2>4. QED
    BY <2>1, <2>2, <2>3
<1>7. ASSUME NEW j \in DOMAIN r PROVE Ahead(r[j]) \in 1..Half-1
  <2>1. CASE j = Place
    BY <1>5, <2>1
  <2>2. CASE j < Place
    BY <1>1, <1>3, <1>5, <1>6, <2>2
  <2>3. CASE j > Place
    <3>1. j - 1 \in DOMAIN list /\ r[j] = list[j - 1]
      BY <1>1, <1>3, <1>5, <2>3
    <3>2. QED
      BY <1>6, <3>1
  <2>4. QED
    BY <1>1, <1>3, <1>5, <2>1, <2>2, <2>3
<1>8. ASSUME NEW j \in DOMAIN r, NEW l \in DOMAIN r, j < l
      PROVE  Ahead(r[j]) <= Ahead(r[l])
  <2>0. j \in 1..Len(list)+1 /\ l \in 1..Len(list)+1
    BY <1>5
  <2>1. CASE l < Place
    <3>1. /\ r[j] = list[j] /\ r[l] = list[l] /\ j \in DOMAIN list /\ l \in DOMAIN list
      BY <1>1, <1>3, <1>5, <1>8, <2>0, <2>1
    <3>2. QED
      BY <1>8, <3>1 DEF Nearest
  <2>2. CASE l = Place
    <3>1. r[j] = list[j] /\ r[l] = x /\ j \in DOMAIN list /\ j < Place
      BY <1>1, <1>3, <1>5, <1>8, <2>0, <2>2
    <3>2. QED
      BY <1>6, <3>1
  <2>3. CASE l > Place
    <3>1. r[l] = list[l - 1] /\ l - 1 \in DOMAIN list /\ l - 1 >= Place
      BY <1>1, <1>3, <1>5, <2>0, <2>3
    <3>2. CASE j = Place
      BY <1>5, <1>6, <3>1, <3>2
    <3>3. CASE j < Place
      <4>1. r[j] = list[j] /\ j \in DOMAIN list /\ j < l - 1
        BY <1>1, <1>3, <1>5, <2>0, <2>3, <3>3
      <4>2. QED
        BY <3>1, <4>1 DEF Nearest
    <3>4. CASE j > Place
      <4>1. r[j] = list[j - 1] /\ j - 1 \in DOMAIN list /\ j - 1 < l - 1
        BY <1>1, <1>3, <1>5, <1>8, <2>0, <3>4
      <4>2. QED
        BY <3>1, <4>1 DEF Nearest
    <3>5. QED
      BY <1>3, <2>0, <3>2, <3>3, <3>4
  <2>4. QED
    BY <1>3, <2>0, <2>1, <2>2, <2>3
<1>9. QED
  BY <1>7, <1>8 DEF Nearest, r

(* rt_timer_start keeps the timers ahead, nearest first, across the wrap of*)
(* the tick too.                                                           *)
LEMMA StartTimerNearest ==
  ASSUME IInv, Nearest(timers, 1), NEW t \in Thread, NEW time \in Times,
         StartTimer(t, time)
  PROVE  Nearest(timers', 1)
<1>. DEFINE list == Stopped(timers, t)
            at == (tick + time) % TickMod
            x == [thread |-> t, at |-> at]
            later == {i \in DOMAIN list : (list[i].at - at) % TickMod \in 1..Half-1}
<1>1. timers \in Seq(Timers) /\ Once(timers) /\ tick \in 0..TickMod-1
  BY Facts DEF IInv, TypeOK
<1>2. list \in Seq(Timers) /\ Nearest(list, 1)
  BY <1>1, StoppedKeeps, StoppedNearest
<1>3. at \in 0..TickMod-1
  BY <1>1, HalfIs
<1>4. timers' = Linked(list, x, later)
  BY DEF StartTimer
<1>5. x.at = at /\ at = (tick + time) % TickMod /\ x \in Timers
  <2>1. at = (tick + time) % TickMod
    OBVIOUS
  <2>. HIDE DEF at
  <2>2. QED
    BY <1>3, <2>1 DEF Timers
<1>. HIDE DEF list, x
<1>6. \A i \in DOMAIN list : list[i] \in Timers /\ Ahead(list[i]) \in 1..Half-1
  BY <1>2, ElementOfSeq, LenProperties DEF Nearest
<1>7. Ahead(x) = time /\ time \in 1..Half-1
  BY <1>1, <1>5, StartsAhead, HalfIs
<1>8. later = {i \in DOMAIN list : Ahead(list[i]) > Ahead(x)}
  <2>1. ASSUME NEW i \in DOMAIN list
        PROVE  (list[i].at - x.at) % TickMod \in 1..Half-1 <=> Ahead(list[i]) > time
    BY <1>1, <1>5, <1>6, StartsAhead
  <2>2. QED
    BY <1>5, <1>7, <2>1
<1>. HIDE DEF at, later
<1>9. QED
  BY <1>1, <1>2, <1>4, <1>5, <1>7, <1>8, LinkedNearest

(* While the tick stands still, only the list of the timers counts.        *)
LEMMA SameTick ==
  ASSUME UNCHANGED <<tick, sys>>, Nearest(timers', IF sys = "off" THEN 1 ELSE 0)
  PROVE  TimersInv'
BY DEF TimersInv, Nearest, Ahead

(* A release stops a timer or leaves all as they are.                      *)
LEMMA ReleaseNearest ==
  ASSUME IInv, TimersInv, Release
  PROVE  TimersInv'
<1>1. UNCHANGED <<tick, sys>>
  BY DEF Release
<1>2. timers' = timers \/ timers' = Stopped(timers, Head(waiters))
  BY DEF Release
<1>3. timers \in Seq(Timers)
  BY Facts
<1>4. Nearest(timers', IF sys = "off" THEN 1 ELSE 0)
  BY <1>2, <1>3, StoppedNearest DEF TimersInv
<1>5. QED
  BY <1>1, <1>4, SameTick

(* A tick brings every timer one tick nearer.                              *)
LEMMA TickNearest ==
  ASSUME IInv, TimersInv, Tick
  PROVE  TimersInv'
<1>1. /\ sys = "off" /\ sys' = "check" /\ timers' = timers
      /\ tick' = (tick + 1) % TickMod
      /\ timers \in Seq(Timers) /\ tick \in 0..TickMod-1 /\ Half \in Nat
  BY Facts, HalfIs DEF Tick, IInv, TypeOK
<1>2. Nearest(timers, 1)
  BY <1>1 DEF TimersInv
<1>3. ASSUME NEW i \in DOMAIN timers
      PROVE  /\ Ahead(timers[i]) \in 1..Half-1
             /\ (timers[i].at - tick') % TickMod = Ahead(timers[i]) - 1
  <2>1. timers[i] \in Timers /\ Ahead(timers[i]) \in 1..Half-1
    BY <1>1, <1>2, ElementOfSeq, LenProperties DEF Nearest
  <2>2. QED
    BY <1>1, <2>1, AheadIs
<1>4. ASSUME NEW i \in DOMAIN timers, NEW j \in DOMAIN timers, i < j
      PROVE  Ahead(timers[i]) - 1 <= Ahead(timers[j]) - 1
  BY <1>2, <1>3, <1>4 DEF Nearest
<1>5. \A i \in DOMAIN timers : (timers[i].at - tick') % TickMod \in 0..Half-1
  <2>1. ASSUME NEW i \in DOMAIN timers
        PROVE  (timers[i].at - tick') % TickMod \in 0..Half-1
    BY <1>1, <1>3
  <2>2. QED
    BY <2>1
<1>6. \A i, j \in DOMAIN timers : i < j =>
        (timers[i].at - tick') % TickMod <= (timers[j].at - tick') % TickMod
  BY <1>3, <1>4
<1>7. QED
  BY <1>1, <1>5, <1>6 DEF TimersInv, Nearest, Ahead

(* A timer that is due is the first one, and no timer that is still ahead  *)
(* is taken for one that is due.                                           *)
LEMMA DueIs ==
  ASSUME tick \in 0..TickMod-1, NEW x \in Timers, Ahead(x) \in 0..Half-1
  PROVE  (tick - x.at) % TickMod < Half <=> Ahead(x) = 0
<1>1. /\ TickMod \in Nat \ {0} /\ Half \in Nat /\ 2 * Half <= TickMod - 1
      /\ x.at \in 0..TickMod-1
  BY HalfIs DEF Timers
<1>. DEFINE back == tick - x.at
<1>2. back \in -TickMod..2*TickMod-1 /\ back < TickMod
  BY <1>1
<1>3. back % TickMod = IF back < 0 THEN back + TickMod ELSE back
  <2>. HIDE DEF back
  <2>1. QED
    BY <1>2, WrapsOnce
<1>4. Ahead(x) = IF x.at >= tick THEN x.at - tick ELSE x.at - tick + TickMod
  BY AheadIs
<1>5. QED
  BY <1>1, <1>3, <1>4

(* rt_timer_check ends when no timer is due any more.                      *)
LEMMA CheckDoneNearest ==
  ASSUME IInv, TimersInv, CheckDone
  PROVE  TimersInv'
<1>1. /\ sys = "check" /\ sys' = "off" /\ UNCHANGED <<tick, timers>> /\ ~Expired
      /\ timers \in Seq(Timers) /\ tick \in 0..TickMod-1 /\ Half \in Nat
  BY Facts, HalfIs DEF CheckDone, IInv, TypeOK
<1>2. Nearest(timers, 0)
  BY <1>1 DEF TimersInv
<1>3. ASSUME NEW i \in DOMAIN timers PROVE Ahead(timers[i]) \in 1..Half-1
  <2>1. timers # << >>
    BY <1>1, EmptySeq, LenProperties
  <2>. DEFINE x == Head(timers)
  <2>2. /\ x \in Timers /\ Ahead(x) \in 0..Half-1
        /\ Ahead(x) <= Ahead(timers[i])
    BY <1>1, <1>2, <2>1, TailNearest
  <2>3. ~((tick - x.at) % TickMod < Half)
    BY <1>1, <2>1 DEF Expired
  <2>4. Ahead(timers[i]) \in 0..Half-1
    BY <1>2 DEF Nearest
  <2>. HIDE DEF x
  <2>5. Ahead(x) # 0
    BY <1>1, <2>2, <2>3, DueIs
  <2>6. QED
    BY <1>1, <2>2, <2>4, <2>5
<1>4. \A i, j \in DOMAIN timers : i < j => Ahead(timers[i]) <= Ahead(timers[j])
  BY <1>2 DEF Nearest
<1>5. QED
  BY <1>1, <1>3, <1>4 DEF TimersInv, Nearest, Ahead

(* Every step of the kernel keeps the timers ahead of the tick.            *)
LEMMA StepTimers == IInv /\ TimersInv /\ [Next]_vars => TimersInv'
<1>. SUFFICES ASSUME IInv, TimersInv, [Next]_vars PROVE TimersInv'
  OBVIOUS
<1>1. ASSUME UNCHANGED <<tick, sys, timers>> PROVE TimersInv'
  BY <1>1, SameTick DEF TimersInv
<1>2. ASSUME NEW t \in Thread, NEW time \in Times, StartTimer(t, time),
             Runs(t, "run"), UNCHANGED <<tick, sys>>
      PROVE  TimersInv'
  <2>1. sys = "off" /\ Nearest(timers, 1)
    BY <1>2 DEF Runs, TimersInv
  <2>2. Nearest(timers', 1)
    BY <1>2, <2>1, StartTimerNearest
  <2>3. QED
    BY <1>2, <2>1, <2>2, SameTick
<1>3. ASSUME NEW t \in Thread, Application(t) PROVE TimersInv'
  <2>1. CASE TakeToken(t) \/ TakeForever(t) \/ TakeReturns(t) \/ Exit(t)
             \/ CallsSchedule(t)
    BY <1>1, <2>1 DEF TakeToken, TakeForever, Wait, TakeReturns, Exit, CallsSchedule
  <2>2. CASE \E u \in Thread : Startup(t, u)
    BY <1>1, <2>2 DEF Startup
  <2>3. CASE ThreadReleases(t)
    BY <2>3, ReleaseNearest DEF ThreadReleases
  <2>4. ASSUME NEW time \in Times, TakeTimed(t, time) PROVE TimersInv'
    BY <1>2, <2>4 DEF TakeTimed, Wait
  <2>5. ASSUME NEW time \in Times, Sleep(t, time) PROVE TimersInv'
    BY <1>2, <2>5 DEF Sleep
  <2>6. QED
    BY <1>3, <2>1, <2>2, <2>3, <2>4, <2>5 DEF Application
<1>4. CASE UartReleases
  BY <1>4, ReleaseNearest DEF UartReleases
<1>5. CASE UartSchedules
  BY <1>1, <1>5 DEF UartSchedules
<1>6. CASE Timeout
  <2>1. UNCHANGED <<tick, sys>> /\ timers # << >> /\ timers' = Tail(timers)
    BY <1>6 DEF Timeout, Expired
  <2>2. timers \in Seq(Timers)
    BY Facts
  <2>3. QED
    BY <2>1, <2>2, TailNearest, SameTick DEF TimersInv
<1>7. CASE UNCHANGED vars
  BY <1>1, <1>7 DEF vars
<1>8. QED
  BY <1>3, <1>4, <1>5, <1>6, <1>7, TickNearest, CheckDoneNearest DEF Next, SysTick

(* Outside rt_timer_check every active timer is still ahead, nearest first,*)
(* however many timers run, however long the system is up and wherever the *)
(* tick wraps (timer.c): no timer is overlooked.                           *)
THEOREM KernelTimersAhead == Spec => []TimersAhead
<1>1. Init => TimersInv
  BY DEF Init, TimersInv, Nearest
<1>2. TimersInv => TimersAhead
  BY DEF TimersInv, Nearest, TimersAhead
<1>3. QED
  BY <1>1, <1>2, StepTimers, Invariant, PTL DEF Spec

(* A timeout comes at the very tick its time is over.                      *)
OnTime == Timeout => Ahead(Head(timers)) = 0

(* Each timeout is on time: the comparison of ticks in rt_timer_check takes*)
(* no timer that is still ahead for one that is due, and SysTick handles   *)
(* the due ones before it counts the next tick.                            *)
THEOREM KernelTimeoutsOnTime == Spec => [][OnTime]_vars
<1>1. IInv /\ TimersInv => OnTime
  <2>. SUFFICES ASSUME IInv, TimersInv, Timeout PROVE Ahead(Head(timers)) = 0
    BY DEF OnTime
  <2>1. /\ sys = "check" /\ timers # << >> /\ tick \in 0..TickMod-1
        /\ (tick - Head(timers).at) % TickMod < Half
        /\ timers \in Seq(Timers)
    BY Facts DEF Timeout, Expired, IInv, TypeOK
  <2>2. Head(timers) \in Timers /\ Ahead(Head(timers)) \in 0..Half-1
    BY <2>1, TailNearest DEF TimersInv
  <2>3. QED
    BY <2>1, <2>2, DueIs
<1>2. Init => TimersInv
  BY DEF Init, TimersInv, Nearest
<1>3. QED
  BY <1>1, <1>2, StepTimers, Invariant, PTL DEF Spec
=============================================================================
