---------------------- MODULE FuriEventLoopTimerProofs ----------------------
(***************************************************************************)
(* The timers of the event loop, for any number of timers, any intervals   *)
(* that the width of the tick counter admits, and any lateness: the list   *)
(* stays sorted by deadline while time passes, commands move timers about  *)
(* and periodic timers catch up; so the timer that fires is the one whose  *)
(* deadline passed first, and no block that was freed is on a list.        *)
(***************************************************************************)
EXTENDS FuriEventLoopTimer, SequenceLemmas

(***************************************************************************)
(* The inductive invariant.                                                *)
(***************************************************************************)
(* Timer record q is due no later than r: what the loop waits for, and, of *)
(* two timers that have a deadline, the deadlines themselves.              *)
NotAfter(q, r) ==
  /\ Remaining(q) <= Remaining(r)
  /\ (q.interval # 0 /\ r.interval # 0) =>
       r.elapsed + q.interval <= q.elapsed + r.interval

Sorted(records, s) ==
  \A i, j \in DOMAIN s : i < j => NotAfter(records[s[i]], records[s[j]])

(* The two lists and the records agree. *)
ListsAgree ==
  /\ Distinct(list) /\ Distinct(queue)
  /\ \A t \in Timers :
       /\ (Contains(list, t) <=> timer[t].active)
       /\ (Contains(queue, t) <=> timer[t].request # "None")
       /\ (~timer[t].alive => timer[t] = Gone)

(* A deadline is never so old that the counter could wrap around. *)
Watched == \A t \in Timers : timer[t].active /\ timer[t].interval # 0 =>
                               timer[t].elapsed <= timer[t].interval + MaxLate

(* Only timers that are to be freed are left in a loop that is freed. *)
DrainSound ==
  /\ (pc = "draining") => \A t \in Timers : timer[t].alive => timer[t].request = "Free"
  /\ pc # "fault"

(* Functions deferred at start-up: the commands before them are queued,    *)
(* and the loop knows.                                                     *)
Held == \E k \in DOMAIN pending : pending[k].startup /\ pending[k].before # {}

StartupSound ==
  /\ \A k \in DOMAIN pending : \A t \in pending[k].before : timer[t].request # "None"
  /\ (pc = "idle" /\ queue # <<>>) => "Timer" \in bits
  /\ (pc = "pending_cb") => pending # <<>>
  /\ Held => \/ pc \in {"idle", "wait"} /\ "Timer" \in bits
             \/ pc \in {"event", "event_cb", "commands"} /\ "Timer" \in flags
             \/ pc \in {"stopped", "draining", "freed"}

TimerInv ==
  /\ TypeOK
  /\ ListsAgree
  /\ Sorted(timer, list)
  /\ Watched
  /\ DrainSound
  /\ StartupSound

(***************************************************************************)
(* Deadlines.                                                              *)
(***************************************************************************)
LEMMA ConstantTypes ==
  /\ Wrap \in Nat \ {0} /\ MaxLate \in Nat
  /\ Intervals \subseteq Nat /\ 0 \in Intervals \union {0}
  /\ \A i \in Intervals \union {0} : i \in Nat /\ i + MaxLate < Wrap
BY ConstantsAssumption DEF ConstantsAssumption

LEMMA RecordTypes ==
  ASSUME NEW r \in TimerRecords
  PROVE  /\ r.interval \in Nat /\ r.interval + MaxLate < Wrap
         /\ r.elapsed \in Nat /\ r.elapsed < Wrap
         /\ Wrap \in Nat \ {0} /\ MaxLate \in Nat
<1>1. r.interval \in Intervals \union {0} /\ r.elapsed \in 0 .. Wrap - 1
  BY DEF TimerRecords
<1>2. r.interval \in Nat /\ r.interval + MaxLate < Wrap
  BY <1>1, ConstantTypes
<1>3. Wrap \in Nat \ {0} /\ MaxLate \in Nat
  BY ConstantTypes
<1> QED BY <1>1, <1>2, <1>3

(* The counter does not wrap around below its width. *)
LEMMA NoWrap ==
  ASSUME NEW x \in Nat, NEW w \in Nat \ {0}, x < w
  PROVE  x % w = x
OBVIOUS

LEMMA Modulo ==
  ASSUME NEW x \in Nat, NEW w \in Nat \ {0}
  PROVE  x % w \in 0 .. w - 1 /\ x - w * (x \div w) = x % w /\ x \div w \in Nat
OBVIOUS

LEMMA ModuloTwice ==
  ASSUME NEW x \in Nat, NEW w \in Nat \ {0}
  PROVE  (x % w) % w = x % w
<1>1. x % w \in 0 .. w - 1
  BY Modulo
<1> QED BY <1>1, NoWrap

(* A system tick changes nothing but the elapsed time, by one unless the   *)
(* counter wraps around.                                                   *)
LEMMA OlderFields ==
  ASSUME NEW r \in TimerRecords
  PROVE  /\ Older(r) \in TimerRecords
         /\ Older(r).alive = r.alive /\ Older(r).active = r.active
         /\ Older(r).periodic = r.periodic /\ Older(r).request = r.request
         /\ Older(r).interval = r.interval /\ Older(r).next = r.next
         /\ (r.active /\ r.elapsed + 1 < Wrap) => Older(r).elapsed = r.elapsed + 1
<1> DEFINE e == (r.elapsed + 1) % Wrap
<1>1. r.elapsed + 1 \in Nat /\ Wrap \in Nat \ {0}
  BY ConstantTypes DEF TimerRecords
<1>2. e \in 0 .. Wrap - 1
  BY <1>1, Modulo
<1>3. (r.elapsed + 1 < Wrap) => e = r.elapsed + 1
  BY <1>1, NoWrap
<1> HIDE DEF e
<1>4. Older(r) = IF r.active \/ r.elapsed < r.interval THEN [r EXCEPT !.elapsed = e] ELSE r
  BY DEF Older, e
<1> QED BY <1>2, <1>3, <1>4 DEF TimerRecords

(* Time passes for all timers alike: their order does not change. *)
LEMMA OlderKeepsOrder ==
  ASSUME NEW q \in TimerRecords, NEW r \in TimerRecords,
         q.active, r.active, NotAfter(q, r),
         q.interval # 0 => q.elapsed < q.interval + MaxLate,
         r.interval # 0 => r.elapsed < r.interval + MaxLate
  PROVE  NotAfter(Older(q), Older(r))
<1>1. /\ q.interval \in Nat /\ q.elapsed \in Nat /\ q.interval + MaxLate < Wrap
      /\ r.interval \in Nat /\ r.elapsed \in Nat /\ r.interval + MaxLate < Wrap
      /\ Wrap \in Nat /\ MaxLate \in Nat
  BY RecordTypes
<1>2. /\ Older(q).interval = q.interval /\ Older(q).elapsed \in Nat
      /\ q.interval # 0 => Older(q).elapsed = q.elapsed + 1
  BY <1>1, OlderFields DEF TimerRecords
<1>3. /\ Older(r).interval = r.interval /\ Older(r).elapsed \in Nat
      /\ r.interval # 0 => Older(r).elapsed = r.elapsed + 1
  BY <1>1, OlderFields DEF TimerRecords
<1> QED BY <1>1, <1>2, <1>3 DEF NotAfter, Remaining

(* A timer that was just started or has caught up: its deadline is ahead.  *)
Fresh(r) == r.interval # 0 => r.elapsed < r.interval

(* For such a timer what remains decides the order of the deadlines.       *)
LEMMA RemainingDecides ==
  ASSUME NEW q \in TimerRecords, NEW r \in TimerRecords, Fresh(r)
  PROVE  /\ Remaining(q) \in Nat /\ Remaining(r) \in Nat
         /\ Remaining(q) <= Remaining(r) => NotAfter(q, r)
         /\ Remaining(q) > Remaining(r) => NotAfter(r, q)
<1>1. /\ q.interval \in Nat /\ q.elapsed \in Nat
      /\ r.interval \in Nat /\ r.elapsed \in Nat
  BY RecordTypes
<1> QED BY <1>1 DEF NotAfter, Remaining, Fresh

(***************************************************************************)
(* The sorted list.                                                        *)
(***************************************************************************)
(* Neither the commands nor a flag count for the order of a list.          *)
LEMMA SortedFrame ==
  ASSUME NEW f \in [Timers -> TimerRecords], NEW g \in [Timers -> TimerRecords],
         NEW s \in Seq(Timers), Sorted(f, s),
         \A k \in DOMAIN s : /\ g[s[k]].interval = f[s[k]].interval
                             /\ g[s[k]].elapsed = f[s[k]].elapsed
  PROVE  Sorted(g, s)
<1>1. \A k \in DOMAIN s : s[k] \in Timers
  BY ElementOfSeq, LenProperties
<1> QED BY <1>1 DEF Sorted, NotAfter, Remaining

(* Taking a timer off the list keeps it sorted. *)
LEMMA UnlinkSorted ==
  ASSUME NEW f \in [Timers -> TimerRecords], NEW s \in Seq(Timers),
         NEW t \in Timers, Sorted(f, s)
  PROVE  Sorted(f, Unlink(s, t))
<1>1. CASE ~Contains(s, t)
  BY <1>1 DEF Unlink
<1>2. CASE Contains(s, t)
  <2> DEFINE r == Unlink(s, t)
  <2>1. r \in Seq(Timers) /\ Len(r) = Len(s) - 1 /\ Len(s) \in Nat
    BY <1>2, UnlinkElements, LenProperties
  <2>2. PICK k \in 1..Len(s) :
          /\ s[k] = t
          /\ \A n \in 1..(Len(s) - 1) : r[n] = IF n < k THEN s[n] ELSE s[n + 1]
    BY <1>2, UnlinkElements
  <2>3. DOMAIN r = 1..(Len(s) - 1) /\ DOMAIN s = 1..Len(s)
    BY <2>1, LenProperties
  <2> HIDE DEF r
  <2>4. ASSUME NEW i \in DOMAIN r, NEW j \in DOMAIN r, i < j
        PROVE  NotAfter(f[r[i]], f[r[j]])
    <3>1. i \in 1..(Len(s) - 1) /\ j \in 1..(Len(s) - 1)
      BY <2>3
    <3> DEFINE m == IF i < k THEN i ELSE i + 1
               n == IF j < k THEN j ELSE j + 1
    <3>2. m \in 1..Len(s) /\ n \in 1..Len(s) /\ r[i] = s[m] /\ r[j] = s[n] /\ m < n
      BY <2>1, <2>2, <2>4, <3>1
    <3> QED BY <3>2, <2>3 DEF Sorted
  <2> QED BY <2>4 DEF Sorted, r
<1> QED BY <1>1, <1>2

LEMMA TailSorted ==
  ASSUME NEW f \in [Timers -> TimerRecords], NEW s \in Seq(Timers), s # <<>>, Sorted(f, s)
  PROVE  Sorted(f, Tail(s))
<1> DEFINE r == Tail(s)
<1>1. /\ Len(s) \in Nat \ {0} /\ r \in Seq(Timers)
      /\ DOMAIN r = 1..(Len(s) - 1) /\ DOMAIN s = 1..Len(s)
      /\ \A i \in 1..(Len(s) - 1) : r[i] = s[i + 1]
  BY HeadTailProperties, EmptySeq, LenProperties
<1> HIDE DEF r
<1>2. ASSUME NEW i \in DOMAIN r, NEW j \in DOMAIN r, i < j
      PROVE  NotAfter(f[r[i]], f[r[j]])
  <2>1. /\ i + 1 \in DOMAIN s /\ j + 1 \in DOMAIN s /\ i + 1 < j + 1
        /\ r[i] = s[i + 1] /\ r[j] = s[j + 1]
    BY <1>1, <1>2
  <2> QED BY <2>1 DEF Sorted
<1> QED BY <1>2 DEF Sorted, r

(* furi_event_loop_schedule_timer finds the place that keeps the list      *)
(* sorted: behind it, every timer expires later.                           *)
LEMMA SchedulePlace ==
  ASSUME NEW s \in Seq(Timers), NEW t \in Timers, NEW r \in TimerRecords,
         timer \in [Timers -> TimerRecords], Sorted(timer, s), Fresh(r)
  PROVE  \E p \in 0..Len(s) :
           /\ Schedule(s, t, r) = Inserted(s, p, t)
           /\ \A k \in 1..p : NotAfter(timer[s[k]], r)
           /\ \A k \in (p + 1)..Len(s) : NotAfter(r, timer[s[k]])
<1>1. Len(s) \in Nat /\ DOMAIN s = 1..Len(s) /\ \A k \in 1..Len(s) : s[k] \in Timers
  BY LenProperties, ElementOfSeq
<1>2. \A k \in 1..Len(s) : timer[s[k]] \in TimerRecords
  BY <1>1
<1> DEFINE earlier == {k \in 1..Len(s) : Remaining(timer[s[k]]) <= Remaining(r)}
           p == IF earlier = {} THEN 0 ELSE CHOOSE k \in earlier : \A j \in earlier : j <= k
<1>3. p \in 0..Len(s) /\ (p # 0 => p \in earlier) /\ \A j \in earlier : j <= p
  <2>1. CASE earlier = {}
    BY <1>1, <2>1
  <2>2. CASE earlier # {}
    <3>1. \E k \in earlier : \A j \in earlier : j =< k
      <4>1. earlier \subseteq Nat /\ \A j \in earlier : j =< Len(s)
        BY <1>1
      <4> HIDE DEF earlier
      <4> QED BY <1>1, <2>2, <4>1, LastPlace
    <3>2. p \in earlier /\ \A j \in earlier : j <= p
      <4> HIDE DEF earlier
      <4> QED BY <2>2, <3>1
    <3>3. earlier \subseteq 0..Len(s)
      BY <1>1
    <3> HIDE DEF earlier, p
    <3> QED BY <3>2, <3>3
  <2> QED BY <2>1, <2>2
<1> HIDE DEF p
<1>4. Schedule(s, t, r) = Inserted(s, p, t)
  BY DEF Schedule, Inserted, p, earlier
<1>5. ASSUME NEW k \in 1..p PROVE NotAfter(timer[s[k]], r)
  <2>1. k \in 1..Len(s) /\ p \in 1..Len(s) /\ Remaining(timer[s[p]]) <= Remaining(r)
    BY <1>1, <1>3
  <2>2. /\ Remaining(timer[s[k]]) \in Nat /\ Remaining(timer[s[p]]) \in Nat
        /\ Remaining(r) \in Nat
    BY <1>2, <2>1, RemainingDecides
  <2>3. Remaining(timer[s[k]]) <= Remaining(timer[s[p]])
    <3>1. CASE k = p
      BY <3>1, <2>2
    <3>2. CASE k < p
      BY <3>2, <2>1, <1>1 DEF Sorted, NotAfter
    <3> QED BY <3>1, <3>2, <2>1
  <2>4. Remaining(timer[s[k]]) <= Remaining(r)
    BY <2>1, <2>2, <2>3
  <2> QED BY <1>2, <2>1, <2>4, RemainingDecides
<1>6. ASSUME NEW k \in (p + 1)..Len(s) PROVE NotAfter(r, timer[s[k]])
  <2>1. k \in 1..Len(s) /\ k \notin earlier
    BY <1>1, <1>3
  <2>2. Remaining(timer[s[k]]) \in Nat /\ Remaining(r) \in Nat
    BY <1>2, <2>1, RemainingDecides
  <2>3. Remaining(timer[s[k]]) > Remaining(r)
    BY <2>1, <2>2
  <2> QED BY <1>2, <2>1, <2>3, RemainingDecides
<1> QED BY <1>3, <1>4, <1>5, <1>6

(* A timer that was not on the list is on it once, and with its new        *)
(* contents the list is sorted.                                            *)
LEMMA ScheduleSound ==
  ASSUME NEW s \in Seq(Timers), NEW t \in Timers, NEW r \in TimerRecords,
         timer \in [Timers -> TimerRecords], Sorted(timer, s), Fresh(r),
         Distinct(s), ~Contains(s, t)
  PROVE  /\ Schedule(s, t, r) \in Seq(Timers)
         /\ Distinct(Schedule(s, t, r))
         /\ \A i : Contains(Schedule(s, t, r), i) <=> Contains(s, i) \/ i = t
         /\ Sorted([timer EXCEPT ![t] = r], Schedule(s, t, r))
<1>1. Len(s) \in Nat /\ DOMAIN s = 1..Len(s) /\ \A k \in 1..Len(s) : s[k] \in Timers
  BY LenProperties, ElementOfSeq
<1>2. PICK p \in 0..Len(s) :
        /\ Schedule(s, t, r) = Inserted(s, p, t)
        /\ \A k \in 1..p : NotAfter(timer[s[k]], r)
        /\ \A k \in (p + 1)..Len(s) : NotAfter(r, timer[s[k]])
  BY SchedulePlace
<1> DEFINE l == Inserted(s, p, t)
<1>31. l \in Seq(Timers) /\ Len(l) = Len(s) + 1
  BY InsertElements
<1>32. \A n \in 1..p : l[n] = s[n]
  BY InsertElements
<1>33. l[p + 1] = t
  BY InsertElements
<1>34. \A n \in (p + 2)..(Len(s) + 1) : l[n] = s[n - 1]
  BY InsertElements
<1> HIDE DEF l
<1>3. /\ l \in Seq(Timers) /\ Len(l) = Len(s) + 1
      /\ \A n \in 1..p : l[n] = s[n]
      /\ l[p + 1] = t
      /\ \A n \in (p + 2)..(Len(s) + 1) : l[n] = s[n - 1]
  BY <1>31, <1>32, <1>33, <1>34
<1>4. DOMAIN l = 1..(Len(s) + 1)
  BY <1>3, LenProperties
<1> HIDE DEF l
<1>5. \A k \in 1..Len(s) : s[k] # t
  BY DEF Contains
<1>6. ASSUME NEW n \in 1..(Len(s) + 1), n # p + 1
      PROVE  \E k \in 1..Len(s) : l[n] = s[k] /\ k = IF n <= p THEN n ELSE n - 1
  <2>1. CASE n <= p
    BY <1>1, <1>3, <2>1
  <2>2. CASE n > p + 1
    <3>1. n - 1 \in 1..Len(s) /\ n \in (p + 2)..(Len(s) + 1)
      BY <1>1, <2>2
    <3> QED BY <1>3, <3>1, <2>2
  <2> QED BY <1>1, <1>6, <2>1, <2>2
<1>7. Distinct(l)
  <2>1. SUFFICES ASSUME NEW i \in 1..(Len(s) + 1), NEW j \in 1..(Len(s) + 1), l[i] = l[j]
                 PROVE  i = j
    BY <1>3 DEF Distinct
  <2>2. CASE i = p + 1 \/ j = p + 1
    BY <2>1, <2>2, <1>3, <1>5, <1>6
  <2>3. CASE i # p + 1 /\ j # p + 1
    <3>1. PICK k \in 1..Len(s) : l[i] = s[k] /\ k = IF i <= p THEN i ELSE i - 1
      BY <2>3, <1>6
    <3>2. PICK m \in 1..Len(s) : l[j] = s[m] /\ m = IF j <= p THEN j ELSE j - 1
      BY <2>3, <1>6
    <3>3. k = m
      BY <2>1, <3>1, <3>2 DEF Distinct
    <3> QED BY <1>1, <2>3, <3>1, <3>2, <3>3
  <2> QED BY <2>2, <2>3
<1>8. ASSUME NEW i PROVE Contains(l, i) <=> Contains(s, i) \/ i = t
  <2>1. ASSUME Contains(l, i), i # t PROVE Contains(s, i)
    <3>1. PICK n \in 1..(Len(s) + 1) : l[n] = i
      BY <2>1, <1>3 DEF Contains
    <3>2. n # p + 1
      BY <2>1, <3>1, <1>3
    <3> QED BY <3>1, <3>2, <1>6 DEF Contains
  <2>2. ASSUME Contains(s, i) PROVE Contains(l, i)
    <3>1. PICK k \in 1..Len(s) : s[k] = i
      BY <2>2 DEF Contains
    <3>2. CASE k <= p
      BY <3>1, <3>2, <1>1, <1>3 DEF Contains
    <3>3. CASE k > p
      <4>1. k + 1 \in (p + 2)..(Len(s) + 1) /\ k + 1 \in 1..Len(l) /\ l[k + 1] = s[(k + 1) - 1]
        BY <3>1, <3>3, <1>1, <1>3
      <4> QED BY <4>1, <3>1 DEF Contains
    <3> QED BY <3>2, <3>3, <1>1
  <2>3. Contains(l, t)
    <3>1. p + 1 \in 1..Len(l)
      BY <1>1, <1>3
    <3> QED BY <3>1, <1>3 DEF Contains
  <2> QED BY <2>1, <2>2, <2>3
<1> DEFINE g == [timer EXCEPT ![t] = r]
<1>9. g \in [Timers -> TimerRecords] /\ g[t] = r /\ \A k \in 1..Len(s) : g[s[k]] = timer[s[k]]
  BY <1>1, <1>5
<1> HIDE DEF g
<1>10. ASSUME NEW i \in DOMAIN l, NEW j \in DOMAIN l, i < j
       PROVE  NotAfter(g[l[i]], g[l[j]])
  <2>1. i \in 1..(Len(s) + 1) /\ j \in 1..(Len(s) + 1)
    BY <1>4
  <2>2. CASE i = p + 1
    <3>1. j \in (p + 2)..(Len(s) + 1) /\ j - 1 \in (p + 1)..Len(s) /\ l[j] = s[j - 1]
      BY <1>1, <1>3, <1>10, <2>1, <2>2
    <3>2. g[l[j]] = timer[s[j - 1]] /\ g[l[i]] = r
      BY <1>1, <1>3, <1>9, <2>2, <3>1
    <3> QED BY <1>2, <3>1, <3>2
  <2>3. CASE j = p + 1
    <3>1. i \in 1..p /\ l[i] = s[i]
      BY <1>1, <1>3, <1>10, <2>1, <2>3
    <3>2. g[l[i]] = timer[s[i]] /\ g[l[j]] = r
      BY <1>1, <1>3, <1>9, <2>3, <3>1
    <3> QED BY <1>2, <3>1, <3>2
  <2>4. CASE i # p + 1 /\ j # p + 1
    <3>1. PICK k \in 1..Len(s) : l[i] = s[k] /\ k = IF i <= p THEN i ELSE i - 1
      BY <2>1, <2>4, <1>6
    <3>2. PICK m \in 1..Len(s) : l[j] = s[m] /\ m = IF j <= p THEN j ELSE j - 1
      BY <2>1, <2>4, <1>6
    <3>3. k < m
      BY <1>1, <1>10, <2>1, <2>4, <3>1, <3>2
    <3> QED BY <1>1, <1>9, <3>1, <3>2, <3>3 DEF Sorted
  <2> QED BY <2>2, <2>3, <2>4
<1>11. Schedule(s, t, r) = l
  BY <1>2 DEF l
<1> QED BY <1>3, <1>7, <1>8, <1>10, <1>11 DEF g, Sorted

(***************************************************************************)
(* The invariant holds initially and is kept by every step.                *)
(***************************************************************************)
LEMMA BlankTypes ==
  /\ Gone \in TimerRecords
  /\ ~Gone.alive /\ ~Gone.active /\ Gone.request = "None"
  /\ \A p \in BOOLEAN : /\ Blank(p) \in TimerRecords
                        /\ Blank(p).alive /\ ~Blank(p).active /\ Blank(p).request = "None"
<1>1. 0 \in 0 .. Wrap - 1 /\ 0 \in Intervals \union {0}
  BY ConstantTypes
<1> QED BY <1>1 DEF Gone, Blank, TimerRecords, Requests

LEMMA InvInit == Init => TimerInv
<1> SUFFICES ASSUME Init PROVE TimerInv
  OBVIOUS
<1>1. TypeOK
  BY BlankTypes DEF Init, TypeOK, UserPcs
<1>2. ListsAgree
  BY BlankTypes DEF Init, ListsAgree, Distinct, Contains
<1>3. Sorted(timer, list)
  BY DEF Init, Sorted
<1>4. Watched
  BY BlankTypes DEF Init, Watched
<1>5. DrainSound /\ StartupSound
  BY DEF Init, DrainSound, StartupSound, Held
<1> QED BY <1>1, <1>2, <1>3, <1>4, <1>5 DEF TimerInv

(* Facts about the two lists that every case uses. *)
LEMMA ListFacts ==
  ASSUME TypeOK, ListsAgree
  PROVE  /\ list # <<>> => Head(list) \in Timers /\ timer[Head(list)].active
         /\ queue # <<>> => Head(queue) \in Timers /\ timer[Head(queue)].request # "None"
         /\ \A t \in Timers : timer[t].active => list # <<>>
         /\ \A t \in Timers : timer[t].request # "None" => queue # <<>>
         /\ \A t \in Timers : timer[t].active \/ timer[t].request # "None" => timer[t].alive
         /\ \A k \in DOMAIN list : list[k] \in Timers /\ timer[list[k]].active
<1>1. (list # <<>>) => (Head(list) \in Timers /\ timer[Head(list)].active)
  BY TailContains DEF TypeOK, ListsAgree
<1>2. (queue # <<>>) => (Head(queue) \in Timers /\ timer[Head(queue)].request # "None")
  BY TailContains DEF TypeOK, ListsAgree
<1>3. ASSUME NEW t \in Timers PROVE /\ timer[t].active => list # <<>>
                                    /\ timer[t].request # "None" => queue # <<>>
  BY DEF ListsAgree, Contains
<1>4. ASSUME NEW t \in Timers, timer[t].active \/ timer[t].request # "None"
      PROVE  timer[t].alive
  BY <1>4, BlankTypes DEF ListsAgree
<1>5. ASSUME NEW k \in DOMAIN list PROVE list[k] \in Timers /\ timer[list[k]].active
  <2>1. k \in 1..Len(list) /\ list[k] \in Timers
    BY LenProperties, ElementOfSeq DEF TypeOK
  <2> QED BY <2>1 DEF ListsAgree, Contains
<1> QED BY <1>1, <1>2, <1>3, <1>4, <1>5

LEMMA PendingFacts ==
  ASSUME TypeOK
  PROVE  \A k \in DOMAIN pending : /\ pending[k] \in [before : SUBSET Timers, startup : BOOLEAN]
                                   /\ \A u \in pending[k].before : u \in Timers
<1>1. pending \in Seq([before : SUBSET Timers, startup : BOOLEAN])
  BY DEF TypeOK
<1>2. ASSUME NEW k \in DOMAIN pending
      PROVE  pending[k] \in [before : SUBSET Timers, startup : BOOLEAN]
  BY <1>1, LenProperties, ElementOfSeq
<1> QED BY <1>2

(* Steps that touch neither a record nor a list. *)
LEMMA RecordsFrame ==
  ASSUME TimerInv, UNCHANGED <<timer, list, queue>>, TypeOK', DrainSound', StartupSound'
  PROVE  TimerInv'
<1>1. ListsAgree'
  BY DEF TimerInv, ListsAgree
<1>2. Sorted(timer, list)' /\ Watched'
  BY DEF TimerInv, Sorted, Watched
<1> QED BY <1>1, <1>2 DEF TimerInv

(* A command writes neither the interval nor the elapsed time.             *)
LEMMA CommandKeeps ==
  ASSUME TimerInv, NEW t \in Timers, NEW op, NEW r \in TimerRecords, Command(t, op, r),
         r.alive, r.active = timer[t].active, r.interval = timer[t].interval,
         r.elapsed = timer[t].elapsed, r.request # "None"
  PROVE  TimerInv'
<1>1. /\ timer' = [timer EXCEPT ![t] = r] /\ queue' = Append(Unlink(queue, t), t)
      /\ bits' = bits \union {"Timer"}
      /\ UNCHANGED <<list, flags, pending, tick, pc>> /\ pc \in UserPcs
  BY DEF Command, MayCall
<1>2. /\ timer \in [Timers -> TimerRecords] /\ timer' \in [Timers -> TimerRecords]
      /\ timer'[t] = r /\ \A u \in Timers : u # t => timer'[u] = timer[u]
  BY <1>1 DEF TimerInv, TypeOK
<1>3. /\ queue' \in Seq(Timers) /\ Distinct(queue') /\ queue' # <<>>
      /\ \A u : Contains(queue', u) <=> (Contains(queue, u) \/ u = t)
  <2>1. queue \in Seq(Timers) /\ Distinct(queue)
    BY DEF TimerInv, TypeOK, ListsAgree
  <2> DEFINE q == Unlink(queue, t)
  <2>2. q \in Seq(Timers) /\ Distinct(q) /\ \A u : Contains(q, u) <=> (Contains(queue, u) /\ u # t)
    BY <2>1, UnlinkContains
  <2> HIDE DEF q
  <2>3. /\ Append(q, t) \in Seq(Timers) /\ Append(q, t) # <<>> /\ Distinct(Append(q, t))
        /\ \A u : Contains(Append(q, t), u) <=> (Contains(q, u) \/ u = t)
    BY <2>2, AppendContains
  <2>4. queue' = Append(q, t)
    BY <1>1 DEF q
  <2> QED BY <2>2, <2>3, <2>4
<1>4. TypeOK'
  BY <1>1, <1>2, <1>3 DEF TimerInv, TypeOK, Flags
<1>5. ListsAgree'
  BY <1>1, <1>2, <1>3 DEF TimerInv, ListsAgree
<1>6. Sorted(timer, list)'
  <2>1. \A k \in DOMAIN list : /\ timer'[list[k]].interval = timer[list[k]].interval
                               /\ timer'[list[k]].elapsed = timer[list[k]].elapsed
    BY <1>2, ListFacts DEF TimerInv
  <2>2. list \in Seq(Timers) /\ Sorted(timer, list)
    BY DEF TimerInv, TypeOK
  <2>3. Sorted(timer', list)
    BY <1>2, <2>1, <2>2, SortedFrame
  <2> QED BY <1>1, <2>3
<1>7. Watched'
  BY <1>2 DEF TimerInv, Watched
<1>8. DrainSound'
  BY <1>1 DEF DrainSound, UserPcs
<1>9. StartupSound'
  <2>1. Held' <=> Held
    BY <1>1 DEF Held
  <2>2. \A k \in DOMAIN pending : \A u \in pending[k].before : u \in Timers
    BY PendingFacts DEF TimerInv
  <2>3. \A k \in DOMAIN pending : \A u \in pending[k].before : timer'[u].request # "None"
    BY <1>2, <2>2 DEF TimerInv, StartupSound
  <2> QED BY <1>1, <2>1, <2>3 DEF TimerInv, StartupSound
<1> QED BY <1>4, <1>5, <1>6, <1>7, <1>8, <1>9 DEF TimerInv

LEMMA CommandsKeep ==
  ASSUME TimerInv, NEW t \in Timers,
         \/ \E i \in Intervals : TimerStart(t, i)
         \/ TimerRestart(t) \/ TimerStop(t) \/ TimerFree(t)
  PROVE  TimerInv'
<1>1. timer[t] \in TimerRecords
  BY DEF TimerInv, TypeOK
<1>2. CASE \E i \in Intervals : TimerStart(t, i)
  <2>1. PICK i \in Intervals : TimerStart(t, i)
    BY <1>2
  <2> DEFINE r == [timer[t] EXCEPT !.next = i, !.request = "Start"]
  <2>2. /\ r \in TimerRecords /\ r.alive = timer[t].alive /\ r.active = timer[t].active
        /\ r.interval = timer[t].interval /\ r.elapsed = timer[t].elapsed
        /\ r.request = "Start"
    BY <1>1 DEF TimerRecords, Requests
  <2>3. Command(t, "start", r)
    BY <2>1, Zenon DEF TimerStart
  <2> HIDE DEF r
  <2>4. r.alive
    BY <2>2, <2>3 DEF Command
  <2> QED BY <2>2, <2>3, <2>4, CommandKeeps
<1>3. CASE TimerRestart(t)
  <2> DEFINE r == [timer[t] EXCEPT !.next = timer[t].interval, !.request = "Start"]
  <2>2. /\ r \in TimerRecords /\ r.alive = timer[t].alive /\ r.active = timer[t].active
        /\ r.interval = timer[t].interval /\ r.elapsed = timer[t].elapsed
        /\ r.request = "Start"
    BY <1>1 DEF TimerRecords, Requests
  <2>3. Command(t, "restart", r)
    BY <1>3 DEF TimerRestart
  <2> HIDE DEF r
  <2>4. r.alive
    BY <2>2, <2>3 DEF Command
  <2> QED BY <2>2, <2>3, <2>4, CommandKeeps
<1>4. ASSUME NEW q \in {"Stop", "Free"}, NEW op,
             Command(t, op, [timer[t] EXCEPT !.request = q])
      PROVE  TimerInv'
  <2> DEFINE r == [timer[t] EXCEPT !.request = q]
  <2>2. /\ r \in TimerRecords /\ r.alive = timer[t].alive /\ r.active = timer[t].active
        /\ r.interval = timer[t].interval /\ r.elapsed = timer[t].elapsed
        /\ r.request # "None"
    BY <1>1 DEF TimerRecords, Requests
  <2>3. Command(t, op, r)
    BY <1>4
  <2> HIDE DEF r
  <2>4. r.alive
    BY <2>2, <2>3 DEF Command
  <2> QED BY <2>2, <2>3, <2>4, CommandKeeps
<1> QED BY <1>2, <1>3, <1>4 DEF TimerStop, TimerFree

LEMMA AllocKeeps ==
  ASSUME TimerInv, NEW t \in Timers, NEW p \in BOOLEAN, TimerAlloc(t, p)
  PROVE  TimerInv'
<1>1. /\ timer[t] = Gone /\ timer' = [timer EXCEPT ![t] = Blank(p)]
      /\ UNCHANGED <<list, queue, bits, flags, pending, tick, pc>> /\ pc \in UserPcs
  BY DEF TimerAlloc, MayCall, TimerInv, ListsAgree
<1>2. /\ timer \in [Timers -> TimerRecords] /\ timer' \in [Timers -> TimerRecords]
      /\ timer'[t] = Blank(p) /\ \A u \in Timers : u # t => timer'[u] = timer[u]
  BY <1>1, BlankTypes DEF TimerInv, TypeOK
<1>3. TypeOK'
  BY <1>1, <1>2 DEF TimerInv, TypeOK
<1>4. ListsAgree'
  BY <1>1, <1>2, BlankTypes DEF TimerInv, ListsAgree
<1>5. Sorted(timer, list)'
  <2>1. \A k \in DOMAIN list : list[k] \in Timers /\ list[k] # t
    BY <1>1, BlankTypes, ListFacts DEF TimerInv
  <2> QED BY <1>1, <1>2, <2>1 DEF TimerInv, Sorted
<1>6. Watched'
  BY <1>2, BlankTypes DEF TimerInv, Watched
<1>7. DrainSound'
  BY <1>1 DEF DrainSound, UserPcs
<1>8. StartupSound'
  <2>1. Held' <=> Held
    BY <1>1 DEF Held
  <2>2. \A k \in DOMAIN pending : \A u \in pending[k].before : u \in Timers
    BY PendingFacts DEF TimerInv
  <2>3. \A k \in DOMAIN pending : \A u \in pending[k].before : timer'[u].request # "None"
    BY <1>1, <1>2, <2>2, BlankTypes DEF TimerInv, StartupSound
  <2> QED BY <1>1, <2>1, <2>3 DEF TimerInv, StartupSound
<1> QED BY <1>3, <1>4, <1>5, <1>6, <1>7, <1>8 DEF TimerInv

(* Steps that change only what the loop is doing. *)
Pcs == UserPcs \union {"wait", "event", "commands", "pending", "custom",
                       "expired", "draining", "freed", "fault"}

(* The loop will execute the commands before it runs a deferred function.  *)
Known(p, b, f) ==
  \/ p \in {"idle", "wait"} /\ "Timer" \in b
  \/ p \in {"event", "event_cb", "commands"} /\ "Timer" \in f
  \/ p \in {"stopped", "draining", "freed"}

LEMMA ControlFrame ==
  ASSUME TimerInv, UNCHANGED <<timer, list, queue, pending>>,
         bits' \subseteq Flags, flags' \subseteq Flags,
         tick' \in [interval : TickPeriods \union {0}, elapsed : Nat],
         pc' \in Pcs \ {"fault"},
         pc' = "draining" => pc = "draining",
         (pc' = "idle") => (pc = "idle" /\ bits \subseteq bits'),
         (pc' = "pending_cb") => pending # <<>>,
         Held => Known(pc', bits', flags')
  PROVE  TimerInv'
<1>1. TypeOK'
  BY DEF TimerInv, TypeOK, Pcs
<1>2. DrainSound'
  BY DEF TimerInv, DrainSound
<1>3. Held' <=> Held
  BY DEF Held
<1>4. StartupSound'
  BY <1>3 DEF TimerInv, StartupSound, Known
<1> QED BY <1>1, <1>2, <1>4, RecordsFrame

(* What is known of a deferred function in the current state. *)
LEMMA HeldFacts ==
  ASSUME TimerInv
  PROVE  /\ bits \subseteq Flags /\ flags \subseteq Flags /\ pc \in Pcs \ {"fault"}
         /\ tick \in [interval : TickPeriods \union {0}, elapsed : Nat]
         /\ tick.interval \in Nat /\ tick.elapsed \in Nat
         /\ (pc = "pending_cb") => pending # <<>>
         /\ Held => (Known(pc, bits, flags) /\ queue # <<>>)
<1>1. Held => queue # <<>>
  BY ListFacts, PendingFacts DEF Held, TimerInv, StartupSound
<1>2. tick \in [interval : TickPeriods \union {0}, elapsed : Nat]
  BY DEF TimerInv, TypeOK
<1>3. tick.interval \in Nat /\ tick.elapsed \in Nat
  <2>1. tick.interval \in TickPeriods \union {0} /\ tick.elapsed \in Nat
    BY <1>2
  <2>2. TickPeriods \subseteq Nat
    BY ConstantsAssumption DEF ConstantsAssumption
  <2>3. \A i \in TickPeriods \union {0} : i \in Nat
    BY <2>2
  <2> QED BY <2>1, <2>3
<1>4. pc \in Pcs \ {"fault"}
  BY DEF TimerInv, TypeOK, Pcs, DrainSound
<1> QED BY <1>1, <1>2, <1>3, <1>4 DEF TimerInv, TypeOK, StartupSound, Known

LEMMA ControlKeeps ==
  ASSUME TimerInv,
         \/ \E i \in TickPeriods : TickSet(i)
         \/ \E f \in Signals : Signal(f)
         \/ Run \/ Wake \/ Timeout \/ ProcessEvent \/ CommandsDone
         \/ ProcessPending \/ ProcessCustom \/ ProcessTick \/ CallbackReturn
  PROVE  TimerInv'
<1> USE HeldFacts
<1>1. ASSUME NEW i \in TickPeriods, TickSet(i) PROVE TimerInv'
  <2>1. tick' \in [interval : TickPeriods \union {0}, elapsed : Nat]
    BY <1>1 DEF TickSet
  <2>2. pc \in UserPcs /\ UNCHANGED <<timer, list, queue, bits, flags, pending, pc>>
    BY <1>1 DEF TickSet, MayCall
  <2> QED BY <2>1, <2>2, ControlFrame
<1>2. ASSUME NEW f \in Signals, Signal(f) PROVE TimerInv'
  <2>1. f \in Flags
    BY ConstantsAssumption DEF ConstantsAssumption, Flags
  <2>2. bits' = bits \union {f} /\ UNCHANGED <<timer, list, queue, flags, pending, tick, pc>>
    BY <1>2 DEF Signal
  <2>3. Known(pc, bits, flags) => Known(pc', bits', flags')
    BY <2>2 DEF Known
  <2> QED BY <2>1, <2>2, <2>3, ControlFrame
<1>3. CASE Run
  <2>1. /\ pc = "idle" /\ pc' = "wait" /\ tick' = [tick EXCEPT !.elapsed = 0]
        /\ UNCHANGED <<timer, list, queue, bits, flags, pending>>
    BY <1>3 DEF Run
  <2>2. tick' \in [interval : TickPeriods \union {0}, elapsed : Nat]
    BY <2>1
  <2>3. Known(pc, bits, flags) => Known(pc', bits', flags')
    BY <2>1 DEF Known
  <2>4. pc' \in Pcs \ {"fault"}
    BY <2>1 DEF Pcs
  <2> QED BY <2>1, <2>2, <2>3, <2>4, ControlFrame
<1>4. CASE Wake
  <2>1. /\ pc = "wait" /\ pc' \in {"stopped", "event"} /\ bits' = {}
        /\ (pc' = "event") => flags' = bits
        /\ (pc' = "stopped") => flags' = {}
        /\ UNCHANGED <<timer, list, queue, pending, tick>>
    BY <1>4 DEF Wake
  <2>2. Known(pc, bits, flags) => Known(pc', bits', flags')
    BY <2>1 DEF Known
  <2>3. pc' \in Pcs \ {"fault"}
    BY <2>1 DEF Pcs, UserPcs
  <2> QED BY <2>1, <2>2, <2>3, ControlFrame
<1>5. CASE Timeout
  <2>1. /\ pc = "wait" /\ pc' = "expired" /\ bits = {}
        /\ UNCHANGED <<timer, list, queue, bits, flags, pending, tick>>
    BY <1>5 DEF Timeout, Goto
  <2>2. ~Known(pc, bits, flags)
    BY <2>1 DEF Known
  <2>3. pc' \in Pcs \ {"fault"}
    BY <2>1 DEF Pcs
  <2> QED BY <2>1, <2>2, <2>3, ControlFrame
<1>6. CASE ProcessEvent
  <2>1. /\ pc = "event" /\ pc' \in {"event_cb", "commands"}
        /\ UNCHANGED <<timer, list, queue, bits, flags, pending, tick>>
    BY <1>6 DEF ProcessEvent, Goto
  <2>2. Known(pc, bits, flags) => Known(pc', bits', flags')
    BY <2>1 DEF Known
  <2>3. pc' \in Pcs \ {"fault"}
    BY <2>1 DEF Pcs, UserPcs
  <2> QED BY <2>1, <2>2, <2>3, ControlFrame
<1>7. CASE CommandsDone
  <2>1. /\ pc = "commands" /\ pc' = "pending" /\ ("Timer" \notin flags \/ queue = <<>>)
        /\ UNCHANGED <<timer, list, queue, bits, flags, pending, tick>>
    BY <1>7 DEF CommandsDone, Goto
  <2>2. ~Held
    BY <2>1 DEF Known
  <2>3. pc' \in Pcs \ {"fault"}
    BY <2>1 DEF Pcs
  <2> QED BY <2>1, <2>2, <2>3, ControlFrame
<1>8. CASE ProcessPending \/ ProcessCustom
  <2>1. /\ pc \in {"pending", "custom"} /\ pc' \in {"pending_cb", "custom", "custom_cb", "expired"}
        /\ flags' \in {flags, {}} /\ ((pc' = "pending_cb") => pending # <<>>)
        /\ UNCHANGED <<timer, list, queue, bits, pending, tick>>
    BY <1>8 DEF ProcessPending, ProcessCustom, Goto
  <2>2. ~Known(pc, bits, flags)
    BY <2>1 DEF Known
  <2>3. pc' \in Pcs \ {"fault"}
    BY <2>1 DEF Pcs, UserPcs
  <2> QED BY <2>1, <2>2, <2>3, ControlFrame
<1>9. CASE ProcessTick
  <2>1. /\ pc = "expired" /\ pc' \in {"wait", "tick_cb"}
        /\ UNCHANGED <<timer, list, queue, bits, flags, pending>>
    BY <1>9 DEF ProcessTick
  <2>2. tick' \in [interval : TickPeriods \union {0}, elapsed : Nat]
    <3>1. CASE tick.interval # 0 /\ Expired(tick)
      <4>1. tick' = [tick EXCEPT !.elapsed = @ - tick.interval]
        BY <1>9, <3>1 DEF ProcessTick
      <4>2. tick.elapsed - tick.interval \in Nat
        BY <3>1 DEF Expired
      <4> QED BY <4>1, <4>2
    <3>2. CASE ~(tick.interval # 0 /\ Expired(tick))
      BY <1>9, <3>2 DEF ProcessTick
    <3> QED BY <3>1, <3>2
  <2>3. ~Known(pc, bits, flags)
    BY <2>1 DEF Known
  <2>4. pc' \in Pcs \ {"fault"}
    BY <2>1 DEF Pcs, UserPcs
  <2> QED BY <2>1, <2>2, <2>3, <2>4, ControlFrame
<1>10. CASE CallbackReturn
  <2>1. /\ \/ pc = "event_cb" /\ pc' = "commands"
           \/ pc = "custom_cb" /\ pc' = "expired"
           \/ pc \in {"timer_cb", "tick_cb"} /\ pc' = "wait"
        /\ UNCHANGED <<timer, list, queue, bits, flags, pending, tick>>
    BY <1>10 DEF CallbackReturn, Goto
  <2>2. Known(pc, bits, flags) => Known(pc', bits', flags')
    BY <2>1 DEF Known
  <2>3. pc' \in Pcs \ {"fault"}
    BY <2>1 DEF Pcs
  <2> QED BY <2>1, <2>2, <2>3, ControlFrame
<1> QED BY <1>1, <1>2, <1>3, <1>4, <1>5, <1>6, <1>7, <1>8, <1>9, <1>10

(* furi_event_loop_free starts only when every timer is to be freed.       *)
LEMMA FreeKeeps == ASSUME TimerInv, Free PROVE TimerInv'
<1>1. /\ pc' = "draining" /\ UNCHANGED <<timer, list, queue, bits, flags, pending, tick>>
      /\ \A t \in Timers : timer[t].alive => timer[t].request = "Free"
  BY DEF Free, Goto
<1>2. TypeOK'
  BY <1>1 DEF TimerInv, TypeOK
<1>3. DrainSound'
  BY <1>1 DEF DrainSound
<1>4. StartupSound'
  BY <1>1 DEF TimerInv, StartupSound
<1> QED BY <1>1, <1>2, <1>3, <1>4, RecordsFrame

(* ... and finds no timer on its list in the end.                          *)
LEMMA DrainedKeeps == ASSUME TimerInv, Drained PROVE TimerInv'
<1>1. /\ pc = "draining" /\ queue = <<>> /\ pending' = <<>> /\ bits' = {}
      /\ pc' = IF list = <<>> THEN "freed" ELSE "fault"
      /\ UNCHANGED <<timer, list, queue, flags, tick>>
  BY DEF Drained
<1>2. list = <<>>
  <2>1. \A t \in Timers : ~timer[t].active
    BY <1>1, ListFacts DEF TimerInv, DrainSound
  <2> QED BY <2>1, ListFacts DEF TimerInv
<1>3. TypeOK'
  BY <1>1, <1>2 DEF TimerInv, TypeOK
<1>4. DrainSound'
  BY <1>1, <1>2 DEF DrainSound
<1>5. StartupSound'
  BY <1>1, <1>2 DEF StartupSound, Held
<1> QED BY <1>1, <1>3, <1>4, <1>5, RecordsFrame

(* furi_event_loop_pend_callback: the function is known to the loop, and   *)
(* so are the commands before it.                                          *)
LEMMA PendKeeps == ASSUME TimerInv, PendCallback PROVE TimerInv'
<1> DEFINE e == [before  |-> {t \in Timers : timer[t].request # "None"},
                 startup |-> pc = "idle"]
<1>1. /\ pending' = Append(pending, e) /\ bits' = bits \union {"Pending"} /\ pc \in UserPcs
      /\ UNCHANGED <<timer, list, queue, flags, tick, pc>>
  BY DEF PendCallback, MayCall
<1>2. /\ pending \in Seq([before : SUBSET Timers, startup : BOOLEAN])
      /\ e \in [before : SUBSET Timers, startup : BOOLEAN]
  BY DEF TimerInv, TypeOK
<1>3. /\ \A t \in e.before : timer[t].request # "None"
      /\ (e.startup /\ e.before # {}) => (pc = "idle" /\ queue # <<>>)
  BY ListFacts DEF TimerInv
<1> HIDE DEF e
<1>4. /\ pending' \in Seq([before : SUBSET Timers, startup : BOOLEAN])
      /\ \A k \in DOMAIN pending' :
            (k \in DOMAIN pending /\ pending'[k] = pending[k]) \/ pending'[k] = e
  <2>1. /\ Append(pending, e) \in Seq([before : SUBSET Timers, startup : BOOLEAN])
        /\ Len(Append(pending, e)) = Len(pending) + 1 /\ Len(pending) \in Nat
        /\ DOMAIN pending = 1..Len(pending)
        /\ DOMAIN Append(pending, e) = 1..(Len(pending) + 1)
        /\ \A i \in 1..Len(pending) : Append(pending, e)[i] = pending[i]
        /\ Append(pending, e)[Len(pending) + 1] = e
    BY <1>2, AppendProperties, LenProperties
  <2> QED BY <1>1, <2>1
<1>5. TypeOK'
  BY <1>1, <1>4 DEF TimerInv, TypeOK, Flags
<1>6. DrainSound'
  BY <1>1 DEF DrainSound, UserPcs
<1>7. StartupSound'
  <2>1. Held' => (Held \/ (pc = "idle" /\ queue # <<>>))
    BY <1>3, <1>4 DEF Held
  <2>2. Known(pc, bits, flags) => Known(pc', bits', flags')
    BY <1>1 DEF Known
  <2>3. (pc = "idle" /\ queue # <<>>) => "Timer" \in bits'
    BY <1>1 DEF TimerInv, StartupSound
  <2>4. Held' => Known(pc', bits', flags')
    BY <1>1, <2>1, <2>2, <2>3, HeldFacts DEF Known
  <2>5. (\A k \in DOMAIN pending : \A t \in pending[k].before : timer[t].request # "None")'
    BY <1>1, <1>3, <1>4 DEF TimerInv, StartupSound
  <2> QED BY <1>1, <2>3, <2>4, <2>5 DEF StartupSound, Known
<1> QED BY <1>1, <1>5, <1>6, <1>7, RecordsFrame

LEMMA ReturnKeeps == ASSUME TimerInv, PendingReturn PROVE TimerInv'
<1>1. /\ pc = "pending_cb" /\ pc' = "pending" /\ pending' = Tail(pending)
      /\ UNCHANGED <<timer, list, queue, bits, flags, tick>>
  BY DEF PendingReturn
<1>2. ~Held /\ pending # <<>>
  BY <1>1, HeldFacts DEF Known
<1>3. /\ pending' \in Seq([before : SUBSET Timers, startup : BOOLEAN])
      /\ \A k \in DOMAIN pending' : k + 1 \in DOMAIN pending /\ pending'[k] = pending[k + 1]
  <2>1. pending \in Seq([before : SUBSET Timers, startup : BOOLEAN])
    BY DEF TimerInv, TypeOK
  <2>2. /\ Tail(pending) \in Seq([before : SUBSET Timers, startup : BOOLEAN])
        /\ Len(Tail(pending)) = Len(pending) - 1 /\ Len(pending) \in Nat \ {0}
        /\ DOMAIN pending = 1..Len(pending)
        /\ DOMAIN Tail(pending) = 1..Len(Tail(pending))
        /\ \A i \in 1..Len(Tail(pending)) : Tail(pending)[i] = pending[i + 1]
    BY <1>2, <2>1, HeadTailProperties, LenProperties, EmptySeq
  <2> QED BY <1>1, <2>2
<1>4. TypeOK'
  BY <1>1, <1>3 DEF TimerInv, TypeOK
<1>5. DrainSound'
  BY <1>1 DEF DrainSound
<1>6. StartupSound'
  <2>1. ~Held'
    BY <1>2, <1>3 DEF Held
  <2>2. (\A k \in DOMAIN pending : \A t \in pending[k].before : timer[t].request # "None")'
    BY <1>1, <1>3 DEF TimerInv, StartupSound
  <2> QED BY <1>1, <2>1, <2>2 DEF StartupSound
<1> QED BY <1>1, <1>4, <1>5, <1>6, RecordsFrame

(***************************************************************************)
(* Steps that move a timer on the list.                                    *)
(***************************************************************************)
(* A timer leaves the list, and comes back with its new contents if it is  *)
(* active.                                                                 *)
LEMMA Relisted ==
  ASSUME TimerInv, NEW t \in Timers, NEW r \in TimerRecords,
         NEW rest \in Seq(Timers), Distinct(rest), Sorted(timer, rest),
         \A i : Contains(rest, i) <=> (Contains(list, i) /\ i # t),
         r.active => Fresh(r),
         timer' = [timer EXCEPT ![t] = r],
         r.active => list' = Schedule(rest, t, r),
         ~r.active => list' = rest
  PROVE  /\ timer' \in [Timers -> TimerRecords]
         /\ timer'[t] = r /\ \A u \in Timers : u # t => timer'[u] = timer[u]
         /\ list' \in Seq(Timers) /\ Distinct(list') /\ Sorted(timer, list)'
         /\ \A u \in Timers : Contains(list', u) <=> timer'[u].active
<1>1. timer \in [Timers -> TimerRecords] /\ \A u \in Timers : Contains(list, u) <=> timer[u].active
  BY DEF TimerInv, TypeOK, ListsAgree
<1>2. /\ timer' \in [Timers -> TimerRecords]
      /\ timer'[t] = r /\ \A u \in Timers : u # t => timer'[u] = timer[u]
  BY <1>1
<1>3. CASE r.active
  <2>1. Fresh(r) /\ ~Contains(rest, t)
    BY <1>3
  <2>2. /\ Schedule(rest, t, r) \in Seq(Timers)
        /\ Distinct(Schedule(rest, t, r))
        /\ \A i : Contains(Schedule(rest, t, r), i) <=> (Contains(rest, i) \/ i = t)
        /\ Sorted([timer EXCEPT ![t] = r], Schedule(rest, t, r))
    BY <1>1, <2>1, ScheduleSound, Zenon
  <2>3. list' = Schedule(rest, t, r)
    BY <1>3
  <2>4. Sorted(timer', list')
    BY <2>2, <2>3, Zenon
  <2>5. \A u \in Timers : Contains(list', u) <=> timer'[u].active
    BY <1>1, <1>2, <1>3, <2>2, <2>3
  <2> QED BY <1>2, <2>2, <2>3, <2>4, <2>5, Zenon
<1>4. CASE ~r.active
  <2>1. \A k \in DOMAIN rest : rest[k] \in Timers /\ rest[k] # t
    BY LenProperties, ElementOfSeq DEF Contains
  <2>2. Sorted(timer', rest)
    BY <1>2, <2>1 DEF Sorted
  <2> QED BY <1>1, <1>2, <1>4, <2>2
<1> QED BY <1>2, <1>3, <1>4

(* A timer that has caught up has its next deadline ahead, in the phase    *)
(* it had.                                                                 *)
LEMMA CaughtUpFacts ==
  ASSUME NEW r \in TimerRecords
  PROVE  /\ CaughtUp(r) \in TimerRecords /\ Fresh(CaughtUp(r))
         /\ CaughtUp(r).alive = r.alive /\ CaughtUp(r).active = r.active
         /\ CaughtUp(r).request = r.request /\ CaughtUp(r).interval = r.interval
         /\ r.interval # 0 => /\ CaughtUp(r).elapsed < r.interval
                              /\ CaughtUp(r).elapsed % r.interval = r.elapsed % r.interval
<1> DEFINE n == IF r.interval = 0 THEN 0 ELSE r.elapsed \div r.interval
           e == r.elapsed - r.interval * n
<1>1. /\ r.interval \in Nat /\ r.elapsed \in Nat /\ r.elapsed < Wrap
      /\ r.interval + MaxLate < Wrap /\ Wrap \in Nat /\ MaxLate \in Nat
  BY RecordTypes
<1>2. CASE r.interval = 0
  <2>1. e = r.elapsed
    BY <1>1, <1>2
  <2>2. CaughtUp(r) = [r EXCEPT !.elapsed = e]
    BY DEF CaughtUp
  <2> HIDE DEF e, n
  <2>3. CaughtUp(r) = r
    BY <2>1, <2>2 DEF TimerRecords
  <2> QED BY <1>2, <2>3 DEF Fresh
<1>3. CASE r.interval # 0
  <2>1. e = r.elapsed % r.interval /\ e \in 0 .. r.interval - 1
    BY <1>1, <1>3, Modulo
  <2>2. CaughtUp(r) = [r EXCEPT !.elapsed = e]
    BY DEF CaughtUp
  <2>3. (r.elapsed % r.interval) % r.interval = r.elapsed % r.interval
    BY <1>1, <1>3, ModuloTwice
  <2> HIDE DEF e, n
  <2>4. e \in 0 .. Wrap - 1 /\ e < r.interval
    BY <1>1, <1>3, <2>1
  <2>5. e % r.interval = r.elapsed % r.interval
    BY <2>1, <2>3
  <2> QED BY <1>3, <2>2, <2>4, <2>5 DEF TimerRecords, Fresh
<1> QED BY <1>2, <1>3

(* A timer that is started has its whole interval ahead. *)
LEMMA StartedFields ==
  ASSUME NEW q \in TimerRecords
  PROVE  LET r == [q EXCEPT !.active = TRUE, !.interval = q.next,
                            !.elapsed = 0, !.request = "None"]
         IN  r \in TimerRecords /\ r.active /\ r.alive = q.alive /\ Fresh(r) /\ r.request = "None"
<1> DEFINE a == [q EXCEPT !.active = TRUE]
           b == [a EXCEPT !.interval = q.next]
           c == [b EXCEPT !.elapsed = 0]
           r == [c EXCEPT !.request = "None"]
<1>1. a \in TimerRecords /\ a.active /\ a.alive = q.alive
  BY DEF TimerRecords
<1>2. q.next \in Intervals \union {0} /\ q.next \in Nat
  <2>1. q.next \in Intervals \union {0}
    BY DEF TimerRecords
  <2> QED BY <2>1, ConstantTypes
<1> HIDE DEF a
<1>3. b \in TimerRecords /\ b.active /\ b.alive = q.alive
  BY <1>1, <1>2 DEF TimerRecords
<1>4. 0 \in 0 .. Wrap - 1
  BY ConstantTypes
<1> HIDE DEF b
<1>5. c \in TimerRecords /\ c.active /\ c.alive = q.alive /\ c.elapsed = 0
  BY <1>3, <1>4 DEF TimerRecords
<1> HIDE DEF c
<1>6. /\ r \in TimerRecords /\ r.active /\ r.alive = q.alive /\ r.elapsed = 0
      /\ r.request = "None"
  BY <1>5 DEF TimerRecords, Requests
<1> HIDE DEF r
<1>7. Fresh(r)
  BY <1>6, RecordTypes DEF Fresh
<1>8. r = [q EXCEPT !.active = TRUE, !.interval = q.next, !.elapsed = 0, !.request = "None"]
  BY DEF r, c, b, a
<1> QED BY <1>6, <1>7, <1>8, Zenon

LEMMA FunctionIsSequence ==
  ASSUME NEW S, NEW n \in Nat, NEW f \in [1..n -> S]
  PROVE  f \in Seq(S)
OBVIOUS

(* One command is executed: the timer's new contents are r.                *)
LEMMA Executed ==
  ASSUME TimerInv, ProcessCommand, NEW r \in TimerRecords,
         timer' = [timer EXCEPT ![Head(queue)] = r],
         r.request = "None", r.active => Fresh(r), r.alive \/ r = Gone,
         pc = "draining" => ~r.alive,
         NEW rest,
         rest = IF timer[Head(queue)].active THEN Unlink(list, Head(queue)) ELSE list,
         r.active => list' = Schedule(rest, Head(queue), r),
         ~r.active => list' = rest
  PROVE  TimerInv'
<1>1. PICK t \in Timers : t = Head(queue)
  BY ListFacts DEF ProcessCommand, TimerInv
<1>2. /\ queue # <<>> /\ queue' = Tail(queue)
      /\ pending' = [k \in 1..Len(pending) |-> [pending[k] EXCEPT !.before = @ \ {t}]]
      /\ UNCHANGED <<bits, flags, tick, pc>>
      /\ pc \in {"commands", "draining"}
  BY <1>1 DEF ProcessCommand
<1>3. /\ rest \in Seq(Timers) /\ Distinct(rest) /\ Sorted(timer, rest)
      /\ \A i : Contains(rest, i) <=> (Contains(list, i) /\ i # t)
  <2>1. /\ list \in Seq(Timers) /\ Distinct(list) /\ Sorted(timer, list)
        /\ timer \in [Timers -> TimerRecords] /\ (Contains(list, t) <=> timer[t].active)
    BY DEF TimerInv, TypeOK, ListsAgree
  <2>2. CASE timer[t].active
    <3>1. rest = Unlink(list, t)
      BY <1>1, <2>2
    <3>2. Sorted(timer, Unlink(list, t))
      BY <2>1, UnlinkSorted
    <3>3. /\ Unlink(list, t) \in Seq(Timers) /\ Distinct(Unlink(list, t))
          /\ \A i : Contains(Unlink(list, t), i) <=> (Contains(list, i) /\ i # t)
      BY <2>1, UnlinkContains
    <3> QED BY <3>1, <3>2, <3>3
  <2>3. CASE ~timer[t].active
    BY <1>1, <2>1, <2>3
  <2> QED BY <2>2, <2>3
<1>4. /\ timer' \in [Timers -> TimerRecords]
      /\ timer'[t] = r /\ \A u \in Timers : u # t => timer'[u] = timer[u]
      /\ list' \in Seq(Timers) /\ Distinct(list') /\ Sorted(timer, list)'
      /\ \A u \in Timers : Contains(list', u) <=> timer'[u].active
  BY <1>1, <1>3, Relisted, ZenonT(60)
<1>5. /\ queue' \in Seq(Timers) /\ Distinct(queue')
      /\ \A i : Contains(queue', i) <=> (Contains(queue, i) /\ i # t)
  BY <1>1, <1>2, TailContains DEF TimerInv, TypeOK, ListsAgree
<1>6. /\ pending' \in Seq([before : SUBSET Timers, startup : BOOLEAN])
      /\ DOMAIN pending' = DOMAIN pending
      /\ \A k \in DOMAIN pending : /\ pending'[k].startup = pending[k].startup
                                   /\ pending'[k].before = pending[k].before \ {t}
  <2>1. DOMAIN pending = 1..Len(pending) /\ Len(pending) \in Nat
    BY LenProperties DEF TimerInv, TypeOK
  <2>2. \A k \in 1..Len(pending) : pending[k] \in [before : SUBSET Timers, startup : BOOLEAN]
    BY <2>1, PendingFacts DEF TimerInv
  <2>3. \A k \in 1..Len(pending) :
          /\ [pending[k] EXCEPT !.before = @ \ {t}] \in [before : SUBSET Timers, startup : BOOLEAN]
          /\ [pending[k] EXCEPT !.before = @ \ {t}].startup = pending[k].startup
          /\ [pending[k] EXCEPT !.before = @ \ {t}].before = pending[k].before \ {t}
    BY <2>2
  <2>4. /\ pending' \in [1..Len(pending) -> [before : SUBSET Timers, startup : BOOLEAN]]
        /\ \A k \in 1..Len(pending) : pending'[k] = [pending[k] EXCEPT !.before = @ \ {t}]
    BY <1>2, <2>3
  <2>5. pending' \in Seq([before : SUBSET Timers, startup : BOOLEAN])
    BY <2>1, <2>4, FunctionIsSequence, Zenon
  <2>6. DOMAIN pending' = DOMAIN pending
    BY <2>1, <2>4
  <2> QED BY <2>1, <2>3, <2>4, <2>5, <2>6
<1>7. TypeOK'
  BY <1>2, <1>4, <1>5, <1>6 DEF TimerInv, TypeOK
<1>8. ListsAgree'
  BY <1>4, <1>5 DEF TimerInv, ListsAgree
<1>9. Watched'
  <2>1. (r.active /\ r.interval # 0) => r.elapsed <= r.interval + MaxLate
    BY RecordTypes DEF Fresh
  <2> QED BY <1>4, <2>1 DEF TimerInv, Watched
<1>10. DrainSound'
  BY <1>2, <1>4 DEF TimerInv, DrainSound
<1>11. StartupSound'
  <2>1. Held' => Held
    BY <1>6 DEF Held
  <2>2. (\A k \in DOMAIN pending : \A u \in pending[k].before : timer[u].request # "None")'
    BY <1>4, <1>6, PendingFacts DEF TimerInv, StartupSound
  <2> QED BY <1>2, <2>1, <2>2 DEF TimerInv, StartupSound
<1> QED BY <1>4, <1>7, <1>8, <1>9, <1>10, <1>11 DEF TimerInv

LEMMA ProcessCommandKeeps == ASSUME TimerInv, ProcessCommand PROVE TimerInv'
<1>1. PICK t \in Timers : t = Head(queue) /\ timer[t].request # "None"
  BY ListFacts DEF ProcessCommand, TimerInv
<1>2. timer[t] \in TimerRecords /\ timer[t].alive
  BY <1>1, ListFacts DEF TimerInv, TypeOK
<1> DEFINE rest == IF timer[t].active THEN Unlink(list, t) ELSE list
           started == [timer[t] EXCEPT !.active = TRUE, !.interval = timer[t].next,
                                       !.elapsed = 0, !.request = "None"]
           stopped == [timer[t] EXCEPT !.active = FALSE, !.request = "None"]
<1>3. \/ /\ timer[t].request = "Start"
         /\ timer' = [timer EXCEPT ![t] = started]
         /\ list' = Schedule(rest, t, started)
      \/ /\ timer[t].request = "Stop"
         /\ timer' = [timer EXCEPT ![t] = stopped]
         /\ list' = rest
      \/ /\ timer[t].request = "Free"
         /\ timer' = [timer EXCEPT ![t] = Gone]
         /\ list' = rest
  BY <1>1 DEF ProcessCommand
<1>4. /\ started \in TimerRecords /\ started.active /\ started.alive /\ Fresh(started)
      /\ started.request = "None"
  BY <1>2, StartedFields, Zenon
<1>5. /\ stopped \in TimerRecords /\ ~stopped.active /\ stopped.alive
      /\ stopped.request = "None"
  BY <1>2 DEF TimerRecords, Requests
<1>6. (pc = "draining") => timer[t].request = "Free"
  BY <1>2 DEF TimerInv, DrainSound
<1> HIDE DEF started, stopped, rest
<1>7. rest = IF timer[Head(queue)].active THEN Unlink(list, Head(queue)) ELSE list
  BY <1>1 DEF rest
<1>8. CASE timer[t].request = "Start"
  BY <1>1, <1>3, <1>4, <1>6, <1>7, <1>8, Executed
<1>9. CASE timer[t].request = "Stop"
  BY <1>1, <1>3, <1>5, <1>6, <1>7, <1>9, Executed
<1>10. CASE timer[t].request = "Free"
  BY <1>1, <1>3, <1>7, <1>10, BlankTypes, Executed
<1> QED BY <1>3, <1>8, <1>9, <1>10

LEMMA FireKeeps == ASSUME TimerInv, Fire PROVE TimerInv'
<1>1. PICK t \in Timers : t = Head(list) /\ timer[t].active
  BY ListFacts DEF Fire, CanFire, TimerInv
<1>2. timer[t] \in TimerRecords /\ timer[t].alive /\ list # <<>>
  BY <1>1, ListFacts DEF TimerInv, TypeOK, Fire, CanFire
<1>3. /\ pc = "expired" /\ pc' = "timer_cb"
      /\ UNCHANGED <<queue, bits, flags, pending, tick>>
  BY DEF Fire
<1>4. \E r \in TimerRecords :
        /\ timer' = [timer EXCEPT ![t] = r]
        /\ r.alive = timer[t].alive /\ r.request = timer[t].request
        /\ r.active => (Fresh(r) /\ list' = Schedule(Tail(list), t, r))
        /\ ~r.active => list' = Tail(list)
  <2>1. CASE timer[t].periodic
    <3>1. timer' = [timer EXCEPT ![t] = CaughtUp(timer[t])]
      BY <1>1, <2>1 DEF Fire
    <3>2. list' = Schedule(Tail(list), t, CaughtUp(timer[t]))
      BY <1>1, <2>1 DEF Fire
    <3>3. /\ CaughtUp(timer[t]) \in TimerRecords /\ Fresh(CaughtUp(timer[t]))
          /\ CaughtUp(timer[t]).alive = timer[t].alive
          /\ CaughtUp(timer[t]).active = timer[t].active
          /\ CaughtUp(timer[t]).request = timer[t].request
      BY <1>2, CaughtUpFacts
    <3> QED BY <1>1, <3>1, <3>2, <3>3, Zenon
  <2>2. CASE ~timer[t].periodic
    <3> DEFINE r == [timer[t] EXCEPT !.active = FALSE]
    <3>1. timer' = [timer EXCEPT ![t].active = FALSE] /\ list' = Tail(list)
      BY <1>1, <2>2 DEF Fire
    <3>2. timer' = [timer EXCEPT ![t] = r]
      BY <3>1
    <3>3. r \in TimerRecords /\ r.alive = timer[t].alive /\ r.request = timer[t].request /\ ~r.active
      BY <1>2 DEF TimerRecords
    <3> HIDE DEF r
    <3> QED BY <3>1, <3>2, <3>3, Zenon
  <2> QED BY <2>1, <2>2
<1>5. PICK r \in TimerRecords :
        /\ timer' = [timer EXCEPT ![t] = r]
        /\ r.alive = timer[t].alive /\ r.request = timer[t].request
        /\ r.active => (Fresh(r) /\ list' = Schedule(Tail(list), t, r))
        /\ ~r.active => list' = Tail(list)
  BY <1>4
<1>6. /\ Tail(list) \in Seq(Timers) /\ Distinct(Tail(list)) /\ Sorted(timer, Tail(list))
      /\ \A i : Contains(Tail(list), i) <=> (Contains(list, i) /\ i # t)
  <2>1. /\ list \in Seq(Timers) /\ Distinct(list) /\ Sorted(timer, list)
        /\ timer \in [Timers -> TimerRecords]
    BY DEF TimerInv, TypeOK, ListsAgree
  <2>2. Sorted(timer, Tail(list))
    BY <1>2, <2>1, TailSorted
  <2>3. /\ Tail(list) \in Seq(Timers) /\ Distinct(Tail(list))
        /\ \A i : Contains(Tail(list), i) <=> (Contains(list, i) /\ i # Head(list))
    BY <1>2, <2>1, TailContains
  <2> QED BY <1>1, <2>2, <2>3
<1>7. /\ timer' \in [Timers -> TimerRecords]
      /\ timer'[t] = r /\ \A u \in Timers : u # t => timer'[u] = timer[u]
      /\ list' \in Seq(Timers) /\ Distinct(list') /\ Sorted(timer, list)'
      /\ \A u \in Timers : Contains(list', u) <=> timer'[u].active
  BY <1>5, <1>6, Relisted
<1>8. TypeOK'
  BY <1>3, <1>7 DEF TimerInv, TypeOK, UserPcs
<1>9. ListsAgree'
  BY <1>2, <1>3, <1>5, <1>7 DEF TimerInv, ListsAgree
<1>10. Watched'
  <2>1. (r.active /\ r.interval # 0) => r.elapsed <= r.interval + MaxLate
    BY <1>5, RecordTypes DEF Fresh
  <2> QED BY <1>7, <2>1 DEF TimerInv, Watched
<1>11. DrainSound'
  BY <1>3 DEF DrainSound
<1>12. StartupSound'
  <2>1. ~Held
    BY <1>3, HeldFacts DEF Known
  <2>2. Held' <=> Held
    BY <1>3 DEF Held
  <2>3. (\A k \in DOMAIN pending : \A u \in pending[k].before : timer[u].request # "None")'
    BY <1>3, <1>5, <1>7, PendingFacts DEF TimerInv, StartupSound
  <2> QED BY <1>3, <2>1, <2>2, <2>3 DEF StartupSound
<1> QED BY <1>7, <1>8, <1>9, <1>10, <1>11, <1>12 DEF TimerInv

LEMMA AdvanceKeeps == ASSUME TimerInv, Advance PROVE TimerInv'
<1>1. /\ timer' = [t \in Timers |-> Older(timer[t])]
      /\ tick' = [tick EXCEPT !.elapsed = IF tick.interval = 0 THEN 0 ELSE @ + 1]
      /\ UNCHANGED <<list, queue, bits, flags, pending, pc>>
      /\ \A t \in Timers : (timer[t].active /\ timer[t].interval # 0) =>
           timer[t].elapsed < timer[t].interval + MaxLate
  BY DEF Advance
<1>2. timer \in [Timers -> TimerRecords]
  BY DEF TimerInv, TypeOK
<1>3. ASSUME NEW t \in Timers
      PROVE  /\ timer'[t] = Older(timer[t]) /\ timer'[t] \in TimerRecords
             /\ timer'[t].alive = timer[t].alive /\ timer'[t].active = timer[t].active
             /\ timer'[t].request = timer[t].request /\ timer'[t].interval = timer[t].interval
             /\ (timer[t].active /\ timer[t].elapsed + 1 < Wrap) =>
                  timer'[t].elapsed = timer[t].elapsed + 1
  <2>1. timer'[t] = Older(timer[t])
    BY <1>1
  <2> QED BY <1>2, <2>1, OlderFields
<1>4. timer' \in [Timers -> TimerRecords]
  BY <1>1, <1>3
<1>5. tick' \in [interval : TickPeriods \union {0}, elapsed : Nat]
  <2>1. tick \in [interval : TickPeriods \union {0}, elapsed : Nat] /\ tick.elapsed + 1 \in Nat
    BY HeldFacts
  <2> QED BY <1>1, <2>1
<1>6. TypeOK'
  BY <1>1, <1>4, <1>5 DEF TimerInv, TypeOK
<1>7. ListsAgree'
  <2>1. ASSUME NEW t \in Timers, ~timer[t].alive PROVE timer'[t] = Gone
    <3>1. timer[t] = Gone
      BY <2>1 DEF TimerInv, ListsAgree
    <3>2. Older(Gone) = Gone
      BY DEF Older, Gone, Blank
    <3> QED BY <1>3, <3>1, <3>2
  <2>2. ASSUME NEW t \in Timers
        PROVE  /\ (Contains(list', t) <=> timer'[t].active)
               /\ (Contains(queue', t) <=> timer'[t].request # "None")
               /\ (~timer'[t].alive => timer'[t] = Gone)
    BY <1>1, <1>3, <2>1 DEF TimerInv, ListsAgree
  <2> QED BY <1>1, <2>2 DEF TimerInv, ListsAgree
<1>8. Sorted(timer, list)'
  <2>1. ASSUME NEW i \in DOMAIN list, NEW j \in DOMAIN list, i < j
        PROVE  NotAfter(Older(timer[list[i]]), Older(timer[list[j]]))
    <3>1. /\ list[i] \in Timers /\ timer[list[i]].active
          /\ list[j] \in Timers /\ timer[list[j]].active
      BY ListFacts DEF TimerInv
    <3>2. NotAfter(timer[list[i]], timer[list[j]])
      BY <2>1 DEF TimerInv, Sorted
    <3>3. timer[list[i]] \in TimerRecords /\ timer[list[j]] \in TimerRecords
      BY <1>2, <3>1
    <3> QED BY <1>1, <3>1, <3>2, <3>3, OlderKeepsOrder
  <2>2. ASSUME NEW i \in DOMAIN list, NEW j \in DOMAIN list, i < j
        PROVE  NotAfter(timer'[list[i]], timer'[list[j]])
    <3>1. list[i] \in Timers /\ list[j] \in Timers
      BY ListFacts DEF TimerInv
    <3> QED BY <1>3, <2>1, <2>2, <3>1
  <2>3. Sorted(timer', list)
    BY <2>2 DEF Sorted
  <2> QED BY <1>1, <2>3
<1>9. Watched'
  <2>1. ASSUME NEW t \in Timers, timer'[t].active, timer'[t].interval # 0
        PROVE  timer'[t].elapsed <= timer'[t].interval + MaxLate
    <3>1. timer[t].elapsed < timer[t].interval + MaxLate
      BY <1>1, <1>3, <2>1
    <3>2. /\ timer[t].interval \in Nat /\ timer[t].elapsed \in Nat
          /\ timer[t].interval + MaxLate < Wrap /\ Wrap \in Nat /\ MaxLate \in Nat
      BY <1>2, RecordTypes
    <3>3. timer'[t].elapsed = timer[t].elapsed + 1 /\ timer'[t].interval = timer[t].interval
      BY <1>3, <2>1, <3>1, <3>2
    <3> QED BY <3>1, <3>2, <3>3
  <2> QED BY <2>1 DEF Watched
<1>10. DrainSound'
  BY <1>1, <1>3 DEF TimerInv, DrainSound
<1>11. StartupSound'
  <2>1. Held' <=> Held
    BY <1>1 DEF Held
  <2>2. (\A k \in DOMAIN pending : \A u \in pending[k].before : timer[u].request # "None")'
    BY <1>1, <1>3, PendingFacts DEF TimerInv, StartupSound
  <2> QED BY <1>1, <2>1, <2>2 DEF TimerInv, StartupSound
<1> QED BY <1>6, <1>7, <1>8, <1>9, <1>10, <1>11 DEF TimerInv

LEMMA InvNext == TimerInv /\ [Next]_vars => TimerInv'
<1> SUFFICES ASSUME TimerInv, [Next]_vars PROVE TimerInv'
  OBVIOUS
<1>1. CASE UserCall
  BY <1>1, CommandsKeep, AllocKeeps, ControlKeeps, PendKeeps DEF UserCall
<1>2. CASE LoopStep
  BY <1>2, ControlKeeps, ProcessCommandKeeps, FireKeeps, DrainedKeeps DEF LoopStep
<1>3. CASE UserReturn
  BY <1>3, ControlKeeps, ReturnKeeps DEF UserReturn
<1>4. CASE Environment
  BY <1>4, ControlKeeps, AdvanceKeeps DEF Environment
<1>5. CASE UNCHANGED vars
  <2>1. UNCHANGED <<timer, list, queue, bits, flags, pending, tick, pc>>
    BY <1>5 DEF vars
  <2>2. TypeOK' /\ DrainSound'
    BY <2>1 DEF TimerInv, TypeOK, DrainSound
  <2>3. StartupSound'
    BY <2>1 DEF TimerInv, StartupSound, Held
  <2> QED BY <2>1, <2>2, <2>3, RecordsFrame
<1> QED BY <1>1, <1>2, <1>3, <1>4, <1>5, ControlKeeps, FreeKeeps DEF Next

LEMMA TimerInvariant == Spec => []TimerInv
<1> QED BY InvInit, InvNext, PTL DEF Spec

(***************************************************************************)
(* The theorems.                                                           *)
(***************************************************************************)
(* No call, command or expiry leaves a freed or inactive timer on the list *)
(* of timers, or an active one beside it; the queue of commands holds each *)
(* timer at most once (event_loop_timer.c).                                *)
THEOREM TimerListsSound == Spec => []ListsSound
<1>1. TimerInv => ListsSound
  BY DEF TimerInv, ListsAgree, DrainSound, ListsSound
<1> QED BY <1>1, TimerInvariant, PTL

(* A function deferred before the loop was started never runs before the   *)
(* timer commands that preceded it (furi_event_loop_run).                  *)
THEOREM StartupOrderKept == Spec => []StartupOrder
<1>1. TimerInv => StartupOrder
  <2> SUFFICES ASSUME TimerInv, pc = "pending_cb", Head(pending).startup
               PROVE  Head(pending).before = {}
    BY DEF StartupOrder
  <2>1. ~Held /\ pending # <<>>
    BY HeldFacts DEF Known
  <2>2. pending \in Seq([before : SUBSET Timers, startup : BOOLEAN])
    BY DEF TimerInv, TypeOK
  <2>3. 1 \in DOMAIN pending /\ Head(pending) = pending[1]
    BY <2>1, <2>2, LenProperties, EmptySeq
  <2> QED BY <2>1, <2>3 DEF Held
<1> QED BY <1>1, TimerInvariant, PTL

(* Only an expiry enters the callback of a timer. *)
LEMMA OnlyFireFires ==
  ASSUME [Next]_vars, pc = "expired", pc' = "timer_cb"
  PROVE  Fire
<1>1. ~UserCall
  BY DEF UserCall, TimerStart, TimerRestart, TimerStop, TimerFree, Command, TimerAlloc,
         TickSet, PendCallback, MayCall, UserPcs
<1>2. ~UserReturn /\ ~Environment /\ ~Run /\ ~Free
  BY DEF UserReturn, CallbackReturn, PendingReturn, Environment, Signal, Advance, Run, Free
<1>3. LoopStep
  BY <1>1, <1>2 DEF Next, vars
<1> QED BY <1>3 DEF LoopStep, Wake, Timeout, ProcessEvent, ProcessCommand, CommandsDone,
                   ProcessPending, ProcessCustom, ProcessTick, Drained, Goto

(* However time passes and whatever the commands were, the timer that      *)
(* fires is active, not about to be freed, and none is due earlier         *)
(* (furi_event_loop_process_expired_timers).                               *)
THEOREM FirstDeadlineFires == Spec => EarliestDeadlineFires
<1> DEFINE A == Fires =>
                  LET r == timer[Head(list)]
                  IN  /\ r.alive /\ r.active /\ r.request # "Free" /\ Expired(r)
                      /\ \A u \in Timers :
                           timer[u].active /\ timer[u].interval # 0 /\ r.interval # 0 =>
                             timer[u].elapsed + r.interval <= r.elapsed + timer[u].interval
<1>1. TimerInv /\ [Next]_vars => A
  <2> SUFFICES ASSUME TimerInv, [Next]_vars, pc = "expired", pc' = "timer_cb" PROVE A
    BY DEF Fires
  <2>1. Fire
    BY OnlyFireFires
  <2>2. PICK t \in Timers : t = Head(list) /\ timer[t].active
    BY <2>1, ListFacts DEF Fire, CanFire, TimerInv
  <2>3. /\ timer[t].alive /\ timer[t].request # "Free" /\ Expired(timer[t])
        /\ list # <<>>
    BY <2>1, <2>2, ListFacts DEF Fire, CanFire, TimerInv
  <2>4. ASSUME NEW u \in Timers, timer[u].active, timer[u].interval # 0, timer[t].interval # 0
        PROVE  timer[u].elapsed + timer[t].interval <= timer[t].elapsed + timer[u].interval
    <3>1. list \in Seq(Timers) /\ Contains(list, u)
      BY <2>4 DEF TimerInv, TypeOK, ListsAgree
    <3>2. PICK k \in 1..Len(list) : list[k] = u
      BY <3>1 DEF Contains
    <3>3. 1 \in DOMAIN list /\ k \in DOMAIN list /\ list[1] = t /\ k \in Nat
      BY <2>2, <2>3, <3>1, <3>2, LenProperties, EmptySeq
    <3>4. CASE k = 1
      <4>1. timer[u].elapsed \in Nat /\ timer[u].interval \in Nat /\ u = t
        BY <3>2, <3>3, <3>4, RecordTypes DEF TimerInv, TypeOK
      <4> QED BY <4>1
    <3>5. CASE k # 1
      <4>1. 1 < k
        BY <3>2, <3>5
      <4> QED BY <2>4, <3>2, <3>3, <4>1 DEF TimerInv, Sorted, NotAfter
    <3> QED BY <3>4, <3>5
  <2> QED BY <2>2, <2>3, <2>4
<1>2. TimerInv /\ [Next]_vars => [A]_vars
  BY <1>1
<1> QED BY <1>2, TimerInvariant, PTL DEF Spec, EarliestDeadlineFires

(* A periodic timer that fires is rescheduled in the phase it had, with    *)
(* all missed periods behind it (furi_event_loop_process_expired_timers).  *)
THEOREM PeriodsAreCaughtUp == Spec => PeriodicCatchesUp
<1> DEFINE A == Fires => LET t == Head(list)
                         IN  timer[t].periodic /\ timer[t].interval # 0 =>
                               /\ timer'[t].elapsed < timer[t].interval
                               /\ timer'[t].elapsed % timer[t].interval
                                    = timer[t].elapsed % timer[t].interval
<1>1. TimerInv /\ [Next]_vars => A
  <2> SUFFICES ASSUME TimerInv, [Next]_vars, pc = "expired", pc' = "timer_cb" PROVE A
    BY DEF Fires
  <2>1. Fire
    BY OnlyFireFires
  <2>2. PICK t \in Timers : t = Head(list)
    BY <2>1, ListFacts DEF Fire, CanFire, TimerInv
  <2>3. timer \in [Timers -> TimerRecords]
    BY DEF TimerInv, TypeOK
  <2>4. ASSUME timer[t].periodic, timer[t].interval # 0
        PROVE  /\ timer'[t].elapsed < timer[t].interval
               /\ timer'[t].elapsed % timer[t].interval = timer[t].elapsed % timer[t].interval
    <3>1. timer' = [timer EXCEPT ![t] = CaughtUp(timer[t])]
      BY <2>1, <2>2, <2>4 DEF Fire
    <3>2. timer'[t] = CaughtUp(timer[t])
      BY <2>3, <3>1
    <3> QED BY <2>3, <2>4, <3>2, CaughtUpFacts
  <2> QED BY <2>2, <2>4
<1>2. TimerInv /\ [Next]_vars => [A]_vars
  BY <1>1
<1> QED BY <1>2, TimerInvariant, PTL DEF Spec, PeriodicCatchesUp
=============================================================================
