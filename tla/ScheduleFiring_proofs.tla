------------------------ MODULE ScheduleFiring_proofs -------------------------
(***************************************************************************)
(* No instant gets two runs, for any number of workers and any crons. The  *)
(* argument: the row of a schedule is ahead of all that passes have        *)
(* planned and of all that has a run (IsAhead), because it only moves on   *)
(* from the slot a pass has read, or to an instant after now; so what the  *)
(* next claim plans is new, and the plans of two passes stay apart         *)
(* (PlansAreApart). A blind write breaks the first half, which is why the  *)
(* properties speak of histories without one. That a pass and the row      *)
(* agree about the cron is lost, further, when an edit tears the row.      *)
(***************************************************************************)
EXTENDS ScheduleFiring, FiniteSetTheorems, SequenceTheorems, NaturalsInduction,
        WellFoundedInduction, TLAPS

ActivePass ==
  [pc : {"found", "fire", "send"}, at : Times, due : Seq(Times), spent : Nat,
   row : [next : Times, cron : Crons, policy : Policies]]

Passes == {NoPass} \union ActivePass

\* The runs a pass has not created yet, as positions in its plan.
Rest(p) == IF p.pc = "fire" THEN 1 .. Len(p.due)
           ELSE IF p.pc = "send" THEN 2 .. Len(p.due) ELSE {}

Row == [next : Nat, cron : Crons, policy : Policies, on : BOOLEAN]

\* What a request wants to store has an instant, one of its cron if it changes
\* either of the two.
EditsFit ==
  /\ edit = [e \in CronEditors |-> edit[e]]
  /\ \A e \in CronEditors :
       /\ edit[e].pc \in {"new", "read", "done"}
       /\ edit[e].pc = "read" =>
            /\ edit[e].seen \in Row /\ edit[e].wants \in Row
            /\ sched.next # 0 /\ edit[e].wants.next # 0
            /\ \E c \in Crons : edit[e].wants.next \in 1 .. CronHorizon + c.period
            /\ Pair(edit[e].wants) # Pair(edit[e].seen) =>
                 Hits(edit[e].wants.cron, edit[e].wants.next)

CronShape ==
  /\ sched \in Row
  /\ sched.next = 0 \/ \E c \in Crons : sched.next \in 1 .. CronHorizon + c.period
  /\ sched.on => sched.next # 0
  /\ tick \in [Tickers -> Passes]
  /\ \A w \in Tickers : /\ Len(tick[w].due) <= MaxCatchUp
                        /\ tick[w].pc \in {"fire", "send"} => tick[w].due # <<>>
  /\ rowLock \in Tickers \union {NoTicker}
  /\ now \in Times
  /\ fired \in [Times -> Nat]
  /\ blind \in BOOLEAN /\ torn \in BOOLEAN
  /\ failed \in 0 .. CronFaults
  /\ EditsFit

PassesAreDue ==
  \A w \in Tickers : tick[w].pc # "idle" =>
    tick[w].row.next <= tick[w].at /\ tick[w].at <= now

\* The row s has moved past what a pass has read, or is the row it has read;
\* and past all that is planned or has a run.
IsAhead(s) ==
  /\ \A w \in Tickers : tick[w].pc # "idle" =>
       /\ tick[w].row.next <= s.next
       /\ ~torn /\ tick[w].row.next = s.next => tick[w].row.cron = s.cron
  /\ \A w \in Tickers : \A i \in Rest(tick[w]) : tick[w].due[i] < s.next
  /\ \A t \in Times : fired[t] > 0 => t < s.next

\* What is planned has no run yet, and no two passes, and no two positions of
\* a plan, share an instant.
PlansAreApart ==
  /\ \A w \in Tickers : \A i \in Rest(tick[w]) :
       tick[w].due[i] <= tick[w].at /\ fired[tick[w].due[i]] = 0
  /\ \A v, w \in Tickers : \A i \in Rest(tick[v]), j \in Rest(tick[w]) :
       tick[v].due[i] = tick[w].due[j] => v = w /\ i = j

FiredIsOver == \A t \in Times : fired[t] <= 1 /\ (fired[t] > 0 => t <= now)

OfTheCron(s) == ~torn /\ s.next # 0 => Hits(s.cron, s.next)

OnceInv == /\ PassesAreDue /\ IsAhead(sched) /\ PlansAreApart /\ FiredIsOver
           /\ OfTheCron(sched)

CronInv == CronShape /\ (~blind => OnceInv)

-----------------------------------------------------------------------------
(***************************************************************************)
(* Numbers: every cron names an instant within a period, and a finite set  *)
(* of numbers can be counted out.                                          *)
(***************************************************************************)

\* The quotient and the remainder of a number.
LEMMA DivMod ==
  ASSUME NEW p \in Nat \ {0}, NEW z \in Nat
  PROVE  z = p * (z \div p) + (z % p) /\ z % p \in 0 .. p - 1 /\ z \div p \in Nat
<1>1. z % p \in 0 .. p - 1
  BY SMT
<1>2. z = p * (z \div p) + (z % p)
  BY SMT
<1>3. z \div p \in Nat
  BY SMT
<1> QED BY <1>1, <1>2, <1>3

LEMMA ModOfMultiple ==
  ASSUME NEW p \in Nat \ {0}, NEW m \in Nat, NEW a \in 0 .. p - 1
  PROVE  (p * m + a) % p = a
<1> DEFINE x == p * m + a
           k == m - (x \div p)
<1>1. x \in Nat
  BY SMT
<1>2. x = p * (x \div p) + (x % p) /\ x % p \in 0 .. p - 1 /\ x \div p \in Nat
  BY <1>1, DivMod
<1>3. p * k = (x % p) - a /\ k \in Int
  BY <1>2
<1>4. k <= 0
  <2> SUFFICES ASSUME k >= 1 PROVE FALSE
    BY <1>3
  <2>1. p * k >= p
    BY <1>3
  <2> QED BY <2>1, <1>2, <1>3
<1>5. k >= 0
  <2> SUFFICES ASSUME k <= 0 - 1 PROVE FALSE
    BY <1>3
  <2>1. p * k <= 0 - p
    BY <1>3
  <2> QED BY <2>1, <1>2, <1>3
<1>6. k = 0
  BY <1>3, <1>4, <1>5
<1>7. p * 0 = 0
  OBVIOUS
<1> QED BY <1>2, <1>3, <1>6, <1>7

\* A set of numbers has a least one.
LEMMA NatLeast ==
  ASSUME NEW T \in SUBSET Nat, T # {}
  PROVE  \E x \in T : \A y \in T : x <= y
<1> DEFINE R == {ss \in Nat \X Nat : ss[1] < ss[2]}
<1>1. IsWellFoundedOn(R, Nat)
  BY NatLessThanWellFounded DEF OpToRel
<1>2. \A x, y \in Nat : <<x, y>> \in R <=> x < y
  OBVIOUS
<1> HIDE DEF R
<1>3. PICK x \in T : \A y \in T : ~ (<<y, x>> \in R)
  BY <1>1, WFMin
<1>4. \A y \in T : x <= y
  <2> SUFFICES ASSUME NEW y \in T PROVE ~ (y < x)
    OBVIOUS
  <2> QED BY <1>2, <1>3
<1> QED BY <1>4

-----------------------------------------------------------------------------
(***************************************************************************)
(* Lemmas about NextRun, Slots, LastN and Plan: what a pass plans are      *)
(* instants of the row and after, up to its clock, each once.              *)
(***************************************************************************)

LEMMA CronNumbers ==
  /\ Grace \in Nat /\ MaxScan \in Nat /\ CronFaults \in Nat
  /\ MaxPerTick \in Nat \ {0} /\ MaxCatchUp \in Nat \ {0} /\ CronHorizon \in Nat \ {0}
BY ScheduleAssumption

LEMMA CronsAre ==
  /\ Crons # {}
  /\ \A c \in Crons : /\ c.period \in Nat \ {0} /\ c.zone \in Nat /\ c.zone \in CronZones
                      /\ c.at \in 0 .. c.period - 1
                      /\ \E e \in CronExprs : c.period = e.period /\ c.at = e.at
<1>1. CronExprs # {} /\ CronZones # {}
  BY ScheduleAssumption
<1>2. PICK e \in CronExprs, z \in CronZones : TRUE
  BY <1>1
<1>3. [period |-> e.period, at |-> e.at, zone |-> z] \in Crons
  BY <1>2 DEF Crons
<1> QED BY <1>3, ScheduleAssumption DEF Crons

\* Every cron names an instant within a period: what NextRun computes.
LEMMA NextRunIs ==
  ASSUME NEW c \in Crons, NEW t \in Nat
  PROVE  NextRun(c, t) \in (t + 1) .. (t + c.period) /\ Hits(c, NextRun(c, t))
<1> DEFINE p == c.period
           z == t + 1 + c.zone
           q == z \div p
           s == z % p
           n == t + 1 + (IF s <= c.at THEN c.at - s ELSE c.at - s + p)
           m == IF s <= c.at THEN q ELSE q + 1
<1>1. p \in Nat \ {0} /\ z \in Nat /\ c.at \in 0 .. p - 1 /\ c.zone \in Nat
  BY CronsAre
<1>2. z = p * q + s /\ s \in 0 .. p - 1 /\ q \in Nat
  <2> HIDE DEF p, z
  <2> QED BY <1>1, DivMod
<1>3. n \in (t + 1) .. (t + p)
  <2> HIDE DEF p, z, s
  <2> QED BY <1>1, <1>2
<1>4. m \in Nat /\ n + c.zone = p * m + c.at
  <2>1. n + c.zone = z + (IF s <= c.at THEN c.at - s ELSE c.at - s + p)
    <3> DEFINE d == IF s <= c.at THEN c.at - s ELSE c.at - s + p
    <3>1. d \in Int
      <4> HIDE DEF p, s
      <4> QED BY <1>1, <1>2
    <3> HIDE DEF d
    <3>2. n = t + 1 + d
      BY DEF d
    <3>3. z + d = t + 1 + c.zone + d
      OBVIOUS
    <3> HIDE DEF n, z
    <3>4. n + c.zone = z + d
      BY <1>1, <3>1, <3>2, <3>3
    <3> QED BY <3>4 DEF d
  <2> HIDE DEF p, z, q, s, n
  <2>2. p * (q + 1) = p * q + p
    BY <1>1, <1>2
  <2>3. CASE s <= c.at
    BY <1>1, <1>2, <2>1, <2>3
  <2>4. CASE ~ (s <= c.at)
    BY <1>1, <1>2, <2>1, <2>2, <2>4
  <2> QED BY <2>3, <2>4
<1>5. (p * m + c.at) % p = c.at
  <2> HIDE DEF p, m
  <2> QED BY <1>1, <1>4, ModOfMultiple
<1>6. Hits(c, n)
  <2> HIDE DEF n, m
  <2> QED BY <1>4, <1>5 DEF Hits
<1> HIDE DEF n
<1> QED BY <1>3, <1>6 DEF NextRun

\* For every i up to the size of a set of numbers one of them has i numbers
\* of the set up to itself.
LEMMA CountedOut ==
  ASSUME NEW n \in Nat, NEW S \in SUBSET (1 .. n), NEW i \in 1 .. Cardinality(S)
  PROVE  \E s \in S : Cardinality({x \in S : x <= s}) = i
<1> DEFINE Upto(k) == {x \in S : x <= k}
           T == {k \in Nat : Cardinality(Upto(k)) >= i}
<1>0. \A x \in S : x \in Nat /\ 1 <= x /\ x <= n
  OBVIOUS
<1>1. IsFiniteSet(S) /\ Cardinality(S) \in Nat
  <2>1. IsFiniteSet(1 .. n)
    BY FS_Interval
  <2> QED BY <2>1, FS_Subset, FS_CardinalityType
<1>2. \A k : IsFiniteSet(Upto(k)) /\ Cardinality(Upto(k)) \in Nat
  BY <1>1, FS_Subset, FS_CardinalityType
<1>3. Upto(n) = S
  BY <1>0
<1>4. n \in T
  BY <1>1, <1>3
<1>5. PICK k \in T : \A l \in T : k <= l
  BY <1>4, NatLeast
<1>6. k # 0
  <2>1. Upto(0) = {}
    <3>1. \A x \in S : ~ (x <= 0)
      BY <1>0
    <3> QED BY <3>1
  <2>2. Cardinality(Upto(0)) = 0
    BY <2>1, FS_EmptySet
  <2> QED BY <2>2, <1>1
<1>7. k \in Nat /\ k - 1 \in Nat /\ Cardinality(Upto(k - 1)) < i
  <2>1. k \in Nat /\ k - 1 \in Nat /\ ~ (k <= k - 1)
    BY <1>6
  <2>2. k - 1 \notin T
    <3> HIDE DEF T
    <3> QED BY <1>5, <2>1
  <2> HIDE DEF Upto
  <2> QED BY <2>1, <2>2, <1>1, <1>2
<1>8. Cardinality(Upto(k)) >= i
  BY <1>5
<1>9. k \in S
  <2> SUFFICES ASSUME k \notin S PROVE FALSE
    OBVIOUS
  <2>1. \A x \in S : x <= k <=> x <= k - 1
    <3> HIDE DEF T
    <3> QED BY <1>0, <1>7
  <2>2. Upto(k) = Upto(k - 1)
    BY <2>1
  <2> HIDE DEF Upto
  <2> QED BY <2>2, <1>7, <1>8, <1>1, <1>2
<1>10. Upto(k) = Upto(k - 1) \union {k} /\ k \notin Upto(k - 1)
  <2>1. /\ \A x \in S : x <= k <=> x <= k - 1 \/ x = k
        /\ ~ (k <= k - 1)
    <3> HIDE DEF T
    <3> QED BY <1>0, <1>7, <1>9
  <2> QED BY <2>1, <1>9
<1>11. Cardinality(Upto(k)) = Cardinality(Upto(k - 1)) + 1
  <2> HIDE DEF Upto
  <2> QED BY <1>10, <1>2, FS_AddElement
<1>12. Cardinality(Upto(k)) = i
  <2> HIDE DEF Upto
  <2> QED BY <1>7, <1>8, <1>11, <1>1, <1>2
<1> QED BY <1>9, <1>12

LEMMA ExtremeOfTwo ==
  ASSUME NEW a \in Int, NEW b \in Int
  PROVE  /\ Max({a, b}) \in {a, b} /\ Max({a, b}) >= a /\ Max({a, b}) >= b
         /\ Min({a, b}) \in {a, b} /\ Min({a, b}) <= a /\ Min({a, b}) <= b
<1>1. \E x \in {a, b} : \A y \in {a, b} : x >= y
  OBVIOUS
<1>2. \E x \in {a, b} : \A y \in {a, b} : x <= y
  OBVIOUS
<1> QED BY <1>1, <1>2 DEF Max, Min

\* The slots from the first due one on are instants up to t, each once.
LEMMA SlotsAre ==
  ASSUME NEW row \in [next : Times, cron : Crons, policy : Policies], NEW t \in Times
  PROVE  /\ Slots(row, t) \in Seq(Times) /\ Len(Slots(row, t)) \in Nat \ {0}
         /\ \A i \in 1 .. Len(Slots(row, t)) :
              /\ Slots(row, t)[i] >= row.next
              /\ row.next <= t => Slots(row, t)[i] <= t
         /\ \A i, j \in 1 .. Len(Slots(row, t)) : Slots(row, t)[i] = Slots(row, t)[j] => i = j
<1> DEFINE after == {s \in (row.next + 1) .. t : Hits([row.cron EXCEPT !.zone = 0], s)}
           count(s) == Cardinality({x \in after : x <= s})
           m == Min({MaxScan, Cardinality(after)})
           pick == [i \in 1 .. m |-> CHOOSE s \in after : count(s) = i]
<1>1. Slots(row, t) = <<row.next>> \o pick
  BY DEF Slots
<1>2. row.next \in Nat \ {0} /\ t \in Nat /\ row.next \in Times
  BY CronNumbers DEF Times
<1>3. after \in SUBSET (1 .. t) /\ \A s \in after : s \in Times /\ s > row.next /\ s <= t
  BY <1>2, CronNumbers DEF Times
<1>4. Cardinality(after) \in Nat
  <2> HIDE DEF after
  <2>1. IsFiniteSet(1 .. t)
    BY <1>2, FS_Interval
  <2> QED BY <2>1, <1>3, FS_Subset, FS_CardinalityType
<1>5. m \in Nat /\ m <= Cardinality(after)
  <2> DEFINE b == Cardinality(after)
  <2>1. MaxScan \in Int /\ b \in Int /\ MaxScan \in Nat /\ b \in Nat
    <3> HIDE DEF after
    <3> QED BY <1>4, CronNumbers
  <2> HIDE DEF b
  <2>2. Min({MaxScan, b}) \in {MaxScan, b} /\ Min({MaxScan, b}) <= b
    BY <2>1, ExtremeOfTwo
  <2>3. Min({MaxScan, b}) \in Nat
    BY <2>1, <2>2
  <2> QED BY <2>2, <2>3 DEF b
<1>6. \A i \in 1 .. m : pick[i] \in after /\ count(pick[i]) = i
  <2> SUFFICES ASSUME NEW i \in 1 .. m PROVE pick[i] \in after /\ count(pick[i]) = i
    OBVIOUS
  <2>1. i \in 1 .. Cardinality(after)
    <3> HIDE DEF after, m
    <3> QED BY <1>4, <1>5
  <2>2. \E s \in after : count(s) = i
    <3> HIDE DEF after
    <3> QED BY <1>2, <1>3, <2>1, CountedOut
  <2> HIDE DEF after, count, m
  <2> QED BY <2>2
<1>7. pick \in Seq(Times) /\ Len(pick) = m /\ DOMAIN pick = 1 .. m
  <2>1. \A i \in 1 .. m : pick[i] \in Times
    <3> HIDE DEF after, pick
    <3> QED BY <1>3, <1>6
  <2>2. pick \in [1 .. m -> Times]
    <3> HIDE DEF after, count, m
    <3> QED BY <2>1
  <2> HIDE DEF pick, m
  <2> QED BY <2>2, <1>5
<1> HIDE DEF after, count, m, pick
<1>8. /\ Slots(row, t) \in Seq(Times) /\ Len(Slots(row, t)) = m + 1
      /\ Slots(row, t)[1] = row.next
      /\ \A i \in 2 .. m + 1 : Slots(row, t)[i] = pick[i - 1]
  <2>1. <<row.next>> \in Seq(Times) /\ Len(<<row.next>>) = 1
    BY <1>2
  <2> QED BY <1>1, <1>5, <1>7, <2>1
<1>9. \A i \in 1 .. m + 1 : \/ i = 1 /\ Slots(row, t)[i] = row.next
                            \/ /\ i - 1 \in 1 .. m /\ Slots(row, t)[i] = pick[i - 1]
                               /\ Slots(row, t)[i] > row.next /\ Slots(row, t)[i] <= t
  <2> SUFFICES ASSUME NEW i \in 1 .. m + 1, i # 1
               PROVE  /\ i - 1 \in 1 .. m /\ Slots(row, t)[i] = pick[i - 1]
                      /\ Slots(row, t)[i] > row.next /\ Slots(row, t)[i] <= t
    BY <1>8
  <2>1. i - 1 \in 1 .. m /\ i \in 2 .. m + 1
    BY <1>5
  <2>2. pick[i - 1] \in after /\ Slots(row, t)[i] = pick[i - 1]
    BY <2>1, <1>6, <1>8
  <2> QED BY <2>1, <2>2, <1>3
<1>10. \A i, j \in 1 .. m + 1 : Slots(row, t)[i] = Slots(row, t)[j] => i = j
  <2> SUFFICES ASSUME NEW i \in 1 .. m + 1, NEW j \in 1 .. m + 1,
                      Slots(row, t)[i] = Slots(row, t)[j]
               PROVE  i = j
    OBVIOUS
  <2>1. CASE i = 1 \/ j = 1
    BY <1>9, <1>2, <2>1
  <2>2. CASE i # 1 /\ j # 1
    <3>1. i - 1 \in 1 .. m /\ j - 1 \in 1 .. m /\ pick[i - 1] = pick[j - 1]
      BY <1>9, <2>2
    <3>2. i - 1 = j - 1
      BY <1>6, <3>1
    <3> QED BY <3>2, <1>5
  <2> QED BY <2>1, <2>2
<1>11. \A i \in 1 .. m + 1 : /\ Slots(row, t)[i] >= row.next
                             /\ row.next <= t => Slots(row, t)[i] <= t
  <2>1. \A i \in 1 .. m + 1 : Slots(row, t)[i] \in Nat
    BY <1>5, <1>8, CronNumbers DEF Times
  <2> QED BY <1>9, <1>2, <2>1
<1> QED BY <1>5, <1>8, <1>10, <1>11

LEMMA LastNIs ==
  ASSUME NEW s \in Seq(Times), NEW n \in Nat
  PROVE  /\ LastN(s, n) \in Seq(Times) /\ Len(LastN(s, n)) <= n
         /\ \E k \in Nat : \A i \in 1 .. Len(LastN(s, n)) :
              i + k \in 1 .. Len(s) /\ LastN(s, n)[i] = s[i + k]
<1> DEFINE lo == Max({1, Len(s) - n + 1})
           last == LastN(s, n)
<1>1. Len(s) \in Nat
  OBVIOUS
<1>2. lo \in Nat \ {0} /\ lo >= Len(s) - n + 1 /\ (lo = 1 \/ lo = Len(s) - n + 1)
  <2> DEFINE b == Len(s) - n + 1
  <2>1. b \in Int /\ 1 \in Int
    BY <1>1
  <2> HIDE DEF b
  <2>2. /\ Max({1, b}) \in {1, b} /\ Max({1, b}) >= b /\ Max({1, b}) >= 1
    BY <2>1, ExtremeOfTwo
  <2>3. Max({1, b}) \in Nat \ {0}
    BY <2>1, <2>2
  <2> QED BY <2>2, <2>3 DEF b
<1>3. last = SubSeq(s, lo, Len(s))
  BY DEF LastN
<1> HIDE DEF lo
<1>4. lo <= Len(s) + 1
  BY <1>1, <1>2
<1>5. \A i \in lo .. Len(s) : s[i] \in Times
  BY <1>2
<1>6. /\ last \in Seq(Times) /\ Len(last) = Len(s) + 1 - lo
      /\ \A i \in 1 .. Len(last) : last[i] = s[i + lo - 1]
  BY <1>1, <1>2, <1>3, <1>4, <1>5, SubSeqProperties
<1>7. \A i \in 1 .. Len(last) : i + (lo - 1) \in 1 .. Len(s) /\ last[i] = s[i + (lo - 1)]
  BY <1>1, <1>2, <1>6
<1> HIDE DEF last
<1>8. lo - 1 \in Nat /\ Len(last) <= n
  BY <1>1, <1>2, <1>6
<1> QED BY <1>6, <1>7, <1>8 DEF last

\* What a pass plans are instants of the row and after, up to its clock, each
\* once and no more than it may catch up with.
LEMMA PlanIs ==
  ASSUME NEW row \in [next : Times, cron : Crons, policy : Policies], NEW t \in Times
  PROVE  /\ Plan(row, t) \in Seq(Times) /\ Len(Plan(row, t)) <= MaxCatchUp
         /\ \A i \in 1 .. Len(Plan(row, t)) :
              /\ Plan(row, t)[i] >= row.next
              /\ row.next <= t => Plan(row, t)[i] <= t
         /\ \A i, j \in 1 .. Len(Plan(row, t)) : Plan(row, t)[i] = Plan(row, t)[j] => i = j
<1> DEFINE slots == Slots(row, t)
<1>1. CASE Plan(row, t) = <<>>
  <2>1. Len(<<>>) = 0 /\ <<>> \in Seq(Times)
    OBVIOUS
  <2> QED BY <1>1, <2>1, CronNumbers
<1>2. ASSUME NEW n \in {1, MaxCatchUp}, Plan(row, t) = LastN(slots, n)
      PROVE  /\ Plan(row, t) \in Seq(Times) /\ Len(Plan(row, t)) <= MaxCatchUp
             /\ \A i \in 1 .. Len(Plan(row, t)) :
                  /\ Plan(row, t)[i] >= row.next
                  /\ row.next <= t => Plan(row, t)[i] <= t
             /\ \A i, j \in 1 .. Len(Plan(row, t)) : Plan(row, t)[i] = Plan(row, t)[j] => i = j
  <2>1. n \in Nat /\ n <= MaxCatchUp
    BY CronNumbers
  <2>2. /\ slots \in Seq(Times)
        /\ \A i \in 1 .. Len(slots) :
              slots[i] >= row.next /\ (row.next <= t => slots[i] <= t)
        /\ \A i, j \in 1 .. Len(slots) : slots[i] = slots[j] => i = j
    BY SlotsAre
  <2> HIDE DEF slots
  <2>3. LastN(slots, n) \in Seq(Times) /\ Len(LastN(slots, n)) <= n
    BY <2>1, <2>2, LastNIs
  <2>4. PICK k \in Nat : \A i \in 1 .. Len(LastN(slots, n)) :
               i + k \in 1 .. Len(slots) /\ LastN(slots, n)[i] = slots[i + k]
    BY <2>1, <2>2, LastNIs
  <2>5. Len(Plan(row, t)) \in Nat
    BY <1>2, <2>3
  <2>6. \A i \in 1 .. Len(Plan(row, t)) :
          i + k \in 1 .. Len(slots) /\ Plan(row, t)[i] = slots[i + k]
    BY <1>2, <2>4
  <2>7. \A i, j \in 1 .. Len(Plan(row, t)) : Plan(row, t)[i] = Plan(row, t)[j] => i = j
    <3> SUFFICES ASSUME NEW i \in 1 .. Len(Plan(row, t)), NEW j \in 1 .. Len(Plan(row, t)),
                        Plan(row, t)[i] = Plan(row, t)[j]
                 PROVE  i = j
      OBVIOUS
    <3>1. i + k = j + k
      BY <2>2, <2>6
    <3> QED BY <3>1, <2>5
  <2>8. Len(Plan(row, t)) <= MaxCatchUp
    BY <1>2, <2>1, <2>3, <2>5, CronNumbers
  <2> QED BY <1>2, <2>2, <2>3, <2>6, <2>7, <2>8
<1>3. Plan(row, t) = <<>> \/ \E n \in {1, MaxCatchUp} : Plan(row, t) = LastN(slots, n)
  BY DEF Plan
<1> QED BY <1>1, <1>2, <1>3

-----------------------------------------------------------------------------
(***************************************************************************)
(* A pass finds the schedule, leaves it, or claims its slot.               *)
(***************************************************************************)

LEMMA NoPassIs ==
  /\ NoPass \in Passes /\ NoPass.pc = "idle" /\ NoPass.due = <<>> /\ Rest(NoPass) = {}
  /\ Len(NoPass.due) <= MaxCatchUp
<1>1. Len(<<>>) = 0
  OBVIOUS
<1> QED BY <1>1, CronNumbers DEF NoPass, Passes, Rest

LEMMA PassIs ==
  ASSUME CronShape, NEW w \in Tickers, tick[w].pc # "idle"
  PROVE  /\ tick[w] \in ActivePass /\ tick[w].due \in Seq(Times)
         /\ tick[w].row \in [next : Times, cron : Crons, policy : Policies]
         /\ tick[w].at \in Times /\ tick[w].spent \in Nat
         /\ tick[w].row.next \in Nat \ {0} /\ tick[w].at \in Nat \ {0}
         /\ tick[w].row.cron \in Crons
<1>1. tick[w] \in Passes /\ NoPass.pc = "idle"
  BY NoPassIs DEF CronShape
<1>2. tick[w] \in ActivePass
  BY <1>1 DEF Passes
<1>3. \A t \in Times : t \in Nat \ {0}
  BY CronNumbers DEF Times
<1> QED BY <1>2, <1>3 DEF ActivePass

LEMMA CronTypes ==
  ASSUME CronShape
  PROVE  /\ sched.next \in Nat /\ sched.cron \in Crons /\ now \in Nat \ {0} /\ now <= CronHorizon
         /\ failed \in Nat
         /\ \A t \in Times : t \in Nat \ {0} /\ fired[t] \in Nat
BY CronNumbers DEF CronShape, Times, Row

\* The positions a pass has left are positions of its plan.
LEMMA RestIs ==
  ASSUME CronShape, NEW w \in Tickers, NEW i \in Rest(tick[w])
  PROVE  /\ tick[w].pc \in {"fire", "send"} /\ i \in 1 .. Len(tick[w].due)
         /\ tick[w].due[i] \in Times
<1>1. tick[w].pc \in {"fire", "send"} /\ i \in 1 .. Len(tick[w].due)
  BY DEF Rest
<1>2. tick[w].due \in Seq(Times)
  BY <1>1, PassIs
<1> QED BY <1>1, <1>2

\* An instant of a cron, computed at t, as the next one of the row.
LEMMA NextRunFits ==
  ASSUME NEW c \in Crons, NEW t \in Times
  PROVE  /\ NextRun(c, t) \in Nat \ {0} /\ NextRun(c, t) > t /\ Hits(c, NextRun(c, t))
         /\ \E d \in Crons : NextRun(c, t) \in 1 .. CronHorizon + d.period
<1>1. t \in Nat \ {0} /\ t <= CronHorizon /\ c.period \in Nat \ {0}
  BY CronNumbers, CronsAre DEF Times
<1>2. NextRun(c, t) \in (t + 1) .. (t + c.period) /\ Hits(c, NextRun(c, t))
  BY <1>1, NextRunIs
<1>3. NextRun(c, t) \in 1 .. CronHorizon + c.period
  BY <1>1, <1>2, CronNumbers
<1> QED BY <1>1, <1>2, <1>3

\* A row that stays, moves on, or gets an instant after now, is ahead of all
\* that the old one was ahead of.
LEMMA StaysAhead ==
  ASSUME CronShape, OnceInv, NEW s, s.next \in Nat,
         \/ s.next = sched.next /\ s.cron = sched.cron
         \/ s.next > sched.next
         \/ s.next > now
  PROVE  IsAhead(s)
<1>1. \A w \in Tickers : tick[w].pc # "idle" =>
        /\ tick[w].row.next <= s.next
        /\ ~torn /\ tick[w].row.next = s.next => tick[w].row.cron = s.cron
  <2> SUFFICES ASSUME NEW w \in Tickers, tick[w].pc # "idle"
               PROVE  /\ tick[w].row.next <= s.next
                      /\ ~torn /\ tick[w].row.next = s.next => tick[w].row.cron = s.cron
    OBVIOUS
  <2>1. /\ tick[w].row.next <= tick[w].at /\ tick[w].at <= now
        /\ tick[w].row.next <= sched.next
        /\ ~torn /\ tick[w].row.next = sched.next => tick[w].row.cron = sched.cron
    BY DEF OnceInv, PassesAreDue, IsAhead
  <2>2. tick[w].row.next \in Nat /\ tick[w].at \in Nat /\ now \in Nat /\ sched.next \in Nat
    BY PassIs, CronTypes
  <2> QED BY <2>1, <2>2
<1>2. \A w \in Tickers : \A i \in Rest(tick[w]) : tick[w].due[i] < s.next
  <2> SUFFICES ASSUME NEW w \in Tickers, NEW i \in Rest(tick[w])
               PROVE  tick[w].due[i] < s.next
    OBVIOUS
  <2>1. /\ tick[w].due[i] <= tick[w].at /\ tick[w].at <= now /\ tick[w].due[i] < sched.next
    BY RestIs DEF OnceInv, PassesAreDue, PlansAreApart, IsAhead
  <2>2. tick[w].pc # "idle" /\ tick[w].due[i] \in Times
    BY RestIs
  <2>3. tick[w].due[i] \in Nat /\ tick[w].at \in Nat /\ now \in Nat /\ sched.next \in Nat
    BY <2>2, PassIs, CronTypes
  <2> QED BY <2>1, <2>3
<1>3. \A t \in Times : fired[t] > 0 => t < s.next
  <2> SUFFICES ASSUME NEW t \in Times, fired[t] > 0 PROVE t < s.next
    OBVIOUS
  <2>1. t < sched.next /\ t <= now
    BY DEF OnceInv, IsAhead, FiredIsOver
  <2>2. t \in Nat /\ now \in Nat /\ sched.next \in Nat
    BY CronTypes
  <2> QED BY <2>1, <2>2
<1> QED BY <1>1, <1>2, <1>3 DEF IsAhead

\* A step of one pass.
LEMMA ShapeKeeps ==
  ASSUME CronShape, NEW w \in Tickers, NEW p \in Passes, tick' = [tick EXCEPT ![w] = p],
         Len(p.due) <= MaxCatchUp, p.pc \in {"fire", "send"} => p.due # <<>>,
         sched' \in Row,
         sched'.next = 0 \/ \E c \in Crons : sched'.next \in 1 .. CronHorizon + c.period,
         sched'.on => sched'.next # 0, sched.next # 0 => sched'.next # 0,
         rowLock' \in {rowLock, NoTicker, w}, UNCHANGED <<now, edit, torn>>,
         fired' \in [Times -> Nat], blind' \in BOOLEAN, failed' \in 0 .. CronFaults
  PROVE  CronShape'
<1>1. tick' \in [Tickers -> Passes] /\ \A v \in Tickers : tick'[v] = IF v = w THEN p ELSE tick[v]
  BY DEF CronShape
<1>2. EditsFit'
  BY DEF CronShape, EditsFit
<1> QED BY <1>1, <1>2 DEF CronShape

\* What a pass p may be, after a step of w that creates no run.
Fits(p, w, s) ==
  /\ p.pc # "idle" => /\ p.row.next <= p.at /\ p.at <= now /\ p.row.next <= s.next
                      /\ ~torn /\ p.row.next = s.next => p.row.cron = s.cron
  /\ \A i \in Rest(p) : p.due[i] <= p.at /\ p.due[i] < s.next /\ fired[p.due[i]] = 0
  /\ \A i, j \in Rest(p) : p.due[i] = p.due[j] => i = j
  /\ \A v \in Tickers \ {w} : \A i \in Rest(p), j \in Rest(tick[v]) :
       p.due[i] # tick[v].due[j]

LEMMA OnceKeeps ==
  ASSUME CronShape, OnceInv, NEW w \in Tickers, NEW p, tick' = [tick EXCEPT ![w] = p],
         UNCHANGED <<now, fired, torn>>, NEW s, sched' = s, IsAhead(s), OfTheCron(s), Fits(p, w, s)
  PROVE  OnceInv'
<1>1. \A v \in Tickers : tick'[v] = IF v = w THEN p ELSE tick[v]
  BY DEF CronShape
<1>2. PassesAreDue'
  BY <1>1 DEF OnceInv, PassesAreDue, Fits
<1>3. IsAhead(sched)'
  BY <1>1 DEF IsAhead, Fits
<1>4. PlansAreApart'
  <2>1. \A v \in Tickers : \A i \in Rest(tick'[v]) :
          tick'[v].due[i] <= tick'[v].at /\ fired[tick'[v].due[i]] = 0
    BY <1>1 DEF OnceInv, PlansAreApart, Fits
  <2>2. \A v, u \in Tickers : \A i \in Rest(tick'[v]), j \in Rest(tick'[u]) :
          tick'[v].due[i] = tick'[u].due[j] => v = u /\ i = j
    <3> SUFFICES ASSUME NEW v \in Tickers, NEW u \in Tickers,
                        NEW i \in Rest(tick'[v]), NEW j \in Rest(tick'[u]),
                        tick'[v].due[i] = tick'[u].due[j]
                 PROVE  v = u /\ i = j
      OBVIOUS
    <3>1. CASE v # w /\ u # w
      BY <1>1, <3>1 DEF OnceInv, PlansAreApart
    <3>2. CASE v = w /\ u = w
      BY <1>1, <3>2 DEF Fits
    <3>3. CASE v = w /\ u # w
      BY <1>1, <3>3 DEF Fits
    <3>4. CASE v # w /\ u = w
      BY <1>1, <3>4 DEF Fits
    <3> QED BY <3>1, <3>2, <3>3, <3>4
  <2> QED BY <2>1, <2>2 DEF PlansAreApart
<1>5. FiredIsOver' /\ OfTheCron(sched)'
  BY DEF OnceInv, FiredIsOver, OfTheCron
<1> QED BY <1>2, <1>3, <1>4, <1>5 DEF OnceInv

LEMMA IdleFits ==
  ASSUME NEW w, NEW s PROVE Fits(NoPass, w, s)
BY NoPassIs DEF Fits

\* A pass that has begun or ends, over a row that stays as it is.
LEMMA LeaveKeeps ==
  ASSUME CronInv, NEW w \in Tickers, tick' = [tick EXCEPT ![w] = NoPass],
         rowLock' \in {rowLock, NoTicker}, failed' \in 0 .. CronFaults,
         UNCHANGED <<sched, now, fired, blind, edit, torn>>
  PROVE  CronInv'
<1>1. CronShape'
  <2>1. NoPass \in Passes /\ Len(NoPass.due) <= MaxCatchUp /\ NoPass.pc \notin {"fire", "send"}
    BY NoPassIs
  <2> QED BY <2>1, ShapeKeeps DEF CronInv, CronShape
<1>2. ASSUME ~blind PROVE OnceInv'
  <2>1. CronShape /\ OnceInv /\ IsAhead(sched) /\ OfTheCron(sched) /\ sched' = sched
    BY <1>2 DEF CronInv, OnceInv
  <2> QED BY <2>1, IdleFits, OnceKeeps
<1> QED BY <1>1, <1>2 DEF CronInv

LEMMA FailedIs == CronShape /\ Fault => failed' \in 0 .. CronFaults
BY CronNumbers, CronTypes DEF CronShape, Fault

LEMMA EndOfPassKeeps ==
  ASSUME CronInv, NEW w \in Tickers, SkipQuiet(w) \/ CrashTicker(w)
  PROVE  CronInv'
<1>1. /\ tick' = [tick EXCEPT ![w] = NoPass] /\ rowLock' \in {rowLock, NoTicker}
      /\ UNCHANGED <<sched, now, fired, blind, edit, torn>> /\ (UNCHANGED failed \/ Fault)
  BY DEF SkipQuiet, CrashTicker, Leave, Unlock
<1>2. failed' \in 0 .. CronFaults
  BY <1>1, FailedIs DEF CronInv, CronShape
<1> QED BY <1>1, <1>2, LeaveKeeps

LEMMA FindKeeps == ASSUME CronInv, NEW w \in Tickers, Find(w) PROVE CronInv'
<1> DEFINE row == [next |-> sched.next, cron |-> sched.cron, policy |-> sched.policy]
<1>1. PICK spent \in {0, MaxPerTick - 1} : tick' = [tick EXCEPT ![w] =
         [NoPass EXCEPT !.pc = "found", !.at = now, !.spent = spent, !.row = row]]
  BY DEF Find
<1> DEFINE p == [NoPass EXCEPT !.pc = "found", !.at = now, !.spent = spent, !.row = row]
<1>2. tick' = [tick EXCEPT ![w] = p]
  BY <1>1
<1>3. /\ sched.on /\ sched.next <= now /\ rowLock' = w
      /\ UNCHANGED <<sched, now, fired, blind, failed, edit, torn>>
  BY DEF Find
<1>4. CronShape /\ sched.next # 0
  BY <1>3 DEF CronInv, CronShape
<1>5. row \in [next : Times, cron : Crons, policy : Policies]
  <2>1. sched.next \in Times
    BY <1>3, <1>4, CronTypes, CronNumbers DEF Times
  <2> QED BY <1>4, <2>1 DEF CronShape, Row
<1>6. /\ p \in Passes /\ Len(p.due) <= MaxCatchUp /\ p.pc = "found" /\ Rest(p) = {}
      /\ p.row = row /\ p.at = now
  <2>1. <<>> \in Seq(Times) /\ Len(<<>>) = 0
    OBVIOUS
  <2>2. now \in Times /\ spent \in Nat
    BY <1>4, CronNumbers DEF CronShape
  <2> DEFINE none == NoPass.row
  <2>3. NoPass \in [pc : {"idle", "found"}, at : Times \union {0}, due : {<<>>},
                    spent : Nat, row : {none, row}]
    <3> HIDE DEF row
    <3> QED BY DEF NoPass
  <2> HIDE DEF row, none
  <2>4. /\ p \in [pc : {"idle", "found"}, at : Times \union {0}, due : {<<>>},
                  spent : Nat, row : {none, row}]
        /\ p.pc = "found" /\ p.at = now /\ p.spent = spent /\ p.row = row /\ p.due = <<>>
    BY <2>2, <2>3
  <2> HIDE DEF p
  <2>5. p \in ActivePass
    BY <1>5, <2>1, <2>2, <2>4 DEF ActivePass
  <2> QED BY <2>1, <2>4, <2>5, CronNumbers DEF Passes, Rest
<1> HIDE DEF p
<1>7. p.row.next = sched.next /\ p.row.cron = sched.cron /\ p.at = now
  BY <1>6
<1>8. CronShape'
  BY <1>2, <1>3, <1>4, <1>6, ShapeKeeps DEF CronShape
<1>9. ASSUME ~blind PROVE OnceInv'
  <2>1. Fits(p, w, sched)
    BY <1>3, <1>4, <1>6, <1>7, CronTypes DEF Fits
  <2>2. OnceInv /\ IsAhead(sched) /\ OfTheCron(sched) /\ sched' = sched
    BY <1>3, <1>9 DEF CronInv, OnceInv
  <2> QED BY <1>2, <1>3, <1>4, <2>1, <2>2, OnceKeeps
<1> QED BY <1>3, <1>8, <1>9 DEF CronInv

\* The row is moved on by the pass that has read it, if nobody has before.
LEMMA ClaimKeeps == ASSUME CronInv, NEW w \in Tickers, Claim(w) PROVE CronInv'
<1> DEFINE pass == tick[w]
           due == Plan(pass.row, pass.at)
           next == NextRun(pass.row.cron, pass.at)
           s == [sched EXCEPT !.next = next]
           p == IF due = <<>> THEN NoPass ELSE [pass EXCEPT !.pc = "fire", !.due = due]
<1>1. /\ pass.pc = "found" /\ rowLock' \in {rowLock, NoTicker}
      /\ UNCHANGED <<now, fired, blind, failed, edit, torn>>
  BY DEF Claim, Unlock
<1>2. CASE ~ Advances(pass.row)
  <2>1. tick' = [tick EXCEPT ![w] = NoPass] /\ UNCHANGED sched
    BY <1>2 DEF Claim
  <2>2. failed' \in 0 .. CronFaults
    BY <1>1 DEF CronInv, CronShape
  <2> QED BY <1>1, <2>1, <2>2, LeaveKeeps
<1>3. CASE Advances(pass.row)
  <2>1. sched' = s /\ tick' = [tick EXCEPT ![w] = p] /\ sched.next = pass.row.next
    BY <1>3 DEF Claim, Advances
  <2>2. /\ pass \in ActivePass /\ pass.at \in Times /\ pass.row.cron \in Crons
        /\ pass.row \in [next : Times, cron : Crons, policy : Policies]
        /\ pass.row.next \in Nat \ {0} /\ pass.at \in Nat \ {0} /\ CronShape
    BY <1>1, PassIs DEF CronInv
  <2>3. /\ next \in Nat \ {0} /\ next > pass.at /\ Hits(pass.row.cron, next)
        /\ \E d \in Crons : next \in 1 .. CronHorizon + d.period
    BY <2>2, NextRunFits
  <2>4. /\ due \in Seq(Times) /\ Len(due) <= MaxCatchUp /\ Len(due) \in Nat
        /\ \A i \in 1 .. Len(due) : /\ due[i] >= pass.row.next
                                    /\ pass.row.next <= pass.at => due[i] <= pass.at
        /\ \A i, j \in 1 .. Len(due) : due[i] = due[j] => i = j
    <3> HIDE DEF pass
    <3>1. /\ Plan(pass.row, pass.at) \in Seq(Times) /\ Len(Plan(pass.row, pass.at)) <= MaxCatchUp
          /\ \A i \in 1 .. Len(Plan(pass.row, pass.at)) :
               /\ Plan(pass.row, pass.at)[i] >= pass.row.next
               /\ pass.row.next <= pass.at => Plan(pass.row, pass.at)[i] <= pass.at
          /\ \A i, j \in 1 .. Len(Plan(pass.row, pass.at)) :
               Plan(pass.row, pass.at)[i] = Plan(pass.row, pass.at)[j] => i = j
      BY <2>2, PlanIs
    <3> HIDE DEF due
    <3>2. /\ due \in Seq(Times) /\ Len(due) <= MaxCatchUp
          /\ \A i \in 1 .. Len(due) : /\ due[i] >= pass.row.next
                                      /\ pass.row.next <= pass.at => due[i] <= pass.at
          /\ \A i, j \in 1 .. Len(due) : due[i] = due[j] => i = j
      BY <3>1 DEF due
    <3> QED BY <3>2
  <2> HIDE DEF next, due
  <2>5. /\ s \in Row
        /\ s.next = next /\ s.cron = sched.cron
    BY <2>2, <2>3 DEF CronShape, Row
  <2>6. /\ p \in Passes /\ Len(p.due) <= MaxCatchUp /\ (p.pc \in {"fire", "send"} => p.due # <<>>)
        /\ p = NoPass \/ /\ p.pc = "fire" /\ p.due = due /\ p.at = pass.at /\ p.row = pass.row
                         /\ Rest(p) = 1 .. Len(due)
    <3>1. CASE due = <<>>
      BY <3>1, NoPassIs
    <3>2. CASE due # <<>>
      BY <3>2, <2>2, <2>4 DEF Passes, ActivePass, Rest
    <3> QED BY <3>1, <3>2
  <2> HIDE DEF p, s, pass
  <2>7. CronShape'
    BY <1>1, <2>1, <2>2, <2>3, <2>5, <2>6, ShapeKeeps DEF CronShape
  <2>8. ASSUME ~blind PROVE OnceInv'
    <3>1. OnceInv
      BY <2>8 DEF CronInv
    <3>2. /\ pass.row.next <= pass.at /\ pass.at <= now
          /\ ~torn => pass.row.cron = sched.cron
      BY <1>1, <2>1, <3>1 DEF OnceInv, PassesAreDue, IsAhead, pass
    <3>3. s.next > sched.next /\ s.next \in Nat
      BY <2>1, <2>2, <2>3, <2>5, <3>2
    <3>4. IsAhead(s)
      BY <2>2, <3>1, <3>3, StaysAhead
    <3>5. OfTheCron(s)
      BY <2>3, <2>5, <3>2 DEF OfTheCron
    <3>6. \A i \in 1 .. Len(due) : /\ due[i] \in Times /\ due[i] \in Nat /\ due[i] >= sched.next
                                   /\ due[i] <= pass.at /\ due[i] < next
      <4>1. \A i \in 1 .. Len(due) : due[i] \in Times /\ due[i] \in Nat
        BY <2>4, CronNumbers DEF Times
      <4> QED BY <4>1, <2>1, <2>2, <2>3, <2>4, <3>2
    <3>7. \A i \in 1 .. Len(due) : fired[due[i]] = 0
      <4> SUFFICES ASSUME NEW i \in 1 .. Len(due), fired[due[i]] # 0 PROVE FALSE
        OBVIOUS
      <4>1. fired[due[i]] \in Nat /\ sched.next \in Nat
        BY <2>2, <3>6, CronTypes
      <4>2. due[i] < sched.next
        BY <3>1, <3>6, <4>1 DEF OnceInv, IsAhead
      <4> QED BY <3>6, <4>1, <4>2
    <3>8. \A v \in Tickers : \A i \in 1 .. Len(due), j \in Rest(tick[v]) : due[i] # tick[v].due[j]
      <4> SUFFICES ASSUME NEW v \in Tickers, NEW i \in 1 .. Len(due), NEW j \in Rest(tick[v]),
                          due[i] = tick[v].due[j]
                   PROVE  FALSE
        OBVIOUS
      <4>1. tick[v].due[j] < sched.next /\ sched.next \in Nat
        BY <2>2, <3>1, CronTypes DEF OnceInv, IsAhead
      <4> QED BY <3>6, <4>1
    <3>9. Fits(p, w, s)
      <4>1. CASE p = NoPass
        BY <4>1, IdleFits
      <4>2. CASE p # NoPass
        <5>1. /\ p.pc = "fire" /\ p.due = due /\ p.at = pass.at /\ p.row = pass.row
              /\ Rest(p) = 1 .. Len(due)
          BY <2>6, <4>2
        <5>2. pass.row.next < s.next
          BY <2>1, <2>2, <3>3
        <5>3. pass.row.next <= s.next /\ pass.row.next # s.next
          BY <5>2, <2>2, <3>3
        <5> QED BY <5>1, <5>3, <2>4, <2>5, <3>2, <3>6, <3>7, <3>8 DEF Fits
      <4> QED BY <4>1, <4>2
    <3> QED BY <1>1, <2>1, <2>2, <3>1, <3>4, <3>5, <3>9, OnceKeeps
  <2> QED BY <1>1, <2>7, <2>8 DEF CronInv
<1> QED BY <1>2, <1>3

-----------------------------------------------------------------------------
(***************************************************************************)
(* A pass creates its runs.                                                *)
(***************************************************************************)

LEMMA CreateRunKeeps == ASSUME CronInv, NEW w \in Tickers, CreateRun(w) PROVE CronInv'
<1> DEFINE pass == tick[w]
<1>1. pass.pc = "fire" /\ UNCHANGED <<sched, now, blind, failed, edit, torn>> /\ CronShape
  BY DEF CreateRun, CronInv
<1>2. CASE pass.spent >= MaxPerTick
  <2>1. tick' = [tick EXCEPT ![w] = NoPass] /\ rowLock' \in {rowLock, NoTicker} /\ UNCHANGED fired
    BY <1>2 DEF CreateRun, Leave, Unlock
  <2>2. failed' \in 0 .. CronFaults
    BY <1>1 DEF CronShape
  <2> QED BY <1>1, <2>1, <2>2, LeaveKeeps
<1>3. CASE ~ (pass.spent >= MaxPerTick)
  <2> DEFINE p == [pass EXCEPT !.pc = "send", !.spent = @ + 1]
             h == pass.due[1]
  <2>1. /\ pass \in ActivePass /\ pass.due \in Seq(Times) /\ pass.due # <<>>
        /\ Len(pass.due) <= MaxCatchUp /\ pass.spent \in Nat
    BY <1>1, PassIs DEF CronShape
  <2>2. Head(pass.due) = h /\ Len(pass.due) \in Nat \ {0} /\ h \in Times
    <3> HIDE DEF pass
    <3> QED BY <2>1
  <2>3. fired' = [fired EXCEPT ![h] = @ + 1] /\ tick' = [tick EXCEPT ![w] = p] /\ UNCHANGED rowLock
    BY <1>1, <1>3, <2>2 DEF CreateRun, CronShape
  <2>4. /\ p \in Passes /\ p.pc = "send" /\ p.due = pass.due /\ p.at = pass.at
        /\ p.row = pass.row /\ Rest(p) = 2 .. Len(pass.due)
    <3> HIDE DEF pass
    <3> DEFINE n == pass.spent + 1
    <3>1. n \in Nat
      BY <2>1
    <3> HIDE DEF n
    <3>2. p = [pass EXCEPT !.pc = "send", !.spent = n]
      BY DEF n
    <3> HIDE DEF p
    <3>3. p \in ActivePass /\ p.pc = "send" /\ p.due = pass.due /\ p.at = pass.at
          /\ p.row = pass.row
      BY <2>1, <3>1, <3>2 DEF ActivePass
    <3> QED BY <3>3 DEF Passes, Rest
  <2>5. Rest(pass) = 1 .. Len(pass.due)
    BY <1>1 DEF Rest
  <2> HIDE DEF p
  <2>6. /\ fired' \in [Times -> Nat] /\ fired'[h] = fired[h] + 1
        /\ \A t \in Times \ {h} : fired'[t] = fired[t]
    BY <1>1, <2>2, <2>3 DEF CronShape
  <2>7. CronShape'
    BY <1>1, <2>1, <2>3, <2>4, <2>6, ShapeKeeps DEF CronShape
  <2>8. ASSUME ~blind PROVE OnceInv'
    <3>1. OnceInv /\ 1 \in Rest(pass)
      BY <2>2, <2>5, <2>8 DEF CronInv
    <3>2. fired[h] = 0 /\ h < sched.next /\ h <= pass.at /\ pass.at <= now
      BY <1>1, <3>1 DEF OnceInv, IsAhead, PlansAreApart, PassesAreDue
    <3>3. h <= now
      BY <1>1, <2>2, <3>2, PassIs, CronTypes
    <3>4. \A v \in Tickers : tick'[v] = IF v = w THEN p ELSE tick[v]
      BY <1>1, <2>3 DEF CronShape
    <3>5. \A v \in Tickers : Rest(tick'[v]) \subseteq Rest(tick[v])
      BY <2>4, <2>5, <3>4
    <3>6. \A v \in Tickers : /\ tick'[v].due = tick[v].due /\ tick'[v].at = tick[v].at
                             /\ tick'[v].row = tick[v].row
                             /\ tick'[v].pc # "idle" => tick[v].pc # "idle"
      BY <1>1, <2>4, <3>4
    <3>7. PassesAreDue'
      BY <1>1, <3>1, <3>6 DEF OnceInv, PassesAreDue
    <3>8. IsAhead(sched)'
      BY <1>1, <2>6, <3>1, <3>2, <3>5, <3>6 DEF OnceInv, IsAhead
    <3>9. \A v \in Tickers : \A i \in Rest(tick'[v]) :
            /\ i \in Rest(tick[v]) /\ tick[v].due[i] \in Times /\ tick[v].due[i] # h
      <4> SUFFICES ASSUME NEW v \in Tickers, NEW i \in Rest(tick'[v])
                   PROVE  /\ i \in Rest(tick[v]) /\ tick[v].due[i] \in Times
                          /\ tick[v].due[i] # h
        OBVIOUS
      <4>1. i \in Rest(tick[v]) /\ tick[v].due[i] \in Times
        BY <1>1, <3>5, RestIs
      <4>2. v = w => i # 1
        BY <2>4, <3>4
      <4>3. tick[v].due[i] = h => v = w /\ i = 1
        BY <3>1, <4>1 DEF OnceInv, PlansAreApart
      <4> QED BY <4>1, <4>2, <4>3
    <3>10. PlansAreApart'
      <4>1. \A v \in Tickers : \A i \in Rest(tick'[v]) :
              tick'[v].due[i] <= tick'[v].at /\ fired'[tick'[v].due[i]] = 0
        BY <2>6, <3>1, <3>6, <3>9 DEF OnceInv, PlansAreApart
      <4>2. \A v, u \in Tickers : \A i \in Rest(tick'[v]), j \in Rest(tick'[u]) :
              tick'[v].due[i] = tick'[u].due[j] => v = u /\ i = j
        BY <3>1, <3>6, <3>9 DEF OnceInv, PlansAreApart
      <4> QED BY <4>1, <4>2 DEF PlansAreApart
    <3>11. FiredIsOver'
      BY <1>1, <2>6, <3>1, <3>2, <3>3 DEF OnceInv, FiredIsOver
    <3>12. OfTheCron(sched)'
      BY <1>1, <3>1 DEF OnceInv, OfTheCron
    <3> QED BY <3>7, <3>8, <3>10, <3>11, <3>12 DEF OnceInv
  <2> QED BY <1>1, <2>7, <2>8 DEF CronInv
<1> QED BY <1>2, <1>3

\* After a run the pass goes on with the others, at the next position.
LEMMA AfterIs ==
  ASSUME CronShape, NEW w \in Tickers, tick[w].pc = "send"
  PROVE  /\ After(tick[w]) \in Passes /\ Len(After(tick[w]).due) <= MaxCatchUp
         /\ After(tick[w]).pc \in {"fire", "send"} => After(tick[w]).due # <<>>
         /\ After(tick[w]) # NoPass =>
              /\ After(tick[w]).at = tick[w].at /\ After(tick[w]).row = tick[w].row
              /\ \A i \in Rest(After(tick[w])) :
                   i + 1 \in Rest(tick[w]) /\ After(tick[w]).due[i] = tick[w].due[i + 1]
              /\ Rest(After(tick[w])) \subseteq Nat
<1> DEFINE pass == tick[w]
           tail == Tail(pass.due)
           p == [pass EXCEPT !.pc = "fire", !.due = tail]
<1>1. /\ pass \in ActivePass /\ pass.due \in Seq(Times) /\ pass.due # <<>> /\ pass.pc = "send"
      /\ Len(pass.due) <= MaxCatchUp
  BY PassIs DEF CronShape
<1> HIDE DEF pass
<1>2. Len(pass.due) \in Nat \ {0}
  BY <1>1
<1>3. CASE Len(pass.due) = 1
  <2>1. After(pass) = NoPass
    BY <1>3 DEF After
  <2> QED BY <2>1, NoPassIs DEF pass
<1>4. CASE Len(pass.due) # 1
  <2>1. After(pass) = p
    BY <1>4 DEF After
  <2>2. /\ tail \in Seq(Times) /\ Len(tail) = Len(pass.due) - 1
        /\ \A i \in 1 .. Len(tail) : tail[i] = pass.due[i + 1]
    BY <1>1
  <2>3. tail # <<>> /\ Len(tail) <= MaxCatchUp
    <3>1. Len(tail) \in Nat \ {0} /\ Len(tail) <= Len(pass.due)
      BY <1>2, <1>4, <2>2
    <3>2. Len(<<>>) = 0
      OBVIOUS
    <3> HIDE DEF tail
    <3>3. tail # <<>>
      BY <3>1, <3>2
    <3> QED BY <1>1, <1>2, <3>1, <3>3, CronNumbers
  <2>4. Rest(pass) = 2 .. Len(pass.due)
    BY <1>1 DEF Rest
  <2> HIDE DEF tail
  <2>5. /\ p \in Passes /\ p.due = tail /\ p.at = pass.at /\ p.row = pass.row
        /\ Rest(p) = 1 .. Len(tail)
    BY <1>1, <2>2 DEF Passes, ActivePass, Rest
  <2>6. \A i \in 1 .. Len(tail) : i + 1 \in 2 .. Len(pass.due)
    BY <1>2, <2>2
  <2> HIDE DEF p
  <2>7. /\ p \in Passes /\ Len(p.due) <= MaxCatchUp /\ p.due # <<>>
        /\ p.at = pass.at /\ p.row = pass.row
        /\ \A i \in Rest(p) : i + 1 \in Rest(pass) /\ p.due[i] = pass.due[i + 1]
        /\ Rest(p) \subseteq Nat
    BY <2>2, <2>3, <2>4, <2>5, <2>6
  <2> QED BY <2>1, <2>7 DEF pass
<1> QED BY <1>3, <1>4

LEMMA AfterFits ==
  ASSUME CronShape, OnceInv, NEW w \in Tickers, tick[w].pc = "send"
  PROVE  Fits(After(tick[w]), w, sched)
<1> DEFINE pass == tick[w]
           p == After(pass)
<1>1. CASE p = NoPass
  BY <1>1, IdleFits
<1>2. CASE p # NoPass
  <2>1. /\ p.at = pass.at /\ p.row = pass.row /\ Rest(p) \subseteq Nat
        /\ \A i \in Rest(p) : i + 1 \in Rest(pass) /\ p.due[i] = pass.due[i + 1]
    BY <1>2, AfterIs
  <2> HIDE DEF p
  <2>2. /\ pass.row.next <= pass.at /\ pass.at <= now /\ pass.row.next <= sched.next
        /\ ~torn /\ pass.row.next = sched.next => pass.row.cron = sched.cron
    BY DEF OnceInv, PassesAreDue, IsAhead
  <2>3. \A i \in Rest(pass) :
          pass.due[i] <= pass.at /\ pass.due[i] < sched.next /\ fired[pass.due[i]] = 0
    BY DEF OnceInv, PlansAreApart, IsAhead
  <2>4. \A i, j \in Rest(p) : p.due[i] = p.due[j] => i = j
    <3> SUFFICES ASSUME NEW i \in Rest(p), NEW j \in Rest(p), p.due[i] = p.due[j] PROVE i = j
      OBVIOUS
    <3>1. i + 1 = j + 1
      BY <2>1 DEF OnceInv, PlansAreApart
    <3> QED BY <3>1, <2>1
  <2>5. \A v \in Tickers \ {w} : \A i \in Rest(p), j \in Rest(tick[v]) :
          p.due[i] # tick[v].due[j]
    BY <2>1 DEF OnceInv, PlansAreApart
  <2> HIDE DEF pass
  <2>6. /\ p.row.next <= p.at /\ p.at <= now /\ p.row.next <= sched.next
        /\ ~torn /\ p.row.next = sched.next => p.row.cron = sched.cron
    BY <2>1, <2>2
  <2>7. \A i \in Rest(p) : p.due[i] <= p.at /\ p.due[i] < sched.next /\ fired[p.due[i]] = 0
    BY <2>1, <2>3
  <2>8. Fits(p, w, sched)
    BY <2>4, <2>5, <2>6, <2>7 DEF Fits
  <2> QED BY <2>8 DEF p, pass
<1> QED BY <1>1, <1>2

LEMMA SentKeeps == ASSUME CronInv, NEW w \in Tickers, Sent(w) PROVE CronInv'
<1>1. /\ tick[w].pc = "send" /\ CronShape /\ tick' = [tick EXCEPT ![w] = After(tick[w])]
      /\ UNCHANGED <<sched, rowLock, now, fired, blind, failed, edit, torn>>
  BY DEF Sent, CronInv, CronShape
<1>2. CronShape'
  BY <1>1, AfterIs, ShapeKeeps DEF CronShape
<1>3. ASSUME ~blind PROVE OnceInv'
  <2>1. OnceInv /\ IsAhead(sched) /\ OfTheCron(sched) /\ sched' = sched
    BY <1>1, <1>3 DEF CronInv, OnceInv
  <2> QED BY <1>1, <2>1, AfterFits, OnceKeeps
<1> QED BY <1>1, <1>2, <1>3 DEF CronInv

\* The unconditional update writes an instant of the cron the pass has read;
\* what it writes over is what it has seen, or the hazard is recorded.
LEMMA OverwriteIs ==
  ASSUME CronInv, NEW w \in Tickers, tick[w].pc # "idle", NEW seen, Overwrite(w, seen)
  PROVE  /\ sched' \in Row
         /\ sched'.next = NextRun(tick[w].row.cron, tick[w].at) /\ sched'.cron = sched.cron
         /\ sched'.next # 0 /\ sched'.next > tick[w].at
         /\ \E c \in Crons : sched'.next \in 1 .. CronHorizon + c.period
         /\ Hits(tick[w].row.cron, sched'.next)
         /\ blind' \in BOOLEAN /\ (~blind' => ~blind /\ sched.next \in seen)
<1> DEFINE next == NextRun(tick[w].row.cron, tick[w].at)
<1>1. /\ next \in Nat \ {0} /\ next > tick[w].at /\ Hits(tick[w].row.cron, next)
      /\ \E c \in Crons : next \in 1 .. CronHorizon + c.period
  BY PassIs, NextRunFits DEF CronInv
<1>2. sched' = [sched EXCEPT !.next = next] /\ blind' = (blind \/ sched.next \notin seen)
  BY DEF Overwrite
<1> HIDE DEF next
<1>3. sched' \in Row
      /\ sched'.next = next /\ sched'.cron = sched.cron
  BY <1>1, <1>2 DEF CronInv, CronShape, Row
<1>4. blind' \in BOOLEAN /\ (~blind' => ~blind /\ sched.next \in seen)
  BY <1>2 DEF CronInv, CronShape
<1> QED BY <1>1, <1>3, <1>4 DEF next

LEMMA SendFailsKeeps == ASSUME CronInv, NEW w \in Tickers, SendFails(w) PROVE CronInv'
<1> DEFINE seen == {NextRun(tick[w].row.cron, tick[w].at)}
<1>1. /\ tick[w].pc = "send" /\ CronShape /\ tick' = [tick EXCEPT ![w] = After(tick[w])]
      /\ Fault /\ Overwrite(w, seen) /\ UNCHANGED <<rowLock, now, fired, edit, torn>>
  BY DEF SendFails, CronInv, CronShape
<1>2. /\ sched' \in Row
      /\ sched'.next = NextRun(tick[w].row.cron, tick[w].at) /\ sched'.cron = sched.cron
      /\ sched'.next # 0 /\ \E c \in Crons : sched'.next \in 1 .. CronHorizon + c.period
      /\ blind' \in BOOLEAN /\ (~blind' => ~blind /\ sched.next \in seen)
  <2> HIDE DEF seen
  <2> QED BY <1>1, OverwriteIs
<1>3. CronShape'
  BY <1>1, <1>2, AfterIs, FailedIs, ShapeKeeps DEF CronShape
<1>4. ASSUME ~blind' PROVE OnceInv'
  <2>1. OnceInv /\ IsAhead(sched) /\ OfTheCron(sched) /\ Fits(After(tick[w]), w, sched)
    BY <1>1, <1>2, <1>4, AfterFits DEF CronInv, OnceInv
  <2>2. sched'.next = sched.next /\ sched'.cron = sched.cron
    BY <1>2, <1>4
  <2>3. IsAhead(sched') /\ OfTheCron(sched') /\ Fits(After(tick[w]), w, sched')
    BY <2>1, <2>2 DEF IsAhead, OfTheCron, Fits
  <2> QED BY <1>1, <2>1, <2>3, OnceKeeps
<1> QED BY <1>3, <1>4 DEF CronInv

LEMMA GiveUpKeeps == ASSUME CronInv, NEW w \in Tickers, GiveUp(w) PROVE CronInv'
<1> DEFINE next == NextRun(tick[w].row.cron, tick[w].at)
           seen == {tick[w].row.next, next}
<1>1. /\ tick[w].pc # "idle" /\ CronShape /\ tick' = [tick EXCEPT ![w] = NoPass]
      /\ rowLock' \in {rowLock, NoTicker}
      /\ Fault /\ Overwrite(w, seen) /\ UNCHANGED <<now, fired, edit, torn>>
  BY DEF GiveUp, Leave, Unlock, CronInv
<1>2. /\ sched' \in Row
      /\ sched'.next = next /\ sched'.cron = sched.cron
      /\ sched'.next # 0 /\ sched'.next > tick[w].at
      /\ \E c \in Crons : sched'.next \in 1 .. CronHorizon + c.period
      /\ Hits(tick[w].row.cron, sched'.next)
      /\ blind' \in BOOLEAN /\ (~blind' => ~blind /\ sched.next \in seen)
  <2> HIDE DEF seen
  <2> QED BY <1>1, OverwriteIs
<1>3. NoPass \in Passes /\ Len(NoPass.due) <= MaxCatchUp /\ NoPass.pc \notin {"fire", "send"}
  BY NoPassIs
<1>4. CronShape'
  BY <1>1, <1>2, <1>3, FailedIs, ShapeKeeps DEF CronShape
<1>5. ASSUME ~blind' PROVE OnceInv'
  <2>1. OnceInv /\ IsAhead(sched) /\ OfTheCron(sched)
    BY <1>2, <1>5 DEF CronInv, OnceInv
  <2>2. sched.next = tick[w].row.next \/ sched.next = next
    BY <1>2, <1>5
  <2>3. sched.next = tick[w].row.next =>
          (~torn => tick[w].row.cron = sched.cron) /\ sched.next <= tick[w].at
    BY <1>1, <2>1 DEF IsAhead, OnceInv, PassesAreDue
  <2>4. sched'.next \in Nat /\ sched.next \in Nat /\ tick[w].at \in Nat
    BY <1>1, <1>2, PassIs, CronTypes
  <2>5. sched'.next = sched.next \/ sched'.next > sched.next
    BY <1>2, <2>2, <2>3, <2>4
  <2>6. IsAhead(sched')
    BY <1>1, <1>2, <2>1, <2>4, <2>5, StaysAhead
  <2>7. OfTheCron(sched')
    BY <1>2, <2>1, <2>2, <2>3 DEF OfTheCron
  <2> QED BY <1>1, <2>1, <2>6, <2>7, IdleFits, OnceKeeps
<1> QED BY <1>4, <1>5 DEF CronInv

-----------------------------------------------------------------------------
(***************************************************************************)
(* The schedule is edited, and time passes.                                *)
(***************************************************************************)

\* A row that keeps its cron and its instant, or gets an instant after now.
LEMMA RowKeeps ==
  ASSUME CronInv, NEW row \in Row, sched' = row, row.next # 0,
         \/ Pair(row) = Pair(sched)
         \/ /\ \E c \in Crons : row.next \in 1 .. CronHorizon + c.period
            /\ blind' \/ row.next > now \/ (row.next = sched.next /\ torn')
            /\ blind' \/ torn' \/ Hits(row.cron, row.next),
         blind => blind', torn => torn', blind' \in BOOLEAN, torn' \in BOOLEAN,
         UNCHANGED <<tick, rowLock, now, fired, failed>>, EditsFit'
  PROVE  CronInv'
<1>1. CronShape /\ sched \in Row /\ sched.next \in Nat /\ row.next \in Nat /\ now \in Nat
  BY CronTypes DEF CronInv, CronShape, Row
<1>2. Pair(row) = Pair(sched) => row.next = sched.next /\ row.cron = sched.cron
  BY DEF Pair
<1>3. CronShape'
  <2>1. \E c \in Crons : row.next \in 1 .. CronHorizon + c.period
    BY <1>1, <1>2 DEF CronShape
  <2> QED BY <1>1, <2>1 DEF CronShape
<1>4. ASSUME ~blind' PROVE OnceInv'
  <2>1. OnceInv
    BY <1>4 DEF CronInv
  <2>2. torn' \/ Hits(row.cron, row.next) \/ row.next = 0
    BY <1>2, <1>4, <2>1 DEF OnceInv, OfTheCron
  <2>3. CASE row.next > now \/ Pair(row) = Pair(sched)
    <3>1. IsAhead(row)
      BY <1>1, <1>2, <2>1, <2>3, StaysAhead
    <3> QED BY <2>1, <2>2, <3>1 DEF OnceInv, PassesAreDue, IsAhead, PlansAreApart, FiredIsOver,
               OfTheCron
  <2>4. CASE row.next = sched.next /\ torn'
    BY <2>1, <2>4 DEF OnceInv, PassesAreDue, IsAhead, PlansAreApart, FiredIsOver, OfTheCron
  <2> QED BY <1>4, <2>3, <2>4
<1> QED BY <1>3, <1>4 DEF CronInv

LEMMA CreateKeeps == ASSUME CronInv, CreateSchedule PROVE CronInv'
<1>1. PICK c \in Crons, p \in Policies, on \in BOOLEAN :
        sched' = [next |-> NextRun(c, now), cron |-> c, policy |-> p, on |-> on]
  BY DEF CreateSchedule
<1> DEFINE next == NextRun(c, now)
           row == [next |-> next, cron |-> c, policy |-> p, on |-> on]
<1>2. UNCHANGED <<tick, edit, rowLock, now, fired, blind, torn, failed>> /\ CronShape
  BY DEF CreateSchedule, CronInv
<1>3. /\ next \in Nat \ {0} /\ next > now /\ Hits(c, next)
      /\ \E d \in Crons : next \in 1 .. CronHorizon + d.period
  BY <1>2, NextRunFits DEF CronShape
<1> HIDE DEF next
<1>4. row \in Row /\ row.next = next /\ row.cron = c
  BY <1>3 DEF Row
<1>5. sched' = row
  BY <1>1 DEF next
<1>6. EditsFit'
  BY <1>2, <1>3, <1>5 DEF CronShape, EditsFit
<1> HIDE DEF row
<1> QED BY <1>2, <1>3, <1>4, <1>5, <1>6, RowKeeps DEF CronShape

LEMMA ReadForEditKeeps ==
  ASSUME CronInv, NEW e \in CronEditors, ReadForEdit(e) PROVE CronInv'
<1>1. UNCHANGED <<sched, tick, rowLock, now, fired, blind, torn, failed>> /\ CronShape
      /\ sched.next # 0 /\ sched \in Row
  BY DEF ReadForEdit, CronInv, CronShape
<1>2. PICK wants : /\ edit' = [edit EXCEPT ![e] = [pc |-> "read", seen |-> sched, wants |-> wants]]
                   /\ \/ \E c \in Crons : wants = [sched EXCEPT !.cron = c, !.next = NextRun(c, now)]
                      \/ \E p \in Policies : wants = [sched EXCEPT !.policy = p]
                      \/ wants = [sched EXCEPT !.on = ~@]
  BY DEF ReadForEdit, Recomputed
<1>3. /\ wants \in Row /\ wants.next # 0
      /\ \E c \in Crons : wants.next \in 1 .. CronHorizon + c.period
      /\ Pair(wants) # Pair(sched) => Hits(wants.cron, wants.next)
  <2>1. CASE \E c \in Crons : wants = [sched EXCEPT !.cron = c, !.next = NextRun(c, now)]
    <3>1. PICK c \in Crons : wants = [sched EXCEPT !.cron = c, !.next = NextRun(c, now)]
      BY <2>1
    <3> DEFINE next == NextRun(c, now)
    <3>2. /\ next \in Nat \ {0} /\ Hits(c, next)
          /\ \E d \in Crons : next \in 1 .. CronHorizon + d.period
      BY <1>1, NextRunFits DEF CronShape
    <3> HIDE DEF next
    <3>3. wants \in Row /\ wants.next = next /\ wants.cron = c
      BY <1>1, <3>1, <3>2 DEF next, Row
    <3> QED BY <3>2, <3>3
  <2>2. CASE ~ \E c \in Crons : wants = [sched EXCEPT !.cron = c, !.next = NextRun(c, now)]
    <3>1. wants \in Row /\ wants.next = sched.next /\ wants.cron = sched.cron
      BY <1>1, <1>2, <2>2 DEF Row
    <3> QED BY <1>1, <3>1 DEF Pair, CronShape
  <2> QED BY <2>1, <2>2
<1>4. EditsFit'
  <2>1. \A f \in CronEditors :
          edit'[f] = IF f = e THEN [pc |-> "read", seen |-> sched, wants |-> wants] ELSE edit[f]
    BY <1>1, <1>2 DEF CronShape, EditsFit
  <2>2. edit' = [f \in CronEditors |-> edit'[f]]
    BY <1>1, <1>2 DEF CronShape, EditsFit
  <2> QED BY <1>1, <1>3, <2>1, <2>2 DEF CronShape, EditsFit, Pair
<1> QED BY <1>1, <1>4 DEF CronInv, CronShape, OnceInv, PassesAreDue, IsAhead, PlansAreApart,
           FiredIsOver, OfTheCron

\* The columns of the row after the update are those of one row or the other.
LEMMA MergedIs ==
  ASSUME NEW seen \in Row, NEW wants \in Row, NEW is \in Row
  PROVE  /\ Merged(seen, wants, is) \in Row
         /\ Merged(seen, wants, is).next \in {wants.next, is.next}
         /\ Pair(wants) = Pair(seen) => Pair(Merged(seen, wants, is)) = Pair(is)
<1> DEFINE cron == MergedCron(seen.cron, wants.cron, is.cron)
           expr == IF <<wants.cron.period, wants.cron.at>> = <<seen.cron.period, seen.cron.at>>
                   THEN is.cron ELSE wants.cron
           zone == Changed(seen.cron.zone, wants.cron.zone, is.cron.zone)
<1>1. wants.cron \in Crons /\ is.cron \in Crons /\ seen.cron \in Crons
  BY DEF Row
<1>2. expr \in Crons /\ zone \in CronZones
  BY <1>1, CronsAre DEF Changed
<1>3. cron = [expr EXCEPT !.zone = zone]
  BY DEF MergedCron
<1>4. cron \in Crons
  <2> HIDE DEF expr, zone, cron
  <2>1. PICK f \in CronExprs, y \in CronZones : expr = [period |-> f.period, at |-> f.at, zone |-> y]
    BY <1>2 DEF Crons
  <2>2. cron = [period |-> f.period, at |-> f.at, zone |-> zone]
    BY <1>3, <2>1
  <2> QED BY <1>2, <2>2 DEF Crons
<1>5. wants.cron = seen.cron => cron = is.cron
  <2> SUFFICES ASSUME wants.cron = seen.cron PROVE cron = is.cron
    OBVIOUS
  <2>1. expr = is.cron /\ zone = is.cron.zone
    BY DEF Changed
  <2> HIDE DEF expr, zone, cron
  <2>2. PICK f \in CronExprs, y \in CronZones :
          is.cron = [period |-> f.period, at |-> f.at, zone |-> y]
    BY <1>1 DEF Crons
  <2> QED BY <1>3, <2>1, <2>2
<1> HIDE DEF cron
<1>6. Merged(seen, wants, is) =
        [next |-> Changed(seen.next, wants.next, is.next), cron |-> cron,
         policy |-> Changed(seen.policy, wants.policy, is.policy),
         on |-> Changed(seen.on, wants.on, is.on)]
  BY DEF Merged, cron
<1>7. /\ Changed(seen.next, wants.next, is.next) \in Nat
      /\ Changed(seen.policy, wants.policy, is.policy) \in Policies
      /\ Changed(seen.on, wants.on, is.on) \in BOOLEAN
      /\ Changed(seen.next, wants.next, is.next) \in {wants.next, is.next}
      /\ wants.next = seen.next => Changed(seen.next, wants.next, is.next) = is.next
  BY DEF Row, Changed
<1> QED BY <1>4, <1>5, <1>6, <1>7 DEF Row, Pair

LEMMA StoreEditKeeps ==
  ASSUME CronInv, NEW e \in CronEditors, StoreEdit(e) PROVE CronInv'
<1> DEFINE seen == edit[e].seen
           wants == edit[e].wants
           new == Merged(seen, wants, sched)
<1>1. /\ edit[e].pc = "read" /\ sched' = new
      /\ blind' = (blind \/ (Pair(new) # Pair(sched) /\ wants.next <= now))
      /\ torn' = (torn \/ Pair(new) \notin {Pair(wants), Pair(sched)})
      /\ edit' = [edit EXCEPT ![e] = [pc |-> "done"]]
      /\ UNCHANGED <<tick, rowLock, now, fired, failed>>
  BY DEF StoreEdit
<1>2. /\ CronShape /\ sched \in Row /\ sched.next # 0 /\ EditsFit
      /\ seen \in Row /\ wants \in Row /\ wants.next # 0
      /\ \E c \in Crons : wants.next \in 1 .. CronHorizon + c.period
      /\ Pair(wants) # Pair(seen) => Hits(wants.cron, wants.next)
      /\ \E c \in Crons : sched.next \in 1 .. CronHorizon + c.period
      /\ blind \in BOOLEAN /\ torn \in BOOLEAN
  BY <1>1 DEF CronInv, CronShape, EditsFit
<1> HIDE DEF seen, wants
<1>3. /\ new \in Row /\ new.next \in {wants.next, sched.next}
      /\ Pair(wants) = Pair(seen) => Pair(new) = Pair(sched)
  BY <1>2, MergedIs
<1> HIDE DEF new
<1>4. /\ new.next # 0 /\ \E c \in Crons : new.next \in 1 .. CronHorizon + c.period
  BY <1>2, <1>3
<1>5. EditsFit'
  <2>1. /\ \A f \in CronEditors : edit'[f] = IF f = e THEN [pc |-> "done"] ELSE edit[f]
        /\ edit' = [f \in CronEditors |-> edit'[f]]
    BY <1>1, <1>2 DEF EditsFit
  <2> QED BY <1>1, <1>2, <1>4, <2>1 DEF EditsFit
<1>6. ASSUME Pair(new) # Pair(sched), ~blind', ~torn'
      PROVE  new.next > now /\ Hits(new.cron, new.next)
  <2>1. Pair(new) = Pair(wants) /\ ~(wants.next <= now) /\ Pair(wants) # Pair(seen)
    BY <1>1, <1>3, <1>6
  <2>2. new.next = wants.next /\ new.cron = wants.cron
    BY <2>1 DEF Pair
  <2>3. wants.next \in Nat /\ now \in Nat
    BY <1>2, CronTypes DEF Row
  <2> QED BY <1>2, <2>1, <2>2, <2>3
<1>7. ASSUME Pair(new) # Pair(sched), ~blind', torn'
      PROVE  new.next > now \/ new.next = sched.next
  <2>1. ~(wants.next <= now) /\ wants.next \in Nat /\ now \in Nat
    BY <1>1, <1>2, <1>7, CronTypes DEF Row
  <2> QED BY <1>3, <2>1
<1>8. blind' \in BOOLEAN /\ torn' \in BOOLEAN
  BY <1>1, <1>2
<1> QED BY <1>1, <1>2, <1>3, <1>4, <1>5, <1>6, <1>7, <1>8, RowKeeps

\* Time passes, or a lock is lost.
LEMMA ClockKeeps ==
  ASSUME CronInv, Pass \/ (\E w \in Tickers : LoseLock(w)) PROVE CronInv'
<1>1. /\ UNCHANGED <<sched, tick, fired, blind, failed, edit, torn>> /\ CronShape
      /\ rowLock' \in {rowLock, NoTicker} /\ (now' = now \/ (now < CronHorizon /\ now' = now + 1))
  BY DEF Pass, LoseLock, CronInv
<1>2. now \in Nat \ {0} /\ now' \in Times /\ now <= now' /\ now' \in Nat
  BY <1>1, CronTypes, CronNumbers DEF Times
<1>3. CronShape'
  BY <1>1, <1>2 DEF CronShape, EditsFit
<1>4. ASSUME ~blind PROVE OnceInv'
  <2>1. OnceInv
    BY <1>4 DEF CronInv
  <2>2. PassesAreDue'
    <3> SUFFICES ASSUME NEW w \in Tickers, tick[w].pc # "idle"
                 PROVE  tick[w].row.next <= tick[w].at /\ tick[w].at <= now'
      BY <1>1 DEF PassesAreDue
    <3>1. tick[w].row.next <= tick[w].at /\ tick[w].at <= now
      BY <2>1 DEF OnceInv, PassesAreDue
    <3> QED BY <1>1, <1>2, <3>1, PassIs
  <2>3. FiredIsOver'
    <3> SUFFICES ASSUME NEW t \in Times PROVE fired[t] <= 1 /\ (fired[t] > 0 => t <= now')
      BY <1>1 DEF FiredIsOver
    <3>1. fired[t] <= 1 /\ (fired[t] > 0 => t <= now)
      BY <2>1 DEF OnceInv, FiredIsOver
    <3> QED BY <1>1, <1>2, <3>1, CronTypes
  <2>4. IsAhead(sched)' /\ PlansAreApart' /\ OfTheCron(sched)'
    BY <1>1, <2>1 DEF OnceInv, IsAhead, PlansAreApart, OfTheCron
  <2> QED BY <2>2, <2>3, <2>4 DEF OnceInv
<1> QED BY <1>1, <1>3, <1>4 DEF CronInv

LEMMA InitCron == ScheduleInit => CronInv
<1> SUFFICES ASSUME ScheduleInit PROVE CronInv
  OBVIOUS
<1>1. (CHOOSE c \in Crons : TRUE) \in Crons
  BY CronsAre
<1>2. sched \in Row
      /\ sched.next = 0 /\ ~sched.on
  BY <1>1 DEF ScheduleInit, Policies, Row
<1>3. tick \in [Tickers -> Passes] /\ \A w \in Tickers : tick[w] = NoPass
  BY NoPassIs DEF ScheduleInit
<1>4. fired \in [Times -> Nat] /\ \A t \in Times : fired[t] = 0
  BY DEF ScheduleInit
<1>5. now \in Times /\ failed \in 0 .. CronFaults
  BY CronNumbers DEF ScheduleInit, Times
<1>6. rowLock = NoTicker /\ blind \in BOOLEAN /\ torn \in BOOLEAN /\ EditsFit
  BY DEF ScheduleInit, EditsFit, NoEdit
<1>7. CronShape
  BY <1>2, <1>3, <1>4, <1>5, <1>6, NoPassIs DEF CronShape
<1>8. OnceInv
  BY <1>2, <1>3, <1>4, NoPassIs
     DEF OnceInv, PassesAreDue, IsAhead, PlansAreApart, FiredIsOver, OfTheCron
<1> QED BY <1>7, <1>8 DEF CronInv

LEMMA NextCron == CronInv /\ [ScheduleNext]_cronVars => CronInv'
<1> SUFFICES ASSUME CronInv, [ScheduleNext]_cronVars PROVE CronInv'
  OBVIOUS
<1>1. CASE UNCHANGED cronVars
  BY <1>1 DEF cronVars, CronInv, CronShape, EditsFit, OnceInv, PassesAreDue, IsAhead, PlansAreApart,
     FiredIsOver, OfTheCron
<1> QED BY <1>1, FindKeeps, EndOfPassKeeps, ClaimKeeps, CreateRunKeeps, SentKeeps,
           SendFailsKeeps, GiveUpKeeps, CreateKeeps, ReadForEditKeeps,
           StoreEditKeeps, ClockKeeps DEF ScheduleNext

LEMMA CronInvariant == ScheduleSpec => []CronInv
BY InitCron, NextCron, PTL DEF ScheduleSpec

LEMMA CronInvIsTyped == CronInv => ScheduleTypeOK
<1> SUFFICES ASSUME CronInv PROVE ScheduleTypeOK
  OBVIOUS
<1>1. \A w \in Tickers : tick[w].pc \in {"idle", "found", "fire", "send"}
  BY NoPassIs DEF CronInv, CronShape, Passes, ActivePass
<1> QED BY <1>1 DEF CronInv, CronShape, EditsFit, Row, ScheduleTypeOK

\* Passes and edits leave the row, what they carry and what they plan well
\* formed (fire_due_schedules, update_schedule).
THEOREM ScheduleTypeCorrect == ScheduleSpec => []ScheduleTypeOK
BY CronInvIsTyped, CronInvariant, PTL

\* No instant gets two runs, however many workers run the cron, whatever
\* crons the schedule is given, however many requests edit it and passes
\* crash, unless a blind write has set the schedule back (fire_due_schedules,
\* update_after_fire).
THEOREM FiresOnce == ScheduleSpec => []SlotsFireOnce
<1>1. CronInv => SlotsFireOnce
  BY DEF CronInv, OnceInv, FiredIsOver, SlotsFireOnce
<1> QED BY <1>1, CronInvariant, PTL

\* However many passes and edits interleave, the next instant is one of the
\* cron_expr and the timezone the row has, unless an edit tore the row or a
\* write was blind (update_schedule, update_after_fire).
THEOREM NextHolds == ScheduleSpec => []NextIsOfTheCron
<1>1. CronInv => NextIsOfTheCron
  BY DEF CronInv, OnceInv, OfTheCron, NextIsOfTheCron
<1> QED BY <1>1, CronInvariant, PTL
===============================================================================
