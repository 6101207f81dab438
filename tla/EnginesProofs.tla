---------------------------- MODULE EnginesProofs ----------------------------
(***************************************************************************)
(* Lemmas about the engines, for any calendar and any case: where the      *)
(* calendar's slots lie, what the rules fire and how they are folded, and  *)
(* what a plan is made of.                                                 *)
(***************************************************************************)
EXTENDS Planner, FiniteSetTheorems, WellFoundedInduction, TLAPS

-----------------------------------------------------------------------------
(* The least and the greatest of a set                                     *)

\* Every set of natural numbers has a least one.
LEMMA MinOfNats ==
    ASSUME NEW S, S \subseteq Nat, S # {}
    PROVE  Min(S) \in S /\ \A y \in S : Min(S) <= y
<1>1. PICK x \in S : \A y \in S : ~(<<y, x>> \in OpToRel(<, Nat))
  BY NatLessThanWellFounded, WFMin
<1>2. \A y \in S : ~(y < x)
  BY <1>1 DEF OpToRel
<1>3. \A y \in S : x =< y
  BY <1>2
<1>4. \E z \in S : \A y \in S : z =< y
  BY <1>3
<1> QED BY <1>4 DEF Min

\* A set that has a greatest element has it as its maximum.
LEMMA MaxIsGreatest ==
    ASSUME NEW S, NEW x \in S, S \subseteq Int, \A y \in S : y <= x
    PROVE  Max(S) = x
<1>1. \E z \in S : \A y \in S : z >= y
  OBVIOUS
<1>2. Max(S) \in S /\ \A y \in S : Max(S) >= y
  BY <1>1 DEF Max
<1>3. Max(S) \in Int /\ x \in Int /\ Max(S) >= x /\ Max(S) <= x
  BY <1>2
<1> QED BY <1>3

\* Every finite set of integers has a greatest one: a smallest one that had none would
\* have one without any of its elements.
LEMMA MaxOfFinite ==
    ASSUME NEW S, S \subseteq Int, IsFiniteSet(S), S # {}
    PROVE  Max(S) \in S /\ \A y \in S : y <= Max(S)
<1> DEFINE Bad(n) == \E T \in SUBSET Int :
              /\ IsFiniteSet(T) /\ Cardinality(T) = n /\ T # {}
              /\ ~\E z \in T : \A y \in T : z >= y
           B == {n \in Nat : Bad(n)}
<1>1. ASSUME B # {} PROVE FALSE
  <2>1. PICK n \in B : \A m \in B : ~(<<m, n>> \in OpToRel(<, Nat))
    <3> HIDE DEF B
    <3>1. B \subseteq Nat
      BY DEF B
    <3> QED BY <1>1, <3>1, NatLessThanWellFounded, WFMin
  <2>2. PICK T \in SUBSET Int :
            /\ IsFiniteSet(T) /\ Cardinality(T) = n /\ T # {}
            /\ ~\E z \in T : \A y \in T : z >= y
    BY <2>1
  <2>3. PICK x \in T : TRUE
    BY <2>2
  <2>4. IsFiniteSet(T \ {x}) /\ Cardinality(T \ {x}) = n - 1 /\ n \in Nat
    BY <2>1, <2>2, <2>3, FS_RemoveElement
  <2>5. T \ {x} # {}
    <3>1. SUFFICES ASSUME T = {x} PROVE FALSE
      BY <2>3
    <3>2. \A y \in T : x >= y
      BY <2>2, <3>1
    <3> QED BY <2>2, <2>3, <3>2
  <2>6. n - 1 \in Nat
    BY <2>4, FS_CardinalityType
  <2>7. n - 1 \notin B
    <3> HIDE DEF B
    <3>1. \A m \in B : m \in Nat /\ n \in Nat => ~(m < n)
      BY <2>1 DEF OpToRel
    <3> QED BY <2>4, <2>6, <3>1
  <2>8. PICK z \in T \ {x} : \A y \in T \ {x} : z >= y
    BY <2>2, <2>4, <2>5, <2>6, <2>7
  <2>9. CASE z >= x
    BY <2>2, <2>3, <2>8, <2>9
  <2>10. CASE ~(z >= x)
    <3>1. x \in Int /\ z \in Int
      BY <2>2, <2>3, <2>8
    <3>2. \A y \in T : x >= y
      <4>1. TAKE y \in T
      <4>2. y \in Int
        BY <2>2, <4>1
      <4>3. y = x \/ z >= y
        BY <2>8, <4>1
      <4> QED BY <2>10, <3>1, <4>2, <4>3
    <3> QED BY <2>2, <2>3, <3>2
  <2> QED BY <2>9, <2>10
<1>2. Cardinality(S) \notin B
  BY <1>1
<1>3. Cardinality(S) \in Nat
  BY FS_CardinalityType
<1>4. \E z \in S : \A y \in S : z >= y
  BY <1>2, <1>3
<1>5. Max(S) \in S /\ \A y \in S : Max(S) >= y
  BY <1>4 DEF Max
<1>6. Max(S) \in Int
  BY <1>5
<1> QED BY <1>5, <1>6

\* Two integers, one of them the greater.
LEMMA MaxOfTwo ==
    ASSUME NEW a \in Int, NEW b \in Int
    PROVE  /\ Max({a, b}) \in {a, b} /\ Max({a, b}) >= a /\ Max({a, b}) >= b
           /\ Min({a, b}) \in {a, b} /\ Min({a, b}) <= a /\ Min({a, b}) <= b
<1>1. \E z \in {a, b} : \A y \in {a, b} : z >= y
  <2>1. CASE a >= b
    BY <2>1
  <2>2. CASE ~(a >= b)
    BY <2>2
  <2> QED BY <2>1, <2>2
<1>2. \E z \in {a, b} : \A y \in {a, b} : z =< y
  <2>1. CASE a =< b
    BY <2>1
  <2>2. CASE ~(a =< b)
    BY <2>2
  <2> QED BY <2>1, <2>2
<1>3. Max({a, b}) \in {a, b} /\ \A y \in {a, b} : Max({a, b}) >= y
  BY <1>1 DEF Max
<1>4. Min({a, b}) \in {a, b} /\ \A y \in {a, b} : Min({a, b}) =< y
  BY <1>2 DEF Min
<1> QED BY <1>3, <1>4

\* A score is kept within its bounds.
LEMMA ClampBounds ==
    ASSUME NEW v \in Int, NEW low \in Int, NEW high \in Int, low <= high
    PROVE  Clamp(v, low, high) \in low .. high
<1> DEFINE m == Min({high, v})
<1>1. m \in Int /\ m <= high
  BY MaxOfTwo
<1>2. Max({low, m}) \in {low, m} /\ Max({low, m}) >= low
  <2> HIDE DEF m
  <2> QED BY <1>1, MaxOfTwo
<1>3. Max({low, m}) \in low .. high
  <2> HIDE DEF m
  <2> QED BY <1>1, <1>2
<1> QED BY <1>3 DEF Clamp

-----------------------------------------------------------------------------
(* The calendar                                                            *)

\* A day is a whole number of cycles and a rest.
LEMMA DivMod ==
    ASSUME NEW d \in Int, NEW n \in Nat \ {0}
    PROVE  d \div n \in Int /\ d % n \in 0 .. n - 1 /\ d = n * (d \div n) + (d % n)
OBVIOUS

\* A rest is unique.
LEMMA ModUnique ==
    ASSUME NEW n \in Nat \ {0}, NEW p \in Int, NEW q \in Int,
           NEW a \in 0 .. n - 1, NEW b \in 0 .. n - 1, n * p + a = n * q + b
    PROVE  a = b
<1> DEFINE e == p - q
<1>1. e \in Int /\ n * e = b - a
  BY Z3
<1>2. CASE e >= 1
  <2>1. n * e >= n
    BY <1>1, <1>2, Z3
  <2> QED BY <1>1, <2>1
<1>3. CASE e <= -1
  <2>1. n * e <= -n
    BY <1>1, <1>3, Z3
  <2> QED BY <1>1, <2>1
<1>4. CASE e = 0
  BY <1>1, <1>4
<1> QED BY <1>1, <1>2, <1>3, <1>4

\* The day of the cycle some days later.
LEMMA ModAdd ==
    ASSUME NEW n \in Nat \ {0}, NEW d \in Nat, NEW k \in Nat
    PROVE  (d + k) % n = ((d % n) + k) % n
<1> DEFINE r == (d % n) + k
           e == d + k
<1>1. d = n * (d \div n) + (d % n) /\ d \div n \in Int /\ d % n \in Nat
  BY DivMod
<1>2. r \in Int /\ e \in Int
  BY <1>1
<1>3. /\ r = n * (r \div n) + (r % n) /\ r \div n \in Int /\ r % n \in 0 .. n - 1
      /\ e = n * (e \div n) + (e % n) /\ e \div n \in Int /\ e % n \in 0 .. n - 1
  <2> HIDE DEF r, e
  <2> QED BY <1>2, DivMod
<1>4. e = n * (d \div n + r \div n) + (r % n)
  <2>1. e = n * (d \div n) + n * (r \div n) + (r % n)
    BY <1>1, <1>3
  <2>2. n * (d \div n + r \div n) = n * (d \div n) + n * (r \div n)
    BY <1>1, <1>3, Z3
  <2> QED BY <2>1, <2>2
<1>5. d \div n + r \div n \in Int
  BY <1>1, <1>3
<1>6. e % n = r % n
  <2> HIDE DEF r, e
  <2> QED BY <1>3, <1>4, <1>5, ModUnique
<1> QED BY <1>6

\* After every day there is a payday within forty days.
LEMMA PaydayComes ==
    ASSUME NEW d \in Nat
    PROVE  \E e \in d + 1 .. d + 39 : Payday(e)
<1>1. Cycle \in Nat \ {0} /\ d % Cycle \in 0 .. Cycle - 1
  BY CalendarShape, DivMod
<1>2. PICK k \in 1 .. 39 : MonthDay[((d % Cycle) + k) % Cycle] \in 1 .. 5
  BY <1>1, CalendarShape
<1>3. (d + k) % Cycle = ((d % Cycle) + k) % Cycle
  <2>1. k \in Nat
    OBVIOUS
  <2> QED BY <1>1, <2>1, ModAdd
<1>4. Payday(d + k) /\ d + k \in d + 1 .. d + 39
  BY <1>2, <1>3 DEF Payday, DateOf
<1> QED BY <1>4

\* A moment is on its day at its time.
LEMMA Moments ==
    /\ \A t \in Nat : DayOf(t) \in Nat /\ TimeOf(t) \in 0 .. 95 /\ t = At(DayOf(t), TimeOf(t))
    /\ \A d \in Nat, time \in 0 .. 95 :
          At(d, time) \in Nat /\ DayOf(At(d, time)) = d /\ TimeOf(At(d, time)) = time
BY DEF At, DayOf, TimeOf, Day

\* Days and times are ordered as moments are.
LEMMA DaysAreOrdered ==
    /\ \A s, t \in Nat : s <= t => DayOf(s) <= DayOf(t)
    /\ \A t \in Nat, d \in Nat, time \in 0 .. 95 :
          /\ d > DayOf(t) => At(d, time) > t
          /\ At(d, time) <= t => d <= DayOf(t)
BY DEF At, DayOf, Day

\* Constants of the day, in quarters.
LEMMA Quarters == Opens = 32 /\ Closes = 76 /\ Morning = 37 /\ PaydayOpens = 36 /\ PaydayCloses = 44
BY DEF Opens, Closes, Morning, PaydayOpens, PaydayCloses, Hour

\* The later of two moments.
LEMMA LaterOf ==
    ASSUME NEW s \in Int, NEW t \in Int
    PROVE  Later(s, t) \in {s, t} /\ Later(s, t) >= s /\ Later(s, t) >= t
BY DEF Later

\* The next business morning is a morning that is not over.
LEMMA BusinessMorningLies ==
    ASSUME NEW t \in Nat
    PROVE  /\ NextBusinessMorning(t) \in Nat /\ NextBusinessMorning(t) >= t
           /\ TimeOf(NextBusinessMorning(t)) = Morning
<1> DEFINE slots == {At(d, Morning) : d \in {e \in DayOf(t) .. DayOf(t) + 20 : BusinessDay(e)}}
           ahead == {slot \in slots : slot >= t}
<1>1. DayOf(t) \in Nat
  BY Moments
<1>2. \A slot \in ahead : slot \in Nat /\ slot >= t /\ TimeOf(slot) = Morning
  <2>1. TAKE slot \in ahead
  <2>2. PICK d \in DayOf(t) .. DayOf(t) + 20 : slot = At(d, Morning)
    BY <2>1
  <2>3. d \in Nat /\ Morning \in 0 .. 95
    BY <1>1, <2>2, Quarters
  <2>4. slot \in Nat /\ TimeOf(slot) = Morning
    BY <2>2, <2>3, Moments
  <2> QED BY <2>1, <2>4
<1>3. CASE ahead = {}
  <2>1. NextBusinessMorning(t) = At(DayOf(t) + 21, Morning)
    BY <1>3 DEF NextBusinessMorning
  <2>2. DayOf(t) + 21 \in Nat /\ Morning \in 0 .. 95 /\ DayOf(t) + 21 > DayOf(t)
    BY <1>1, Quarters
  <2>3. At(DayOf(t) + 21, Morning) > t /\ At(DayOf(t) + 21, Morning) \in Nat
        /\ TimeOf(At(DayOf(t) + 21, Morning)) = Morning
    BY <2>2, Moments, DaysAreOrdered
  <2> QED BY <2>1, <2>3
<1>4. CASE ahead # {}
  <2>1. NextBusinessMorning(t) = Min(ahead)
    BY <1>4 DEF NextBusinessMorning
  <2>2. Min(ahead) \in ahead
    <3> HIDE DEF ahead
    <3> QED BY <1>2, <1>4, MinOfNats
  <2> QED BY <1>2, <2>1, <2>2
<1> QED BY <1>3, <1>4

\* The business window moves a moment ahead, into the hours of contact.
LEMMA BusinessWindowLies ==
    ASSUME NEW t \in Nat
    PROVE  /\ BusinessWindow(t) \in Nat /\ BusinessWindow(t) >= t
           /\ InContactWindow(BusinessWindow(t))
<1>1. DayOf(t) \in Nat /\ TimeOf(t) \in 0 .. 95 /\ t = At(DayOf(t), TimeOf(t))
  BY Moments
<1>2. CASE ~BusinessDay(DayOf(t))
  BY <1>2, BusinessMorningLies, Quarters DEF BusinessWindow, InContactWindow
<1>3. CASE BusinessDay(DayOf(t)) /\ TimeOf(t) < Opens
  <2>1. BusinessWindow(t) = At(DayOf(t), Opens)
    BY <1>3 DEF BusinessWindow
  <2>2. At(DayOf(t), Opens) >= t
    BY <1>1, <1>3, Quarters DEF At, Day
  <2>3. At(DayOf(t), Opens) \in Nat /\ TimeOf(At(DayOf(t), Opens)) = Opens
    <3>1. Opens \in 0 .. 95
      BY Quarters
    <3> QED BY <1>1, <3>1, Moments
  <2> QED BY <2>1, <2>2, <2>3, Quarters DEF InContactWindow
<1>4. CASE BusinessDay(DayOf(t)) /\ TimeOf(t) >= Closes
  <2>1. BusinessWindow(t) = NextBusinessMorning(At(DayOf(t) + 1, 0))
    BY <1>1, <1>4, Quarters DEF BusinessWindow
  <2>2. At(DayOf(t) + 1, 0) \in Nat /\ At(DayOf(t) + 1, 0) > t
    <3>1. DayOf(t) + 1 \in Nat /\ 0 \in 0 .. 95 /\ DayOf(t) + 1 > DayOf(t)
      BY <1>1
    <3> QED BY <3>1, Moments, DaysAreOrdered
  <2>3. NextBusinessMorning(At(DayOf(t) + 1, 0)) \in Nat
    BY <2>2, BusinessMorningLies
  <2> QED BY <2>1, <2>2, <2>3, BusinessMorningLies, Quarters DEF InContactWindow
<1>5. CASE BusinessDay(DayOf(t)) /\ TimeOf(t) >= Opens /\ TimeOf(t) < Closes
  BY <1>1, <1>5, Quarters DEF BusinessWindow, InContactWindow
<1> QED BY <1>1, <1>2, <1>3, <1>4, <1>5, Quarters

\* The next payday slot lies ahead, in the morning of a payday.
LEMMA NextPaydayLies ==
    ASSUME NEW t \in Nat
    PROVE  /\ NextPaydaySlot(t) \in Nat /\ NextPaydaySlot(t) >= t
           /\ InPaydayWindow(NextPaydaySlot(t))
<1> DEFINE days == {e \in DayOf(t) .. DayOf(t) + 39 : Payday(e)}
           ahead == {slot \in {At(d, Morning) : d \in days} : slot >= t}
<1>1. DayOf(t) \in Nat
  BY Moments
<1>2. CASE InPaydayWindow(t)
  BY <1>2 DEF NextPaydaySlot
<1>3. CASE ~InPaydayWindow(t)
  <2>1. NextPaydaySlot(t) = Min(ahead)
    BY <1>3 DEF NextPaydaySlot
  <2>2. \A slot \in ahead : slot \in Nat /\ slot >= t /\ InPaydayWindow(slot)
    <3>1. TAKE slot \in ahead
    <3>2. PICK d \in days : slot = At(d, Morning)
      BY <3>1
    <3>3. d \in Nat /\ Payday(d) /\ slot >= t
      BY <1>1, <3>1, <3>2
    <3> QED BY <3>2, <3>3, Moments, Quarters DEF InPaydayWindow
  <2>3. ahead # {}
    <3>1. PICK e \in DayOf(t) + 1 .. DayOf(t) + 39 : Payday(e)
      BY <1>1, PaydayComes
    <3>2. e \in Nat /\ e > DayOf(t) /\ e \in days
      BY <1>1, <3>1
    <3>3. At(e, Morning) > t /\ At(e, Morning) \in Nat
      BY <3>2, DaysAreOrdered, Moments, Quarters
    <3>4. At(e, Morning) >= t
      BY <3>3
    <3>5. At(e, Morning) \in {At(d, Morning) : d \in days}
      BY <3>2
    <3> QED BY <3>4, <3>5
  <2>4. Min(ahead) \in ahead
    <3> HIDE DEF ahead
    <3> QED BY <2>2, <2>3, MinOfNats
  <2> QED BY <2>1, <2>2, <2>4
<1> QED BY <1>2, <1>3

\* The slot of a payday retry lies ahead, on a payday, in the hours of contact.
LEMMA PaydaySlotLies ==
    ASSUME NEW t \in Nat
    PROVE  /\ PaydaySlot(t) \in Nat /\ PaydaySlot(t) >= t
           /\ InPaydayWindow(PaydaySlot(t)) /\ InContactWindow(PaydaySlot(t))
<1> DEFINE a == NextPaydaySlot(t)
           b == BusinessWindow(a)
           c == NextPaydaySlot(b)
<1>1. a \in Nat /\ a >= t
  BY NextPaydayLies
<1>2. b \in Nat /\ b >= a
  <2> HIDE DEF a
  <2> QED BY <1>1, BusinessWindowLies
<1>3. c \in Nat /\ c >= b /\ InPaydayWindow(c)
  <2> HIDE DEF b
  <2> QED BY <1>2, NextPaydayLies
<1>4. TimeOf(c) \in 0 .. 95
  BY <1>3, Moments
<1>5. InContactWindow(c)
  BY <1>3, <1>4, Quarters DEF InPaydayWindow, InContactWindow
<1>6. PaydaySlot(t) = c
  BY DEF PaydaySlot
<1> HIDE DEF a, b, c
<1> QED BY <1>1, <1>2, <1>3, <1>5, <1>6

\* The clocks of the world are less than a day apart, and read there and back.
LEMMA ClocksAgree ==
    ASSUME NEW t \in Nat, t >= Day, NEW ahead \in Zones
    PROVE  /\ ToLocal(t, ahead) \in Nat
           /\ \A local \in Nat :
                 /\ ToLocal(FromLocal(local, ahead), ahead) = local
                 /\ local >= ToLocal(t, ahead) => FromLocal(local, ahead) \in Nat /\ FromLocal(local, ahead) >= t
BY DEF ToLocal, FromLocal, Zones, Day

\* The business window by the merchant's clock moves a moment ahead, into the hours of
\* contact by that clock.
LEMMA BusinessSlotLies ==
    ASSUME NEW t \in Nat, t >= Day, NEW ahead \in Zones
    PROVE  /\ BusinessSlot(t, ahead) \in Nat /\ BusinessSlot(t, ahead) >= t
           /\ InContactWindow(ToLocal(BusinessSlot(t, ahead), ahead))
<1> DEFINE local == ToLocal(t, ahead)
           slot == BusinessWindow(local)
<1>1. slot \in Nat /\ slot >= local /\ InContactWindow(slot)
  <2>1. local \in Nat
    BY ClocksAgree
  <2> HIDE DEF local
  <2> QED BY <2>1, BusinessWindowLies
<1>2. BusinessSlot(t, ahead) = FromLocal(slot, ahead)
  BY DEF BusinessSlot
<1> HIDE DEF slot
<1> QED BY <1>1, <1>2, ClocksAgree

\* The slot of a payday retry by the merchant's clock lies ahead, on a payday by that
\* clock, in its hours of contact.
LEMMA LocalPaydayLies ==
    ASSUME NEW t \in Nat, t >= Day, NEW ahead \in Zones
    PROVE  LET at == FromLocal(PaydaySlot(ToLocal(t, ahead)), ahead)
           IN  /\ at \in Nat /\ at >= t
               /\ InPaydayWindow(ToLocal(at, ahead)) /\ InContactWindow(ToLocal(at, ahead))
<1> DEFINE local == ToLocal(t, ahead)
           slot == PaydaySlot(local)
<1>1. slot \in Nat /\ slot >= local /\ InPaydayWindow(slot) /\ InContactWindow(slot)
  <2>1. local \in Nat
    BY ClocksAgree
  <2> HIDE DEF local
  <2> QED BY <2>1, PaydaySlotLies
<1>2. /\ FromLocal(slot, ahead) \in Nat /\ FromLocal(slot, ahead) >= t
      /\ ToLocal(FromLocal(slot, ahead), ahead) = slot
  <2> HIDE DEF slot
  <2> QED BY <1>1, ClocksAgree
<1> HIDE DEF slot
<1>3. /\ FromLocal(slot, ahead) \in Nat /\ FromLocal(slot, ahead) >= t
      /\ InPaydayWindow(ToLocal(FromLocal(slot, ahead), ahead))
      /\ InContactWindow(ToLocal(FromLocal(slot, ahead), ahead))
  BY <1>1, <1>2
<1> QED BY <1>3 DEF slot

-----------------------------------------------------------------------------
(* The diagnosis                                                           *)

\* a case as the database has it: finitely many payments and promises
Loaded(c) == c \in Case /\ IsFiniteSet(c.payments) /\ IsFiniteSet(c.promises)

\* The parts of a case.
LEMMA PartsOfCase ==
    ASSUME NEW c \in Case
    PROVE  /\ c.failure \in Failure /\ c.payments \subseteq Payment
           /\ c.promises \subseteq Promise /\ c.actions \in Seq(ActionRow) /\ c.ahead \in Zones
           /\ DOMAIN c.actions = 1 .. Len(c.actions) /\ Len(c.actions) \in Nat
           /\ \A i \in DOMAIN c.actions : c.actions[i] \in ActionRow
BY DEF Case

\* Success is a share of the payments before the failed one.
LEMMA RateIsNumber == ASSUME NEW c, Loaded(c) PROVE SuccessRate(c) \in Nat
<1>1. c.payments \subseteq Payment /\ IsFiniteSet(c.payments)
  BY PartsOfCase DEF Loaded
<1>2. Prior(c) \in SUBSET c.payments /\ PriorSuccesses(c) \in SUBSET c.payments
  BY DEF Prior, PriorSuccesses
<1>3. /\ IsFiniteSet(Prior(c)) /\ Cardinality(Prior(c)) \in Nat
      /\ Cardinality(PriorSuccesses(c)) \in Nat
  BY <1>1, <1>2, FS_Subset, FS_CardinalityType
<1>4. CASE Prior(c) = {}
  BY <1>4 DEF SuccessRate
<1>5. CASE Prior(c) # {}
  <2>1. Cardinality(Prior(c)) # 0
    BY <1>3, <1>5, FS_EmptySet
  <2>2. (10000 * Cardinality(PriorSuccesses(c))) \div Cardinality(Prior(c)) \in Nat
    <3> DEFINE a == 10000 * Cardinality(PriorSuccesses(c))
               b == Cardinality(Prior(c))
    <3>1. a \in Nat /\ b \in Nat \ {0}
      BY <1>3, <2>1
    <3>2. a \div b \in Nat
      <4> HIDE DEF a, b
      <4> QED BY <3>1
    <3> QED BY <3>2
  <2> QED BY <1>5, <2>2 DEF SuccessRate
<1> QED BY <1>4, <1>5

\* Every try counts once.
LEMMA RetryCountIs ==
    ASSUME NEW c \in Case
    PROVE  /\ RetryCount(c) \in Nat
           /\ \A e \in Case : e.failure = c.failure /\ Len(e.actions) >= Len(c.actions)
                                 => RetryCount(e) >= RetryCount(c)
<1>1. \A e \in Case : Max({0, e.failure.attempt - 1}) \in Nat /\ Len(e.actions) \in Nat
  <2>1. TAKE e \in Case
  <2>2. e.failure.attempt - 1 \in Int
    BY PartsOfCase DEF Failure
  <2> DEFINE a == e.failure.attempt - 1
  <2>3. Max({0, a}) \in {0, a} /\ Max({0, a}) >= 0
    <3> HIDE DEF a
    <3>1. a \in Int
      BY <2>2 DEF a
    <3> QED BY <3>1, MaxOfTwo
  <2> QED BY <2>2, <2>3, PartsOfCase
<1>2. RetryCount(c) \in Nat
  BY <1>1 DEF RetryCount
<1>3. ASSUME NEW e \in Case, e.failure = c.failure, Len(e.actions) >= Len(c.actions)
      PROVE  RetryCount(e) >= RetryCount(c)
  <2> DEFINE first == Max({0, c.failure.attempt - 1})
  <2>1. first \in Nat /\ RetryCount(c) = first + Len(c.actions) /\ RetryCount(e) = first + Len(e.actions)
    BY <1>1, <1>3 DEF RetryCount
  <2> HIDE DEF first
  <2> QED BY <1>1, <1>3, <2>1
<1> QED BY <1>2, <1>3

\* The weights of the rules.
LEMMA WeightsOfFired ==
    ASSUME NEW c, NEW hit \in Fired(c)
    PROVE  hit.weight \in Nat /\ hit.weight <= 9000
BY DEF Fired, When, Hit, BankTimeoutHit, UpiTimeoutHit, FundsHit

\* The confidence in a label is a score.
LEMMA ConfidenceIsScore ==
    ASSUME NEW c, Loaded(c), NEW label
    PROVE  Confidence(c, label) \in Nat
<1> DEFINE weights == Evidence(c, label) \cup {0}
<1>1. \A w \in weights : w \in Nat /\ w <= 9000
  BY WeightsOfFired DEF Evidence
<1> HIDE DEF weights
<1>2. Max(weights) \in Int
  <2> DEFINE top == 9000
  <2>1. top \in Nat /\ weights \in SUBSET Nat /\ \A w \in weights : w <= top
    BY <1>1
  <2>3. IsFiniteSet(weights)
    <3> HIDE DEF top
    <3> QED BY <2>1, FS_BoundedSetOfNaturals
  <2>4. weights \subseteq Int
    BY <1>1
  <2>5. weights # {}
    BY DEF weights
  <2> QED BY <2>3, <2>4, <2>5, MaxOfFinite
<1>3. \A condition, points : points \in Int => Points(condition, points) \in Int
  BY DEF Points
<1>4. Support(c, label) \in Int
  <2> DEFINE m == Max(weights)
  <2>1. (35 * m) \div 100 \in Int
    <3> HIDE DEF m
    <3>1. m \in Int
      BY <1>2 DEF m
    <3> QED BY <3>1
  <2> QED BY <1>3, <2>1 DEF Support, weights
<1>5. Clamp(Support(c, label), 500, 9900) \in Nat
  <2> DEFINE low == 500
             high == 9900
  <2>1. low \in Int /\ high \in Int /\ low <= high
    OBVIOUS
  <2>2. Clamp(Support(c, label), low, high) \in Nat
    <3>1. low \in Nat
      OBVIOUS
    <3> HIDE DEF low, high
    <3>2. Clamp(Support(c, label), low, high) \in low .. high
      BY <1>4, <2>1, ClampBounds
    <3> QED BY <3>1, <3>2
  <2> QED BY <2>2
<1> QED BY <1>5 DEF Confidence

\* A payment that arrived otherwise comes before everything else.
LEMMA PaidComesFirst == ASSUME NEW c, AlreadyPaid(c) PROVE Primary(c) = "ALREADY_PAID"
<1> DEFINE fired == {hit.label : hit \in Fired(c)} \cup {"UNKNOWN"}
           places == {i \in DOMAIN Precedence : Precedence[i] \in fired}
<1>1. "ALREADY_PAID" \in fired
  <2>1. Hit("ALREADY_PAID", 9000) \in Fired(c) /\ Hit("ALREADY_PAID", 9000).label = "ALREADY_PAID"
    BY DEF Fired, When, Hit
  <2> QED BY <2>1
<1>2. 1 \in DOMAIN Precedence /\ Precedence[1] = "ALREADY_PAID" /\ DOMAIN Precedence = 1 .. 11
  BY DEF Precedence
<1>3. 1 \in places /\ places \subseteq Nat /\ \A i \in places : i >= 1
  <2> HIDE DEF fired
  <2> QED BY <1>1, <1>2
<1>4. Min(places) = 1
  <2> HIDE DEF places
  <2>1. Min(places) \in places /\ \A y \in places : Min(places) <= y
    BY <1>3, MinOfNats
  <2>2. Min(places) <= 1
    BY <1>3, <2>1
  <2>3. Min(places) \in Nat /\ Min(places) >= 1
    BY <1>3, <2>1
  <2> QED BY <2>2, <2>3
<1> QED BY <1>2, <1>4 DEF Primary

-----------------------------------------------------------------------------
(* The rules                                                               *)

\* What a function makes of a finite set is finite.
LEMMA ImageIsFinite ==
    ASSUME NEW S, IsFiniteSet(S), NEW f
    PROVE  IsFiniteSet({f[x] : x \in S})
<1> DEFINE T == {f[x] : x \in S}
           g == [x \in S |-> f[x]]
<1>1. g \in Surjection(S, T)
  BY DEF Surjection
<1> QED BY <1>1, FS_Surjection

\* The last day that is promised.
LEMMA PromisedDayIs ==
    ASSUME NEW c, Loaded(c), OpenPromises(c) # {}
    PROVE  PromisedDay(c) \in Nat \ {0} /\ \A p \in OpenPromises(c) : p.day <= PromisedDay(c)
<1> DEFINE open == OpenPromises(c)
           f == [p \in open |-> p.day]
           days == {p.day : p \in open}
<1>1. open \in SUBSET c.promises /\ c.promises \subseteq Promise
  BY PartsOfCase DEF OpenPromises, Loaded
<1>2. \A p \in open : p.day \in Nat \ {0}
  BY <1>1 DEF Promise
<1>3. IsFiniteSet(open)
  BY <1>1, FS_Subset DEF Loaded
<1>4. IsFiniteSet(days)
  <2>1. IsFiniteSet({f[p] : p \in open})
    <3> HIDE DEF f, open
    <3> QED BY <1>3, ImageIsFinite
  <2>2. days = {f[p] : p \in open}
    OBVIOUS
  <2> QED BY <2>1, <2>2
<1>5. days \subseteq Nat \ {0} /\ days # {}
  BY <1>2
<1>6. Max(days) \in days /\ \A y \in days : y <= Max(days)
  <2> HIDE DEF days
  <2>1. days \subseteq Int
    BY <1>5
  <2> QED BY <1>4, <1>5, <2>1, MaxOfFinite
<1>7. Max(days) \in Nat \ {0}
  BY <1>5, <1>6
<1> QED BY <1>6, <1>7 DEF PromisedDay

\* Retries are finitely many, and their times are times.
LEMMA RetriesAre ==
    ASSUME NEW c, Loaded(c)
    PROVE  /\ IsFiniteSet(Retries(c))
           /\ \A i \in Retries(c) : i \in DOMAIN c.actions /\ c.actions[i].at \in Nat
           /\ \A t \in Nat : RecentRetries(c, t) \in SUBSET Retries(c)
<1>1. /\ DOMAIN c.actions = 1 .. Len(c.actions) /\ Len(c.actions) \in Nat
      /\ \A i \in DOMAIN c.actions : c.actions[i] \in ActionRow
  BY PartsOfCase DEF Loaded
<1>2. Retries(c) \in SUBSET (DOMAIN c.actions)
  BY DEF Retries, RetryRows
<1>3. IsFiniteSet(Retries(c))
  <2>1. Retries(c) \in SUBSET Nat /\ \A i \in Retries(c) : i <= Len(c.actions)
    BY <1>1, <1>2
  <2> QED BY <1>1, <2>1, FS_BoundedSetOfNaturals
<1> QED BY <1>1, <1>2, <1>3 DEF RecentRetries, ActionRow

\* The gap is a day after each retry.
LEMMA GapIs ==
    ASSUME NEW c, Loaded(c)
    PROVE  /\ GapUntil(c) \in Nat \cup {None}
           /\ \A i \in Retries(c) : GapUntil(c) >= c.actions[i].at + Day
<1> DEFINE S == Retries(c)
           f == [i \in S |-> c.actions[i].at]
           times == {c.actions[i].at : i \in S}
<1>1. IsFiniteSet(S) /\ \A i \in S : c.actions[i].at \in Nat
  BY RetriesAre
<1>2. CASE S = {}
  BY <1>2 DEF GapUntil
<1>3. CASE S # {}
  <2>1. IsFiniteSet(times)
    <3>1. IsFiniteSet({f[i] : i \in S})
      <4> HIDE DEF f, S
      <4> QED BY <1>1, ImageIsFinite
    <3>2. times = {f[i] : i \in S}
      OBVIOUS
    <3> QED BY <3>1, <3>2
  <2>2. times \subseteq Nat /\ times # {}
    BY <1>1, <1>3
  <2>3. Max(times) \in times /\ \A y \in times : y <= Max(times)
    <3> HIDE DEF times
    <3>1. times \subseteq Int
      BY <2>2
    <3> QED BY <2>1, <2>2, <3>1, MaxOfFinite
  <2>4. GapUntil(c) = Max(times) + Day
    BY <1>3 DEF GapUntil
  <2>5. Max(times) \in Nat
    BY <2>2, <2>3
  <2>6. ASSUME NEW i \in Retries(c) PROVE GapUntil(c) >= c.actions[i].at + Day
    <3>1. c.actions[i].at \in times /\ c.actions[i].at \in Nat
      BY <1>1
    <3>2. c.actions[i].at <= Max(times)
      BY <2>3, <3>1
    <3> HIDE DEF times
    <3> QED BY <2>4, <2>5, <3>1, <3>2 DEF Day
  <2> QED BY <2>4, <2>5, <2>6 DEF Day
<1> QED BY <1>2, <1>3

\* The cap is a week after some retry, where there are three.
LEMMA CapIs ==
    ASSUME NEW c, Loaded(c), NEW t \in Nat
    PROVE  /\ CapUntil(c, t) \in Nat \cup {None}
           /\ IsFiniteSet(RecentRetries(c, t)) /\ Cardinality(RecentRetries(c, t)) \in Nat
           /\ Cardinality(RecentRetries(c, t)) >= MaxRetries =>
                 \E i \in RecentRetries(c, t) : CapUntil(c, t) = c.actions[i].at + Week
<1> DEFINE S == RecentRetries(c, t)
           times == {c.actions[i].at : i \in S}
<1>1. S \in SUBSET Retries(c) /\ IsFiniteSet(S) /\ \A i \in S : c.actions[i].at \in Nat
  BY RetriesAre, FS_Subset
<1>2. Cardinality(S) \in Nat
  BY <1>1, FS_CardinalityType
<1>3. CASE Cardinality(S) < MaxRetries
  BY <1>1, <1>2, <1>3 DEF CapUntil, MaxRetries
<1>4. CASE ~(Cardinality(S) < MaxRetries)
  <2>1. S # {}
    BY <1>2, <1>4, FS_EmptySet DEF MaxRetries
  <2>2. times \subseteq Nat /\ times # {}
    BY <1>1, <2>1
  <2>3. Min(times) \in times
    <3> HIDE DEF times
    <3> QED BY <2>2, MinOfNats
  <2>4. CapUntil(c, t) = Min(times) + Week
    BY <1>4 DEF CapUntil
  <2>5. PICK i \in S : Min(times) = c.actions[i].at
    BY <2>3
  <2>6. c.actions[i].at \in Nat
    BY <1>1, <2>5
  <2>7. CapUntil(c, t) = c.actions[i].at + Week
    BY <2>4, <2>5
  <2>8. CapUntil(c, t) \in Nat
    BY <2>6, <2>7 DEF Week, Day
  <2> QED BY <1>1, <1>2, <2>5, <2>7, <2>8
<1> QED BY <1>3, <1>4

\* Once the cap is over it stays over, if there were not more than three retries.
LEMMA CapStaysOver ==
    ASSUME NEW c, Loaded(c), NEW s \in Nat, NEW t \in Nat, s <= t, t >= CapUntil(c, s),
           Cardinality(RecentRetries(c, s)) <= MaxRetries
    PROVE  Cardinality(RecentRetries(c, t)) < MaxRetries
<1>1. \A i \in Retries(c) : c.actions[i].at \in Nat
  BY RetriesAre
<1>2. RecentRetries(c, t) \in SUBSET RecentRetries(c, s)
  BY <1>1 DEF RecentRetries, Week, Day
<1>3. /\ IsFiniteSet(RecentRetries(c, s)) /\ Cardinality(RecentRetries(c, s)) \in Nat
      /\ Cardinality(RecentRetries(c, t)) \in Nat
  BY CapIs
<1>4. SUFFICES ASSUME Cardinality(RecentRetries(c, t)) >= MaxRetries PROVE FALSE
  BY <1>3 DEF MaxRetries
<1>5. /\ Cardinality(RecentRetries(c, t)) <= Cardinality(RecentRetries(c, s))
      /\ Cardinality(RecentRetries(c, s)) = Cardinality(RecentRetries(c, t))
            => RecentRetries(c, s) = RecentRetries(c, t)
  BY <1>2, <1>3, FS_Subset
<1>6. RecentRetries(c, s) = RecentRetries(c, t) /\ Cardinality(RecentRetries(c, s)) >= MaxRetries
  BY <1>3, <1>4, <1>5 DEF MaxRetries
<1>7. PICK i \in RecentRetries(c, s) : CapUntil(c, s) = c.actions[i].at + Week
  BY <1>6, CapIs
<1>8. i \in RecentRetries(c, t) /\ i \in Retries(c)
  BY <1>6, <1>7 DEF RecentRetries
<1> QED BY <1>1, <1>7, <1>8 DEF RecentRetries, Week, Day

-----------------------------------------------------------------------------
(* What the rules say                                                      *)

Says(result, verdict, until) == result.verdict = verdict /\ result.until = until

\* The three kinds of results.
LEMMA KindsOfResults ==
    /\ \A rule : Says(Passes(rule), "PASS", None)
    /\ \A rule, verdict, code : Says(Blocks(rule, verdict, code), verdict, None)
    /\ \A rule, until, code : Says(Waits(rule, until, code), "WAIT", until)
BY DEF Says, Passes, Blocks, Waits

\* Rules that look at the diagnosis and the case only.
LEMMA RulesOfTheCase ==
    ASSUME NEW c, NEW d
    PROVE  /\ Says(RuleAlreadyPaid(c, d), IF d.label = "ALREADY_PAID" THEN "STOP" ELSE "PASS", None)
           /\ Says(RuleChargeback(c, d), IF d.label = "CHARGEBACK_ACTIVE" THEN "ESCALATE" ELSE "PASS", None)
           /\ Says(RuleConsent(c), CASE c.failure.consent = "WITHDRAWN" -> "STOP"
                                     [] c.failure.consent = "PENDING" -> "FAIL"
                                     [] OTHER -> "PASS", None)
           /\ Says(RuleMandate(c, d), IF d.label = "MANDATE_REVOKED" \/ Revoked(c) THEN "STOP" ELSE "PASS",
                   None)
           /\ Says(RuleOutage(c, d), IF d.label \in Timeouts THEN "WAIT" ELSE "PASS", None)
           /\ Says(RuleChurn(c, d), IF d.label = "CUSTOMER_CANCELLED" \/ Cancelled(c) THEN "STOP" ELSE "PASS",
                   None)
           /\ Says(RuleHighValue(c), "PASS", None)
<1>1. Says(RuleAlreadyPaid(c, d), IF d.label = "ALREADY_PAID" THEN "STOP" ELSE "PASS", None)
  BY KindsOfResults DEF RuleAlreadyPaid
<1>2. Says(RuleChargeback(c, d), IF d.label = "CHARGEBACK_ACTIVE" THEN "ESCALATE" ELSE "PASS", None)
  BY DEF RuleChargeback, Says, Passes, Blocks
<1>3. Says(RuleConsent(c), CASE c.failure.consent = "WITHDRAWN" -> "STOP"
                             [] c.failure.consent = "PENDING" -> "FAIL"
                             [] OTHER -> "PASS", None)
  BY KindsOfResults DEF RuleConsent
<1>4. Says(RuleMandate(c, d), IF d.label = "MANDATE_REVOKED" \/ Revoked(c) THEN "STOP" ELSE "PASS", None)
  BY DEF RuleMandate, Says, Passes, Blocks
<1>5. Says(RuleOutage(c, d), IF d.label \in Timeouts THEN "WAIT" ELSE "PASS", None)
  BY DEF RuleOutage, Says, Passes, Blocks
<1>6. Says(RuleChurn(c, d), IF d.label = "CUSTOMER_CANCELLED" \/ Cancelled(c) THEN "STOP" ELSE "PASS", None)
  BY KindsOfResults DEF RuleChurn
<1>7. Says(RuleHighValue(c), "PASS", None)
  BY DEF RuleHighValue, Says, Passes
<1> QED BY <1>1, <1>2, <1>3, <1>4, <1>5, <1>6, <1>7

\* A promise that is kept ends recovery, one that runs is waited for.
LEMMA RuleOfPromises ==
    ASSUME NEW c, Loaded(c), NEW t \in Nat
    PROVE  IF \E p \in c.promises : p.status = "FULFILLED" THEN Says(RulePromise(c, t), "STOP", None)
           ELSE IF OpenPromises(c) # {} /\ DayOf(t) <= PromisedDay(c)
           THEN /\ Says(RulePromise(c, t), "WAIT", At(PromisedDay(c) + 1, Opens))
                /\ RulePromise(c, t).until \in Nat /\ DayOf(RulePromise(c, t).until) > PromisedDay(c)
           ELSE Says(RulePromise(c, t), "PASS", None)
<1>1. CASE \E p \in c.promises : p.status = "FULFILLED"
  BY <1>1, KindsOfResults DEF RulePromise
<1>2. CASE /\ ~\E p \in c.promises : p.status = "FULFILLED"
           /\ OpenPromises(c) # {} /\ DayOf(t) <= PromisedDay(c)
  <2>1. PromisedDay(c) \in Nat
    BY <1>2, PromisedDayIs
  <2>2. PromisedDay(c) + 1 \in Nat /\ Opens \in 0 .. 95
    BY <2>1, Quarters
  <2>3. /\ At(PromisedDay(c) + 1, Opens) \in Nat
        /\ DayOf(At(PromisedDay(c) + 1, Opens)) = PromisedDay(c) + 1
    BY <2>2, Moments
  <2>4. Says(RulePromise(c, t), "WAIT", At(PromisedDay(c) + 1, Opens))
    <3>1. RulePromise(c, t) = [Blocks("promise_to_pay", "WAIT", "PROMISE_ACTIVE")
                               EXCEPT !.until = At(PromisedDay(c) + 1, Opens)]
      BY <1>2 DEF RulePromise
    <3> QED BY <3>1 DEF Says, Blocks, Passes
  <2> QED BY <1>2, <2>1, <2>3, <2>4 DEF Says
<1>3. CASE /\ ~\E p \in c.promises : p.status = "FULFILLED"
           /\ ~(OpenPromises(c) # {} /\ DayOf(t) <= PromisedDay(c))
  <2>1. RulePromise(c, t) = BrokenPromise \/ RulePromise(c, t) = Passes("promise_to_pay")
    BY <1>3 DEF RulePromise
  <2>2. Says(BrokenPromise, "PASS", None)
    BY DEF BrokenPromise, Says, Passes
  <2>3. Says(RulePromise(c, t), "PASS", None)
    BY <2>1, <2>2, KindsOfResults
  <2> QED BY <1>3, <2>3
<1> QED BY <1>1, <1>2, <1>3

\* Retries are waited for as long as their gap and their cap.
LEMMA RuleOfRetries ==
    ASSUME NEW c, Loaded(c), NEW t \in Nat
    PROVE  IF t < GapUntil(c) \/ t < CapUntil(c, t)
           THEN /\ RuleRetryCooldown(c, t).verdict = "WAIT"
                /\ RuleRetryCooldown(c, t).until \in Nat
                /\ RuleRetryCooldown(c, t).until >= GapUntil(c)
                /\ RuleRetryCooldown(c, t).until >= CapUntil(c, t)
           ELSE Says(RuleRetryCooldown(c, t), "PASS", None)
<1> DEFINE g == GapUntil(c)
           k == CapUntil(c, t)
           m == Max({g, k})
<1>1. g \in Int /\ k \in Int
  BY GapIs, CapIs DEF None
<1>2. m \in {g, k} /\ m >= g /\ m >= k
  <2> HIDE DEF g, k
  <2> QED BY <1>1, MaxOfTwo
<1>3. m \in Int
  <2> HIDE DEF g, k, m
  <2> QED BY <1>1, <1>2
<1>4. CASE t < m
  <2>1. /\ RuleRetryCooldown(c, t).verdict = "WAIT"
        /\ RuleRetryCooldown(c, t).until = m
    BY <1>4 DEF RuleRetryCooldown, Waits, Passes
  <2> HIDE DEF g, k, m
  <2>2. m \in Nat
    BY <1>3, <1>4
  <2>3. t < g \/ t < k
    BY <1>1, <1>2, <1>4
  <2> QED BY <1>2, <2>1, <2>2, <2>3 DEF g, k
<1>5. CASE ~(t < m)
  <2>1. Says(RuleRetryCooldown(c, t), "PASS", None)
    BY <1>5, KindsOfResults DEF RuleRetryCooldown
  <2> HIDE DEF g, k, m
  <2>2. ~(t < g) /\ ~(t < k)
    BY <1>1, <1>2, <1>3, <1>5
  <2> QED BY <2>1, <2>2 DEF g, k
<1> QED BY <1>4, <1>5

\* At night contact is waited for, until the hours of contact that come next.
LEMMA RuleOfNight ==
    ASSUME NEW t \in Nat
    PROVE  IF InContactWindow(t) THEN Says(RuleDnd(t), "PASS", None)
           ELSE RuleDnd(t).verdict = "WAIT" /\ RuleDnd(t).until \in Nat /\ RuleDnd(t).until > t
<1>1. CASE InContactWindow(t)
  BY <1>1, KindsOfResults DEF RuleDnd
<1>2. CASE ~InContactWindow(t)
  <2>1. RuleDnd(t).verdict = "WAIT" /\ RuleDnd(t).until = NextContactWindow(t)
    BY <1>2 DEF RuleDnd, Blocks, Passes
  <2>2. NextContactWindow(t) \in Nat /\ NextContactWindow(t) > t
    <3>1. DayOf(t) \in Nat /\ TimeOf(t) \in 0 .. 95 /\ t = At(DayOf(t), TimeOf(t))
      BY Moments
    <3>2. DayOf(t) + 1 \in Nat /\ DayOf(t) + 1 > DayOf(t)
      BY <3>1
    <3>3. Opens \in 0 .. 95
      BY Quarters
    <3>4. At(DayOf(t), Opens) \in Nat /\ At(DayOf(t) + 1, Opens) \in Nat
      BY <3>1, <3>3 DEF At, Day
    <3>5. TimeOf(t) < Opens => At(DayOf(t), Opens) > t
      BY <3>1, <3>3 DEF At, Day
    <3>6. At(DayOf(t) + 1, Opens) > t
      BY <3>2, <3>3, DaysAreOrdered
    <3> QED BY <3>4, <3>5, <3>6 DEF NextContactWindow
  <2> QED BY <1>2, <2>1, <2>2
<1> QED BY <1>1, <1>2

-----------------------------------------------------------------------------
(* The decision                                                            *)

\* the results of ten rules
TenResults(results) ==
    /\ DOMAIN results = 1 .. 10 /\ Len(results) = 10
    /\ \A i \in 1 .. 10 :
          results[i].verdict \in Verdicts /\ results[i].until \in Nat \cup {None}

\* The rules give ten results.
LEMMA ResultsAreTen ==
    ASSUME NEW c, Loaded(c), NEW d, NEW t \in Nat
    PROVE  TenResults(Results(c, d, t))
<1> DEFINE r == Results(c, d, t)
           Fits(result) == result.verdict \in Verdicts /\ result.until \in Nat \cup {None}
<1>1. DOMAIN r = 1 .. 10 /\ Len(r) = 10
  BY DEF Results
<1>2. /\ r[1] = RuleAlreadyPaid(c, d) /\ r[2] = RuleChargeback(c, d) /\ r[3] = RuleConsent(c)
      /\ r[4] = RuleMandate(c, d) /\ r[5] = RulePromise(c, t) /\ r[6] = RuleRetryCooldown(c, t)
      /\ r[7] = RuleOutage(c, d) /\ r[8] = RuleDnd(t) /\ r[9] = RuleChurn(c, d)
      /\ r[10] = RuleHighValue(c)
  BY DEF Results
<1>3. /\ Fits(RuleAlreadyPaid(c, d)) /\ Fits(RuleChargeback(c, d)) /\ Fits(RuleConsent(c))
      /\ Fits(RuleMandate(c, d)) /\ Fits(RuleOutage(c, d)) /\ Fits(RuleChurn(c, d))
      /\ Fits(RuleHighValue(c))
  BY RulesOfTheCase DEF Says, Verdicts
<1>4. Fits(RulePromise(c, t)) /\ Fits(RuleRetryCooldown(c, t)) /\ Fits(RuleDnd(t))
  BY RuleOfPromises, RuleOfRetries, RuleOfNight DEF Says, Verdicts
<1>5. \A i \in 1 .. 10 : Fits(r[i])
  <2> HIDE DEF r, Fits
  <2>1. \A i \in 1 .. 10 : i = 1 \/ i = 2 \/ i = 3 \/ i = 4 \/ i = 5 \/ i = 6 \/ i = 7
                           \/ i = 8 \/ i = 9 \/ i = 10
    OBVIOUS
  <2> QED BY <1>2, <1>3, <1>4, <2>1
<1> QED BY <1>1, <1>5 DEF TenResults

\* The winner is among the most severe.
LEMMA WinnerIs ==
    ASSUME NEW results, TenResults(results)
    PROVE  \E i \in 1 .. 10 :
              /\ Winner(results) = results[i]
              /\ \A j \in 1 .. 10 : Severity(results[j].verdict) <= Severity(results[i].verdict)
<1> DEFINE S == {Severity(results[i].verdict) : i \in DOMAIN results}
           places == {i \in DOMAIN results : Severity(results[i].verdict) = Max(S)}
<1>1. \A i \in 1 .. 10 : Severity(results[i].verdict) \in Nat /\ Severity(results[i].verdict) <= 4
  BY DEF Severity
<1>2. DOMAIN results = 1 .. 10 /\ 1 \in 1 .. 10
  BY DEF TenResults
<1>3. Max(S) \in S /\ \A y \in S : y <= Max(S)
  <2> DEFINE top == 4
  <2>1. S \in SUBSET Nat /\ S \subseteq Int /\ S # {} /\ top \in Nat /\ \A y \in S : y <= top
    BY <1>1, <1>2
  <2> HIDE DEF S, top
  <2>2. IsFiniteSet(S)
    BY <2>1, FS_BoundedSetOfNaturals
  <2> QED BY <2>1, <2>2, MaxOfFinite
<1>4. places # {} /\ places \subseteq Nat
  <2>1. PICK i \in DOMAIN results : Max(S) = Severity(results[i].verdict)
    BY <1>3
  <2> HIDE DEF S
  <2> QED BY <1>2, <2>1
<1>5. Min(places) \in places
  <2> HIDE DEF places
  <2> QED BY <1>4, MinOfNats
<1>6. Winner(results) = results[Min(places)]
  BY DEF Winner
<1>7. \A j \in 1 .. 10 : Severity(results[j].verdict) <= Max(S)
  BY <1>2, <1>3
<1>8. Min(places) \in 1 .. 10 /\ Severity(results[Min(places)].verdict) = Max(S)
  <2> HIDE DEF S
  <2> QED BY <1>2, <1>5
<1> HIDE DEF S, places
<1> QED BY <1>6, <1>7, <1>8

\* An ALLOW is put down to a result that passes.
LEMMA LeadPasses ==
    ASSUME NEW results, TenResults(results), \A i \in 1 .. 10 : results[i].verdict = "PASS"
    PROVE  Lead(results).verdict = "PASS"
<1> DEFINE notable == {i \in DOMAIN results : results[i].codes # {}}
<1>1. DOMAIN results = 1 .. 10 /\ Len(results) = 10
  BY DEF TenResults
<1>2. CASE notable = {}
  BY <1>2, KindsOfResults DEF Lead, Says
<1>3. CASE notable # {}
  <2>1. notable \subseteq Nat /\ notable \subseteq 1 .. 10
    BY <1>1
  <2>2. Min(notable) \in notable
    <3> HIDE DEF notable
    <3> QED BY <1>3, <2>1, MinOfNats
  <2>3. Lead(results) = results[10] \/ Lead(results) = results[Min(notable)]
    BY <1>1, <1>3 DEF Lead
  <2>4. Min(notable) \in 1 .. 10
    <3> HIDE DEF notable
    <3> QED BY <2>1, <2>2
  <2> HIDE DEF notable
  <2> QED BY <2>3, <2>4
<1> QED BY <1>2, <1>3

\* The decision is the verdict of the most severe rule; a wait lasts as long as any rule
\* waits.
LEMMA DecisionIs ==
    ASSUME NEW results, TenResults(results), NEW d
    PROVE  LET p == Fold(results, d)
           IN  /\ p.decision = "STOP" <=> \E i \in 1 .. 10 : results[i].verdict = "STOP"
               /\ p.decision = "ESCALATE" => \E i \in 1 .. 10 : results[i].verdict = "ESCALATE"
               /\ p.decision = "WAIT" => \A i \in 1 .. 10 : results[i].verdict \in {"WAIT", "PASS"}
               /\ p.decision = "WAIT" => \E i \in 1 .. 10 : results[i].verdict = "WAIT"
               /\ p.decision = "ALLOW" => \A i \in 1 .. 10 : results[i].verdict = "PASS"
               /\ p.decision \in {"STOP", "ESCALATE", "DENY", "WAIT", "ALLOW"}
               /\ p.decision # "WAIT" => p.until = None
               /\ p.until \in Nat \cup {None}
               /\ p.decision = "WAIT" =>
                     \A i \in 1 .. 10 : results[i].verdict = "WAIT" => p.until >= results[i].until
               /\ p.decision = "WAIT" =>
                     \E i \in 1 .. 10 : results[i].verdict = "WAIT" /\ p.until = results[i].until
<1> DEFINE blocking == {i \in DOMAIN results : results[i].verdict # "PASS"}
           winner == IF blocking = {} THEN Lead(results) ELSE Winner(results)
           waits == {i \in DOMAIN results : results[i].verdict = "WAIT"}
           f == [i \in waits |-> results[i].until]
           untils == {results[i].until : i \in waits}
           p == Fold(results, d)
<1>1. /\ DOMAIN results = 1 .. 10
      /\ \A i \in 1 .. 10 : results[i].verdict \in Verdicts /\ results[i].until \in Nat \cup {None}
  BY DEF TenResults
<1>2. /\ p.decision = DecisionOf(winner.verdict)
      /\ p.until = IF DecisionOf(winner.verdict) # "WAIT" THEN None ELSE Max(untils)
  BY DEF Fold
<1>3. PICK w \in 1 .. 10 :
         /\ Winner(results) = results[w]
         /\ \A j \in 1 .. 10 : Severity(results[j].verdict) <= Severity(results[w].verdict)
  BY WinnerIs
<1>4. CASE blocking = {}
  <2>1. \A i \in 1 .. 10 : results[i].verdict = "PASS"
    BY <1>1, <1>4
  <2>2. winner.verdict = "PASS"
    BY <1>4, <2>1, LeadPasses
  <2>3. p.decision = "ALLOW" /\ p.until = None
    BY <1>2, <2>2 DEF DecisionOf
  <2> QED BY <2>1, <2>3
<1>5. CASE blocking # {}
  <2> DEFINE v == results[w].verdict
  <2>1. p.decision = DecisionOf(v) /\ v \in Verdicts
    BY <1>1, <1>2, <1>3, <1>5
  <2>2. PICK b \in 1 .. 10 : results[b].verdict # "PASS"
    BY <1>1, <1>5
  <2>3. (\E i \in 1 .. 10 : results[i].verdict = "STOP") => v = "STOP"
    <3>1. ASSUME NEW i \in 1 .. 10, results[i].verdict = "STOP" PROVE v = "STOP"
      <4>1. Severity(v) >= 4
        BY <1>3, <3>1 DEF Severity
      <4> QED BY <2>1, <4>1 DEF Severity, Verdicts
    <3> QED BY <3>1
  <2>4. v = "WAIT" => \A i \in 1 .. 10 : results[i].verdict \in {"WAIT", "PASS"}
    <3>1. SUFFICES ASSUME v = "WAIT", NEW i \in 1 .. 10 PROVE results[i].verdict \in {"WAIT", "PASS"}
      OBVIOUS
    <3>2. Severity(results[i].verdict) <= 1
      BY <1>3, <3>1 DEF Severity
    <3> QED BY <1>1, <3>2 DEF Severity, Verdicts
  <2>5. v # "PASS"
    <3>1. Severity(results[b].verdict) <= Severity(v) /\ Severity(results[b].verdict) \in 1 .. 4
      BY <1>1, <1>3, <2>2 DEF Severity, Verdicts
    <3> QED BY <3>1 DEF Severity
  <2>6. CASE v = "WAIT"
    <3>1. p.decision = "WAIT" /\ p.until = Max(untils)
      BY <1>2, <1>3, <1>5, <2>6 DEF DecisionOf
    <3>2. w \in waits
      BY <1>1, <2>6
    <3>3. waits \in SUBSET Nat /\ \A i \in waits : i <= 10
      BY <1>1
    <3>4. IsFiniteSet(waits)
      <4> DEFINE top == 10
      <4>1. top \in Nat /\ \A i \in waits : i <= top
        BY <3>3
      <4> HIDE DEF waits, top
      <4> QED BY <3>3, <4>1, FS_BoundedSetOfNaturals
    <3>5. IsFiniteSet(untils)
      <4>1. IsFiniteSet({f[i] : i \in waits})
        <5> HIDE DEF f, waits
        <5> QED BY <3>4, ImageIsFinite
      <4>2. untils = {f[i] : i \in waits}
        OBVIOUS
      <4> QED BY <4>1, <4>2
    <3>6. untils \subseteq Nat \cup {None} /\ untils \subseteq Int /\ untils # {}
      <4>1. \A i \in waits : results[i].until \in Nat \cup {None}
        BY <1>1
      <4>2. untils \subseteq Nat \cup {None}
        BY <4>1
      <4>3. untils # {}
        BY <3>2
      <4>4. Nat \cup {None} \subseteq Int
        BY DEF None
      <4> QED BY <4>2, <4>3, <4>4
    <3>7. Max(untils) \in untils /\ \A y \in untils : y <= Max(untils)
      <4> HIDE DEF untils
      <4> QED BY <3>5, <3>6, MaxOfFinite
    <3>8. \A i \in 1 .. 10 : results[i].verdict = "WAIT" => results[i].until <= Max(untils)
      BY <1>1, <3>7
    <3>9. p.until \in Nat \cup {None}
      BY <3>1, <3>6, <3>7
    <3>10. \A i \in 1 .. 10 : results[i].verdict = "WAIT" => p.until >= results[i].until
      <4> HIDE DEF untils, p
      <4> QED BY <1>1, <3>1, <3>8, <3>9 DEF None
    <3>11. \E i \in 1 .. 10 : results[i].verdict = "WAIT" /\ p.until = results[i].until
      <4>1. PICK i \in waits : Max(untils) = results[i].until
        BY <3>7
      <4> HIDE DEF untils, p
      <4> QED BY <1>1, <3>1, <4>1
    <3> QED BY <2>3, <2>4, <2>6, <3>1, <3>9, <3>10, <3>11
  <2>7. CASE v # "WAIT"
    <3>1. p.decision = DecisionOf(v) /\ DecisionOf(v) # "WAIT" /\ p.until = None
      BY <1>2, <1>3, <1>5, <2>1, <2>7 DEF DecisionOf, Verdicts
    <3>2. DecisionOf(v) \in {"STOP", "ESCALATE", "DENY"}
      BY <2>1, <2>5, <2>7 DEF DecisionOf, Verdicts
    <3>3. DecisionOf(v) = "STOP" <=> v = "STOP"
      BY <2>1 DEF DecisionOf, Verdicts
    <3>4. DecisionOf(v) = "ESCALATE" => v = "ESCALATE"
      BY <2>1 DEF DecisionOf, Verdicts
    <3>5. \E i \in 1 .. 10 : results[i].verdict = v
      BY <1>3
    <3>6. p.decision = "STOP" <=> \E i \in 1 .. 10 : results[i].verdict = "STOP"
      BY <2>3, <2>5, <3>1, <3>3, <3>5
    <3>7. p.decision = "ESCALATE" => \E i \in 1 .. 10 : results[i].verdict = "ESCALATE"
      BY <3>1, <3>4, <3>5
    <3> QED BY <3>1, <3>2, <3>6, <3>7
  <2> QED BY <2>6, <2>7
<1> QED BY <1>4, <1>5

\* some promise may still be kept
Runs(c, t) == OpenPromises(c) # {} /\ DayOf(t) <= PromisedDay(c)

\* the retries before leave no room for one now
Cooling(c, t) == t < GapUntil(c) \/ t < CapUntil(c, t)

\* What the decision says of the case, and the case of the decision.
LEMMA EvaluateIs ==
    ASSUME NEW c, Loaded(c), NEW d, NEW t \in Nat
    PROVE  LET p == Evaluate(c, d, t)
           IN  /\ p.decision \in {"STOP", "ESCALATE", "DENY", "WAIT", "ALLOW"}
               /\ p.until \in Nat \cup {None}
               /\ p.decision # "WAIT" => p.until = None
               /\ (\/ d.label = "ALREADY_PAID" \/ c.failure.consent = "WITHDRAWN"
                   \/ Revoked(c) \/ Cancelled(c) \/ \E q \in c.promises : q.status = "FULFILLED")
                  => p.decision = "STOP"
               /\ p.decision = "ESCALATE" => d.label = "CHARGEBACK_ACTIVE"
               /\ p.decision = "WAIT" =>
                     /\ d.label # "CHARGEBACK_ACTIVE"
                     /\ Runs(c, t) \/ Cooling(c, t) \/ d.label \in Timeouts \/ ~InContactWindow(t)
               /\ p.decision = "ALLOW" => ~Runs(c, t) /\ ~Cooling(c, t)
               /\ p.decision = "WAIT" /\ Runs(c, t) =>
                     p.until \in Nat /\ p.until >= At(PromisedDay(c) + 1, Opens)
               /\ p.decision = "WAIT" /\ Cooling(c, t) =>
                     p.until \in Nat /\ p.until >= GapUntil(c) /\ p.until >= CapUntil(c, t)
<1> DEFINE r == Results(c, d, t)
           p == Fold(r, d)
<1>1. TenResults(r)
  BY ResultsAreTen
<1>2. /\ r[1] = RuleAlreadyPaid(c, d) /\ r[2] = RuleChargeback(c, d) /\ r[3] = RuleConsent(c)
      /\ r[4] = RuleMandate(c, d) /\ r[5] = RulePromise(c, t) /\ r[6] = RuleRetryCooldown(c, t)
      /\ r[7] = RuleOutage(c, d) /\ r[8] = RuleDnd(t) /\ r[9] = RuleChurn(c, d)
      /\ r[10] = RuleHighValue(c)
  BY DEF Results
<1>3. Evaluate(c, d, t) = p
  BY DEF Evaluate
<1> HIDE DEF r
<1>4. /\ r[1].verdict = (IF d.label = "ALREADY_PAID" THEN "STOP" ELSE "PASS")
      /\ r[2].verdict = (IF d.label = "CHARGEBACK_ACTIVE" THEN "ESCALATE" ELSE "PASS")
      /\ r[3].verdict = (CASE c.failure.consent = "WITHDRAWN" -> "STOP"
                           [] c.failure.consent = "PENDING" -> "FAIL"
                           [] OTHER -> "PASS")
      /\ r[4].verdict = (IF d.label = "MANDATE_REVOKED" \/ Revoked(c) THEN "STOP" ELSE "PASS")
      /\ r[7].verdict = (IF d.label \in Timeouts THEN "WAIT" ELSE "PASS")
      /\ r[9].verdict = (IF d.label = "CUSTOMER_CANCELLED" \/ Cancelled(c) THEN "STOP" ELSE "PASS")
      /\ r[10].verdict = "PASS"
  BY <1>2, RulesOfTheCase DEF Says
<1>5. /\ (\E q \in c.promises : q.status = "FULFILLED") => r[5].verdict = "STOP"
      /\ ~(\E q \in c.promises : q.status = "FULFILLED") /\ Runs(c, t)
            => r[5].verdict = "WAIT" /\ r[5].until = At(PromisedDay(c) + 1, Opens)
               /\ r[5].until \in Nat
      /\ ~(\E q \in c.promises : q.status = "FULFILLED") /\ ~Runs(c, t) => r[5].verdict = "PASS"
  BY <1>2, RuleOfPromises DEF Says, Runs
<1>6. /\ Cooling(c, t) => /\ r[6].verdict = "WAIT" /\ r[6].until \in Nat
                          /\ r[6].until >= GapUntil(c) /\ r[6].until >= CapUntil(c, t)
      /\ ~Cooling(c, t) => r[6].verdict = "PASS"
  BY <1>2, RuleOfRetries DEF Says, Cooling
<1>7. InContactWindow(t) => r[8].verdict = "PASS"
  BY <1>2, RuleOfNight DEF Says
<1>8. /\ p.decision = "STOP" <=> \E i \in 1 .. 10 : r[i].verdict = "STOP"
      /\ p.decision = "ESCALATE" => \E i \in 1 .. 10 : r[i].verdict = "ESCALATE"
      /\ p.decision = "WAIT" => \A i \in 1 .. 10 : r[i].verdict \in {"WAIT", "PASS"}
      /\ p.decision = "WAIT" => \E i \in 1 .. 10 : r[i].verdict = "WAIT"
      /\ p.decision = "ALLOW" => \A i \in 1 .. 10 : r[i].verdict = "PASS"
      /\ p.decision \in {"STOP", "ESCALATE", "DENY", "WAIT", "ALLOW"}
      /\ p.decision # "WAIT" => p.until = None
      /\ p.until \in Nat \cup {None}
      /\ p.decision = "WAIT" =>
            \A i \in 1 .. 10 : r[i].verdict = "WAIT" => p.until >= r[i].until
  BY <1>1, DecisionIs
<1> HIDE DEF p
<1>9. \A i \in 1 .. 10 : i = 1 \/ i = 2 \/ i = 3 \/ i = 4 \/ i = 5 \/ i = 6 \/ i = 7
                         \/ i = 8 \/ i = 9 \/ i = 10
  OBVIOUS
<1>10. /\ 1 \in 1 .. 10 /\ 2 \in 1 .. 10 /\ 3 \in 1 .. 10 /\ 4 \in 1 .. 10 /\ 5 \in 1 .. 10
       /\ 6 \in 1 .. 10 /\ 9 \in 1 .. 10
  OBVIOUS
<1>11. (\/ d.label = "ALREADY_PAID" \/ c.failure.consent = "WITHDRAWN"
        \/ Revoked(c) \/ Cancelled(c) \/ \E q \in c.promises : q.status = "FULFILLED")
       => p.decision = "STOP"
  <2>1. (\/ d.label = "ALREADY_PAID" \/ c.failure.consent = "WITHDRAWN"
         \/ Revoked(c) \/ Cancelled(c) \/ \E q \in c.promises : q.status = "FULFILLED")
        => \/ r[1].verdict = "STOP" \/ r[3].verdict = "STOP" \/ r[4].verdict = "STOP"
           \/ r[5].verdict = "STOP" \/ r[9].verdict = "STOP"
    BY <1>4, <1>5
  <2> QED BY <1>8, <1>10, <2>1
<1>12. p.decision = "ESCALATE" => d.label = "CHARGEBACK_ACTIVE"
  <2>1. SUFFICES ASSUME p.decision = "ESCALATE", d.label # "CHARGEBACK_ACTIVE" PROVE FALSE
    OBVIOUS
  <2>2. PICK i \in 1 .. 10 : r[i].verdict = "ESCALATE"
    BY <1>8, <2>1
  <2>3. p.decision # "STOP"
    BY <2>1
  <2>4. /\ r[1].verdict # "ESCALATE" /\ r[2].verdict # "ESCALATE" /\ r[3].verdict # "ESCALATE"
        /\ r[4].verdict # "ESCALATE" /\ r[7].verdict # "ESCALATE" /\ r[9].verdict # "ESCALATE"
        /\ r[10].verdict # "ESCALATE"
    BY <1>4, <2>1
  <2>5. r[5].verdict # "ESCALATE" /\ r[6].verdict # "ESCALATE"
    BY <1>5, <1>6
  <2>6. r[8].verdict # "ESCALATE"
    BY <1>2, RuleOfNight DEF Says
  <2> QED BY <1>9, <2>2, <2>4, <2>5, <2>6
<1>13. p.decision = "WAIT" =>
          /\ d.label # "CHARGEBACK_ACTIVE"
          /\ Runs(c, t) \/ Cooling(c, t) \/ d.label \in Timeouts \/ ~InContactWindow(t)
  <2>1. SUFFICES ASSUME p.decision = "WAIT"
                 PROVE  /\ d.label # "CHARGEBACK_ACTIVE"
                        /\ Runs(c, t) \/ Cooling(c, t) \/ d.label \in Timeouts \/ ~InContactWindow(t)
    OBVIOUS
  <2>2. \A i \in 1 .. 10 : r[i].verdict \in {"WAIT", "PASS"}
    BY <1>8, <2>1
  <2>3. d.label # "CHARGEBACK_ACTIVE"
    BY <1>4, <1>10, <2>2
  <2>4. PICK i \in 1 .. 10 : r[i].verdict = "WAIT"
    BY <1>8, <2>1
  <2>5. /\ r[1].verdict # "WAIT" /\ r[2].verdict # "WAIT" /\ r[3].verdict # "WAIT"
        /\ r[4].verdict # "WAIT" /\ r[9].verdict # "WAIT" /\ r[10].verdict # "WAIT"
    BY <1>4
  <2>6. i = 5 \/ i = 6 \/ i = 7 \/ i = 8
    BY <1>9, <2>4, <2>5
  <2>7. r[5].verdict = "WAIT" => Runs(c, t)
    BY <1>5
  <2> QED BY <1>4, <1>6, <1>7, <2>3, <2>4, <2>6, <2>7
<1>14. p.decision = "ALLOW" => ~Runs(c, t) /\ ~Cooling(c, t)
  BY <1>5, <1>6, <1>8, <1>10
<1>15. p.decision = "WAIT" /\ Runs(c, t) =>
          p.until \in Nat /\ p.until >= At(PromisedDay(c) + 1, Opens)
  <2>1. SUFFICES ASSUME p.decision = "WAIT", Runs(c, t)
                 PROVE  p.until \in Nat /\ p.until >= At(PromisedDay(c) + 1, Opens)
    OBVIOUS
  <2>2. r[5].verdict \in {"WAIT", "PASS"}
    BY <1>8, <1>10, <2>1
  <2>3. /\ r[5].verdict = "WAIT" /\ r[5].until = At(PromisedDay(c) + 1, Opens)
        /\ r[5].until \in Nat
    BY <1>5, <2>1, <2>2
  <2>4. p.until >= r[5].until
    BY <1>8, <1>10, <2>1, <2>3
  <2> QED BY <1>8, <2>3, <2>4 DEF None
<1>16. p.decision = "WAIT" /\ Cooling(c, t) =>
          p.until \in Nat /\ p.until >= GapUntil(c) /\ p.until >= CapUntil(c, t)
  <2>1. SUFFICES ASSUME p.decision = "WAIT", Cooling(c, t)
                 PROVE  p.until \in Nat /\ p.until >= GapUntil(c) /\ p.until >= CapUntil(c, t)
    OBVIOUS
  <2>2. p.until >= r[6].until
    BY <1>6, <1>8, <1>10, <2>1
  <2>3. GapUntil(c) \in Int /\ CapUntil(c, t) \in Int
    BY GapIs, CapIs DEF None
  <2>4. r[6].until \in Nat /\ r[6].until >= GapUntil(c) /\ r[6].until >= CapUntil(c, t)
    BY <1>6, <2>1
  <2>5. p.until \in Nat
    BY <1>8, <2>2, <2>4 DEF None
  <2> QED BY <2>2, <2>3, <2>4, <2>5
<1> QED BY <1>3, <1>8, <1>11, <1>12, <1>13, <1>14, <1>15, <1>16

\* A policy that waits for no promise, no retry and no outage waits for its morning.
LEMMA NightAlone ==
    ASSUME NEW c, Loaded(c), NEW d, NEW t \in Nat, Evaluate(c, d, t).decision = "WAIT",
           ~Runs(c, t), ~Cooling(c, t), d.label \notin Timeouts
    PROVE  ~InContactWindow(t) /\ Evaluate(c, d, t).until = NextContactWindow(t)
<1> DEFINE r == Results(c, d, t)
           until == Evaluate(c, d, t).until
<1>1. TenResults(r) /\ Evaluate(c, d, t) = Fold(r, d)
  BY ResultsAreTen DEF Evaluate
<1>2. /\ r[1] = RuleAlreadyPaid(c, d) /\ r[2] = RuleChargeback(c, d) /\ r[3] = RuleConsent(c)
      /\ r[4] = RuleMandate(c, d) /\ r[5] = RulePromise(c, t) /\ r[6] = RuleRetryCooldown(c, t)
      /\ r[7] = RuleOutage(c, d) /\ r[8] = RuleDnd(t) /\ r[9] = RuleChurn(c, d)
      /\ r[10] = RuleHighValue(c)
  BY DEF Results
<1> HIDE DEF r
<1>3. /\ r[1].verdict # "WAIT" /\ r[2].verdict # "WAIT" /\ r[3].verdict # "WAIT"
      /\ r[4].verdict # "WAIT" /\ r[7].verdict # "WAIT" /\ r[9].verdict # "WAIT"
      /\ r[10].verdict # "WAIT"
  BY <1>2, RulesOfTheCase DEF Says
<1>4. r[5].verdict # "WAIT"
  BY <1>2, RuleOfPromises DEF Says, Runs
<1>5. r[6].verdict # "WAIT"
  BY <1>2, RuleOfRetries DEF Says, Cooling
<1>6. \E i \in 1 .. 10 : r[i].verdict = "WAIT" /\ until = r[i].until
  BY <1>1, DecisionIs
<1> HIDE DEF until
<1>7. PICK i \in 1 .. 10 : r[i].verdict = "WAIT" /\ until = r[i].until
  BY <1>6
<1>8. i = 8
  BY <1>3, <1>4, <1>5, <1>7
<1>9. r[8].verdict = "WAIT" /\ until = r[8].until
  BY <1>7, <1>8
<1>10. ~InContactWindow(t)
  BY <1>2, <1>9, RuleOfNight DEF Says
<1>11. RuleDnd(t).until = NextContactWindow(t)
  BY <1>10 DEF RuleDnd, Blocks, Passes
<1> QED BY <1>2, <1>9, <1>10, <1>11 DEF until

\* A wait that has an end ends later than now; one that has none is for an outage, and
\* no promise runs.
LEMMA WaitsLieAhead ==
    ASSUME NEW c, Loaded(c), NEW d, NEW t \in Nat, Evaluate(c, d, t).decision = "WAIT"
    PROVE  LET until == Evaluate(c, d, t).until
           IN  /\ until # None => until \in Nat /\ until > t
               /\ until = None => d.label \in Timeouts /\ ~Runs(c, t)
<1> DEFINE r == Results(c, d, t)
           until == Evaluate(c, d, t).until
           Ahead(result) == result.until \in Nat /\ result.until > t
<1>1. TenResults(r) /\ Evaluate(c, d, t) = Fold(r, d)
  BY ResultsAreTen DEF Evaluate
<1>2. /\ r[1] = RuleAlreadyPaid(c, d) /\ r[2] = RuleChargeback(c, d) /\ r[3] = RuleConsent(c)
      /\ r[4] = RuleMandate(c, d) /\ r[5] = RulePromise(c, t) /\ r[6] = RuleRetryCooldown(c, t)
      /\ r[7] = RuleOutage(c, d) /\ r[8] = RuleDnd(t) /\ r[9] = RuleChurn(c, d)
      /\ r[10] = RuleHighValue(c)
  BY DEF Results
<1> HIDE DEF r
<1>3. /\ r[1].verdict # "WAIT" /\ r[2].verdict # "WAIT" /\ r[3].verdict # "WAIT"
      /\ r[4].verdict # "WAIT" /\ r[9].verdict # "WAIT" /\ r[10].verdict # "WAIT"
      /\ r[7].verdict = "WAIT" => d.label \in Timeouts /\ r[7].until = None
  BY <1>2, RulesOfTheCase DEF Says
<1>4. r[5].verdict = "WAIT" => Ahead(r[5])
  <2>1. SUFFICES ASSUME r[5].verdict = "WAIT" PROVE Ahead(r[5])
    OBVIOUS
  <2>2. /\ OpenPromises(c) # {} /\ DayOf(t) <= PromisedDay(c)
        /\ r[5].until \in Nat /\ DayOf(r[5].until) > PromisedDay(c)
    BY <1>2, <2>1, RuleOfPromises DEF Says
  <2>3. PromisedDay(c) \in Nat /\ DayOf(t) \in Nat /\ DayOf(r[5].until) \in Nat
    BY <2>2, PromisedDayIs, Moments
  <2>4. ~(DayOf(r[5].until) <= DayOf(t))
    BY <2>2, <2>3
  <2>5. ~(r[5].until <= t)
    BY <2>2, <2>4, DaysAreOrdered
  <2> QED BY <2>2, <2>5
<1>5. r[6].verdict = "WAIT" => Ahead(r[6])
  <2>1. GapUntil(c) \in Int /\ CapUntil(c, t) \in Int
    BY GapIs, CapIs DEF None
  <2>2. SUFFICES ASSUME r[6].verdict = "WAIT" PROVE Ahead(r[6])
    OBVIOUS
  <2>3. /\ t < GapUntil(c) \/ t < CapUntil(c, t)
        /\ r[6].until \in Nat /\ r[6].until >= GapUntil(c) /\ r[6].until >= CapUntil(c, t)
    BY <1>2, <2>2, RuleOfRetries DEF Says
  <2> QED BY <2>1, <2>3
<1>6. r[8].verdict = "WAIT" => Ahead(r[8])
  BY <1>2, RuleOfNight DEF Says
<1>7. /\ \A i \in 1 .. 10 : r[i].verdict = "WAIT" => until >= r[i].until
      /\ \E i \in 1 .. 10 : r[i].verdict = "WAIT" /\ until = r[i].until
  BY <1>1, DecisionIs
<1> HIDE DEF until
<1>8. PICK i \in 1 .. 10 : r[i].verdict = "WAIT" /\ until = r[i].until
  BY <1>7
<1>9. i = 5 \/ i = 6 \/ i = 7 \/ i = 8
  BY <1>3, <1>8
<1>10. i # 7 => until \in Nat /\ until > t
  <2>1. SUFFICES ASSUME i # 7 PROVE Ahead(r[i])
    BY <1>8
  <2> HIDE DEF Ahead
  <2> QED BY <1>4, <1>5, <1>6, <1>8, <1>9, <2>1
<1>11. i = 7 => until = None /\ d.label \in Timeouts
  BY <1>3, <1>8
<1>12. until = None => ~Runs(c, t)
  BY EvaluateIs DEF until, None
<1> QED BY <1>10, <1>11, <1>12 DEF until, None

-----------------------------------------------------------------------------
(* The plan                                                                *)

\* The first row whose condition holds is a row, its condition holds, and none before it
\* does, if the last one's does.
LEMMA FirstWhereIs ==
    ASSUME NEW table, NEW n \in Nat \ {0}, DOMAIN table = 1 .. n, table[n][1]
    PROVE  \E i \in 1 .. n :
              /\ table[i][1] /\ FirstWhere(table) = table[i][2]
              /\ \A j \in 1 .. n : table[j][1] => i <= j
<1> DEFINE places == {i \in DOMAIN table : table[i][1]}
<1>1. n \in 1 .. n
  OBVIOUS
<1>2. n \in places
  BY <1>1, Zenon
<1>3. /\ \A i \in places : i \in 1 .. n /\ table[i][1]
      /\ \A j \in 1 .. n : table[j][1] => j \in places
  BY Zenon
<1>4. FirstWhere(table) = table[Min(places)][2]
  BY Zenon DEF FirstWhere
<1> HIDE DEF places
<1>5. places \subseteq Nat /\ places # {}
  BY <1>2, <1>3
<1>6. Min(places) \in places /\ \A j \in places : Min(places) <= j
  BY <1>5, MinOfNats
<1>7. /\ Min(places) \in 1 .. n /\ table[Min(places)][1]
      /\ \A j \in 1 .. n : table[j][1] => Min(places) <= j
  BY <1>3, <1>6, Zenon
<1> QED BY <1>4, <1>7, Zenon

\* the strategies of a wait that has an end, and those of an ALLOW
Postponing == {"WAIT_FOR_PAYDAY", "HONOUR_PROMISE_TO_PAY", "RETRY_SILENTLY", "RETRY_PAYMENT"}
Reaching ==
    {"RETRY_PAYMENT", "SEND_PAYMENT_LINK", "SWITCH_PAYMENT_METHOD", "REQUEST_NEW_MANDATE",
     "ESCALATE_TO_HUMAN", "STOP_RECOVERY"}

\* Every decision has a strategy of its own kind; a wait honours a promise for its sake
\* only, and an outage that nobody promised anything in is waited for silently.
LEMMA StrategyIs ==
    ASSUME NEW d, NEW p, p.decision \in {"STOP", "ESCALATE", "DENY", "WAIT", "ALLOW"}
    PROVE  /\ Strategy(d, p) \in Strategies
           /\ p.decision \in {"STOP", "DENY"} => Strategy(d, p) = "STOP_RECOVERY"
           /\ p.decision = "ESCALATE" => Strategy(d, p) = "ESCALATE_TO_HUMAN"
           /\ Strategy(d, p) = "HONOUR_PROMISE_TO_PAY" =>
                 /\ p.decision = "WAIT"
                 /\ "PROMISE_ACTIVE" \in p.codes \/ p.rule = "promise_to_pay"
           /\ p.decision = "WAIT" => Strategy(d, p) \in Postponing
           /\ p.decision = "WAIT" /\ d.label \in Timeouts =>
                 Strategy(d, p) \in {"HONOUR_PROMISE_TO_PAY", "RETRY_SILENTLY"}
           /\ p.decision = "ALLOW" => Strategy(d, p) \in Reaching
<1> DEFINE promised == "PROMISE_ACTIVE" \in p.codes \/ p.rule = "promise_to_pay"
<1>1. /\ StrategyOnWait(d, p) \in Strategies /\ StrategyOnWait(d, p) \in Postponing
      /\ StrategyOnWait(d, p) = "HONOUR_PROMISE_TO_PAY" => promised
      /\ d.label \in Timeouts => StrategyOnWait(d, p) \in {"HONOUR_PROMISE_TO_PAY", "RETRY_SILENTLY"}
  <2> DEFINE table == <<
        <<"PROMISE_ACTIVE" \in p.codes \/ p.rule = "promise_to_pay", "HONOUR_PROMISE_TO_PAY">>,
        <<d.label \in Timeouts, "RETRY_SILENTLY">>,
        <<d.label = "INSUFFICIENT_FUNDS", "WAIT_FOR_PAYDAY">>,
        <<p.silent, "RETRY_SILENTLY">>,
        <<TRUE, "RETRY_PAYMENT">> >>
      n == 5
  <2>1. DOMAIN table = 1 .. n /\ table[n][1] /\ n \in Nat \ {0}
    OBVIOUS
  <2>2. \A i \in 1 .. n : table[i][2] \in Strategies /\ table[i][2] \in Postponing
    BY DEF Strategies, Postponing
  <2>3. StrategyOnWait(d, p) = FirstWhere(table)
    BY DEF StrategyOnWait
  <2>4. \A i \in 1 .. n : table[i][2] = "HONOUR_PROMISE_TO_PAY" => i = 1
    OBVIOUS
  <2>5. table[1][1] => promised
    OBVIOUS
  <2>6. /\ d.label \in Timeouts => 2 \in 1 .. n /\ table[2][1]
        /\ table[1][2] = "HONOUR_PROMISE_TO_PAY" /\ table[2][2] = "RETRY_SILENTLY"
    <3>1. 2 \in 1 .. n
      OBVIOUS
    <3>2. table[2] = <<d.label \in Timeouts, "RETRY_SILENTLY">> /\ table[1][2] = "HONOUR_PROMISE_TO_PAY"
      OBVIOUS
    <3> HIDE DEF table, n
    <3>3. table[2][1] = (d.label \in Timeouts) /\ table[2][2] = "RETRY_SILENTLY"
      BY <3>2
    <3> QED BY <3>1, <3>2, <3>3
  <2> HIDE DEF table, n
  <2>7. PICK i \in 1 .. n :
           /\ table[i][1] /\ FirstWhere(table) = table[i][2]
           /\ \A j \in 1 .. n : table[j][1] => i <= j
    BY <2>1, FirstWhereIs
  <2>8. /\ table[i][2] \in Strategies /\ table[i][2] \in Postponing
        /\ table[i][2] = "HONOUR_PROMISE_TO_PAY" => i = 1
    BY <2>2, <2>4, <2>7
  <2>9. d.label \in Timeouts => table[i][2] \in {"HONOUR_PROMISE_TO_PAY", "RETRY_SILENTLY"}
    <3>1. d.label \in Timeouts => i <= 2
      BY <2>6, <2>7, Zenon
    <3>2. i <= 2 => i = 1 \/ i = 2
      BY <2>1, <2>7
    <3> QED BY <2>6, <3>1, <3>2, Zenon
  <2> QED BY <2>3, <2>5, <2>7, <2>8, <2>9, Zenon
<1>2. /\ StrategyOnAllow(d, p) \in Strategies \ {"HONOUR_PROMISE_TO_PAY"}
      /\ StrategyOnAllow(d, p) \in Reaching
  <2> DEFINE table == <<
        <<d.label = "CARD_EXPIRED", "REQUEST_NEW_MANDATE">>,
        <<d.label = "AUTHENTICATION_FAILED", "SWITCH_PAYMENT_METHOD">>,
        <<"MANDATE_EXPIRED" \in p.codes \/ d.label = "MANDATE_REVOKED", "REQUEST_NEW_MANDATE">>,
        <<"PROMISE_BROKEN" \in p.codes, "ESCALATE_TO_HUMAN">>,
        <<d.label = "INSUFFICIENT_FUNDS", "SEND_PAYMENT_LINK">>,
        <<d.label \in Timeouts, "RETRY_PAYMENT">>,
        <<d.label \in {"ALREADY_PAID", "DUPLICATE_PAYMENT"}, "STOP_RECOVERY">>,
        <<d.label = "CHARGEBACK_ACTIVE", "ESCALATE_TO_HUMAN">>,
        <<TRUE, "SEND_PAYMENT_LINK">> >>
      n == 9
  <2>1. DOMAIN table = 1 .. n /\ table[n][1] /\ n \in Nat \ {0}
    OBVIOUS
  <2>2. \A i \in 1 .. n : table[i][2] \in Strategies \ {"HONOUR_PROMISE_TO_PAY"} /\ table[i][2] \in Reaching
    BY DEF Strategies, Reaching
  <2>3. StrategyOnAllow(d, p) = FirstWhere(table)
    BY DEF StrategyOnAllow
  <2> HIDE DEF table, n
  <2>4. PICK i \in 1 .. n : table[i][1] /\ FirstWhere(table) = table[i][2]
    BY <2>1, FirstWhereIs
  <2> QED BY <2>2, <2>3, <2>4
<1>3. CASE p.decision \in {"STOP", "DENY"}
  BY <1>3 DEF Strategy, Strategies
<1>4. CASE p.decision = "ESCALATE"
  BY <1>4 DEF Strategy, Strategies
<1>5. CASE p.decision = "WAIT"
  BY <1>1, <1>5, Zenon DEF Strategy
<1>6. CASE p.decision = "ALLOW"
  BY <1>2, <1>6 DEF Strategy
<1> QED BY <1>3, <1>4, <1>5, <1>6

\* A wait is for a promise only if one runs: the other waits have other names.
LEMMA PromiseIsHonoured ==
    ASSUME NEW c, Loaded(c), NEW d, NEW t \in Nat,
           Evaluate(c, d, t).decision = "WAIT",
           \/ "PROMISE_ACTIVE" \in Evaluate(c, d, t).codes
           \/ Evaluate(c, d, t).rule = "promise_to_pay"
    PROVE  Runs(c, t)
<1> DEFINE r == Results(c, d, t)
           p == Fold(r, d)
           blocking == {i \in DOMAIN r : r[i].verdict # "PASS"}
           Other(result) == result.rule # "promise_to_pay" /\ "PROMISE_ACTIVE" \notin result.codes
<1>1. SUFFICES ASSUME ~Runs(c, t) PROVE FALSE
  OBVIOUS
<1>2. TenResults(r) /\ DOMAIN r = 1 .. 10 /\ Evaluate(c, d, t) = p
  BY ResultsAreTen DEF Evaluate, TenResults
<1>3. p.decision = "WAIT" /\ ("PROMISE_ACTIVE" \in p.codes \/ p.rule = "promise_to_pay")
  BY <1>2
<1>4. /\ r[1] = RuleAlreadyPaid(c, d) /\ r[2] = RuleChargeback(c, d) /\ r[3] = RuleConsent(c)
      /\ r[4] = RuleMandate(c, d) /\ r[5] = RulePromise(c, t) /\ r[6] = RuleRetryCooldown(c, t)
      /\ r[7] = RuleOutage(c, d) /\ r[8] = RuleDnd(t) /\ r[9] = RuleChurn(c, d)
      /\ r[10] = RuleHighValue(c)
  BY DEF Results
<1>5. \A i \in 1 .. 10 : i = 1 \/ i = 2 \/ i = 3 \/ i = 4 \/ i = 5 \/ i = 6 \/ i = 7
                         \/ i = 8 \/ i = 9 \/ i = 10
  OBVIOUS
<1>6. Other(r[6]) /\ Other(r[7]) /\ Other(r[8])
  <2>1. Other(RuleRetryCooldown(c, t))
    BY DEF RuleRetryCooldown, Waits, Passes
  <2>2. Other(RuleOutage(c, d)) /\ Other(RuleDnd(t))
    BY DEF RuleOutage, RuleDnd, Blocks, Passes
  <2> QED BY <1>4, <2>1, <2>2
<1>7. /\ p.codes = (IF blocking = {} THEN Lead(r) ELSE Winner(r)).codes
                   \cup UNION {r[i].codes : i \in blocking}
      /\ p.rule = (IF blocking = {} THEN Lead(r) ELSE Winner(r)).rule
  BY DEF Fold
<1> HIDE DEF r, p
<1>8. /\ r[1].verdict # "WAIT" /\ r[2].verdict # "WAIT" /\ r[3].verdict # "WAIT"
      /\ r[4].verdict # "WAIT" /\ r[9].verdict # "WAIT" /\ r[10].verdict # "WAIT"
  BY <1>4, RulesOfTheCase DEF Says
<1>9. r[5].verdict # "WAIT"
  BY <1>1, <1>4, RuleOfPromises DEF Says, Runs
<1>10. \A i \in 1 .. 10 : r[i].verdict = "WAIT" => Other(r[i])
  <2> HIDE DEF Other
  <2> QED BY <1>5, <1>6, <1>8, <1>9
<1>11. /\ \A i \in 1 .. 10 : r[i].verdict \in {"WAIT", "PASS"}
       /\ \E i \in 1 .. 10 : r[i].verdict = "WAIT"
  BY <1>2, <1>3, DecisionIs DEF p
<1>12. blocking # {} /\ \A i \in blocking : i \in 1 .. 10 /\ r[i].verdict = "WAIT"
  BY <1>2, <1>11
<1>13. PICK w \in 1 .. 10 :
          /\ Winner(r) = r[w]
          /\ \A j \in 1 .. 10 : Severity(r[j].verdict) <= Severity(r[w].verdict)
  BY <1>2, WinnerIs
<1>14. r[w].verdict = "WAIT"
  <2>1. PICK j \in 1 .. 10 : r[j].verdict = "WAIT"
    BY <1>11
  <2>2. Severity(r[w].verdict) >= 1
    BY <1>13, <2>1 DEF Severity
  <2> QED BY <1>11, <2>2 DEF Severity
<1>15. Other(r[w]) /\ \A i \in blocking : Other(r[i])
  <2> HIDE DEF Other, blocking
  <2> QED BY <1>10, <1>12, <1>14
<1>16. p.rule = r[w].rule /\ p.codes = r[w].codes \cup UNION {r[i].codes : i \in blocking}
  <2> HIDE DEF blocking
  <2> QED BY <1>7, <1>12, <1>13
<1> HIDE DEF blocking
<1> QED BY <1>3, <1>15, <1>16

\* Contact is planned for the hours of contact by the merchant's clock, after the moment
\* and the cooldown that are asked for, and a payday's retry for a payday; to stop is for
\* now, a silent retry for later.
LEMMA ScheduleIs ==
    ASSUME NEW c, Loaded(c), NEW p, p.until \in Nat \cup {None}, NEW t \in Nat, t >= Day,
           NEW strategy \in Strategies,
           strategy = "HONOUR_PROMISE_TO_PAY" => OpenPromises(c) # {}
    PROVE  LET at == ScheduleOf(strategy, c, p, t).at
           IN  /\ at \in Nat
               /\ strategy \notin {"STOP_RECOVERY", "HONOUR_PROMISE_TO_PAY"} =>
                     at >= t /\ at >= p.until /\ InContactWindow(ToLocal(at, c.ahead))
               /\ strategy = "WAIT_FOR_PAYDAY" => InPaydayWindow(ToLocal(at, c.ahead))
               /\ strategy = "STOP_RECOVERY" => at = t
               /\ strategy = "HONOUR_PROMISE_TO_PAY" => at >= p.until
               /\ strategy = "RETRY_SILENTLY" => at > t
<1> DEFINE at == ScheduleOf(strategy, c, p, t).at
           later == Later(t, p.until)
<1>1. p.until \in Int /\ t \in Int
  BY DEF None
<1>2. /\ later \in Nat /\ later >= t /\ later >= p.until /\ later >= Day
      /\ c.ahead \in Zones
  BY <1>1, LaterOf, PartsOfCase DEF Loaded, Day
<1>3. CASE strategy = "STOP_RECOVERY"
  BY <1>3 DEF ScheduleOf, Timed
<1>4. CASE strategy = "HONOUR_PROMISE_TO_PAY"
  <2> DEFINE morning == FromLocal(At(PromisedDay(c), Morning), c.ahead)
  <2>1. PromisedDay(c) \in Nat \ {0}
    BY <1>4, PromisedDayIs
  <2>2. morning \in Nat
    BY <1>2, <2>1, Quarters DEF At, Day, FromLocal, Zones
  <2>3. at = Later(morning, p.until)
    BY <1>4 DEF ScheduleOf, PromiseTiming, Timed
  <2>4. at \in Nat /\ at >= p.until
    <3> HIDE DEF morning, at
    <3> QED BY <1>1, <2>2, <2>3 DEF Later
  <2> QED BY <1>4, <2>4
<1>5. CASE strategy = "WAIT_FOR_PAYDAY"
  <2>1. at = FromLocal(PaydaySlot(ToLocal(later, c.ahead)), c.ahead)
    BY <1>5 DEF ScheduleOf, PaydayTiming, Timed
  <2>2. /\ at \in Nat /\ at >= later
        /\ InPaydayWindow(ToLocal(at, c.ahead)) /\ InContactWindow(ToLocal(at, c.ahead))
    <3> HIDE DEF later, at
    <3> QED BY <1>2, <2>1, LocalPaydayLies
  <2>3. at >= t /\ at >= p.until
    <3> HIDE DEF later, at
    <3> QED BY <1>1, <1>2, <2>2
  <2> QED BY <1>5, <2>2, <2>3
<1>6. CASE strategy = "RETRY_SILENTLY"
  <2> DEFINE wait == Later(t + OutageDelay, p.until)
  <2>1. wait \in Nat /\ wait > t /\ wait >= p.until /\ wait >= Day
    <3>1. t + OutageDelay \in Int /\ t + OutageDelay > t
      BY DEF OutageDelay, Hour
    <3>2. wait \in {t + OutageDelay, p.until} /\ wait >= t + OutageDelay /\ wait >= p.until
      BY <1>1, <3>1, LaterOf
    <3> HIDE DEF wait
    <3> QED BY <1>1, <3>1, <3>2 DEF Day
  <2>2. at = BusinessSlot(wait, c.ahead)
    BY <1>6 DEF ScheduleOf, SilentTiming, Timed
  <2>3. at \in Nat /\ at >= wait /\ InContactWindow(ToLocal(at, c.ahead))
    <3> HIDE DEF wait, at
    <3> QED BY <1>2, <2>1, <2>2, BusinessSlotLies
  <2>4. at > t /\ at >= p.until
    <3> HIDE DEF wait, at
    <3> QED BY <1>1, <2>1, <2>3
  <2> QED BY <1>6, <2>3, <2>4
<1>7. CASE strategy \notin {"STOP_RECOVERY", "HONOUR_PROMISE_TO_PAY", "WAIT_FOR_PAYDAY", "RETRY_SILENTLY"}
  <2>1. at = BusinessSlot(later, c.ahead)
    BY <1>7 DEF ScheduleOf, ContactTiming, Timed
  <2>2. at \in Nat /\ at >= later /\ InContactWindow(ToLocal(at, c.ahead))
    <3> HIDE DEF later, at
    <3> QED BY <1>2, <2>1, BusinessSlotLies
  <2>3. at >= t /\ at >= p.until
    <3> HIDE DEF later, at
    <3> QED BY <1>1, <1>2, <2>2
  <2> QED BY <1>7, <2>2, <2>3
<1> QED BY <1>3, <1>4, <1>5, <1>6, <1>7

\* A probability is a score, and recovery that stops has none.
LEMMA ProbabilityIs ==
    ASSUME NEW c, Loaded(c), NEW d, d.confidence \in Nat, NEW strategy
    PROVE  /\ Probability(strategy, c, d) \in Nat
           /\ strategy = "STOP_RECOVERY" => Probability(strategy, c, d) = 0
<1> DEFINE base == IF strategy = "ESCALATE_TO_HUMAN" THEN 2200 ELSE 1800
           sure == (4 * d.confidence) \div 10
           rate == (16 * SuccessRate(c)) \div 100
           salary == Points(Salaried(c) /\ strategy = "WAIT_FOR_PAYDAY", 1000)
           segment == SegmentProbability(c.failure.segment)
           tries == (800 * Min({PlannedRetries(c), 3})) \div 3
           loyal == Points(c.failure.subscribed /\ c.failure.agedays >= 90, 500)
           sum == base + sure + rate + salary + segment - tries + loyal
<1>1. CASE strategy = "STOP_RECOVERY"
  BY <1>1 DEF Probability
<1>2. CASE strategy # "STOP_RECOVERY"
  <2>1. base \in Int /\ salary \in Int /\ loyal \in Int
    BY DEF Points
  <2>2. sure \in Int /\ rate \in Int
    <3>1. SuccessRate(c) \in Nat
      BY RateIsNumber
    <3> QED BY <3>1
  <2>3. segment \in Int
    BY PartsOfCase DEF Loaded, Failure, Segments, SegmentProbability
  <2>4. tries \in Int
    <3>1. IsFiniteSet(RetryRows(c))
      <4>1. /\ RetryRows(c) \in SUBSET Nat /\ \A i \in RetryRows(c) : i <= Len(c.actions)
            /\ Len(c.actions) \in Nat
        BY PartsOfCase DEF RetryRows, Loaded
      <4> QED BY <4>1, FS_BoundedSetOfNaturals
    <3>2. PlannedRetries(c) \in Int
      BY <3>1, FS_CardinalityType DEF PlannedRetries
    <3> DEFINE most == 3
               m == Min({PlannedRetries(c), most})
    <3>3. m \in Int
      <4>1. most \in Int
        OBVIOUS
      <4> HIDE DEF most
      <4>2. m \in {PlannedRetries(c), most}
        BY <3>2, <4>1, MaxOfTwo
      <4> QED BY <3>2, <4>1, <4>2
    <3> HIDE DEF m
    <3>4. (800 * m) \div 3 \in Int
      BY <3>3
    <3> QED BY <3>4 DEF m
  <2>5. Probability(strategy, c, d) = Clamp(sum, 500, 9500)
    BY <1>2 DEF Probability
  <2> DEFINE low == 500
             high == 9500
  <2>6. low \in Nat /\ low \in Int /\ high \in Int /\ low <= high
    OBVIOUS
  <2>7. sum \in Int
    <3> HIDE DEF base, sure, rate, salary, segment, tries, loyal
    <3> QED BY <2>1, <2>2, <2>3, <2>4
  <2>8. Clamp(sum, low, high) \in Nat
    <3> HIDE DEF low, high, sum
    <3>1. Clamp(sum, low, high) \in low .. high
      BY <2>6, <2>7, ClampBounds
    <3> QED BY <2>6, <3>1
  <2> QED BY <1>2, <2>5, <2>8
<1> QED BY <1>1, <1>2

\* What a plan is made of.
LEMMA PlanIs ==
    ASSUME NEW c, Loaded(c), NEW t \in Nat
    PROVE  LET d == Diagnose(c, t)
               p == Evaluate(c, d, t)
               plan == PlanCase(c, t)
           IN  /\ plan.strategy = Strategy(d, p)
               /\ plan.strategy \in Strategies /\ plan.fallback \in Strategies
               /\ plan.at = ScheduleOf(plan.strategy, c, p, t).at
               /\ plan.channels = ChannelsFor(plan.strategy, p) /\ plan.cost = CostOf(plan.channels)
               /\ plan.value \in Nat
               /\ plan.strategy = "STOP_RECOVERY" => plan.value = 0
<1> DEFINE d == Diagnose(c, t)
           p == Evaluate(c, d, t)
           strategy == Strategy(d, p)
           plan == PlanCase(c, t)
           chance == Probability(strategy, c, d)
<1>1. d.confidence \in Nat
  BY ConfidenceIsScore DEF Diagnose
<1>2. p.decision \in {"STOP", "ESCALATE", "DENY", "WAIT", "ALLOW"}
  BY EvaluateIs
<1>3. strategy \in Strategies
  BY <1>2, StrategyIs
<1>4. chance \in Nat /\ (strategy = "STOP_RECOVERY" => chance = 0)
  <2> HIDE DEF strategy, d
  <2> QED BY <1>1, ProbabilityIs
<1>5. c.failure.amount \in Nat
  BY PartsOfCase DEF Loaded, Failure
<1>6. /\ plan.strategy = strategy /\ plan.fallback = Fallback[strategy]
      /\ plan.at = ScheduleOf(strategy, c, p, t).at
      /\ plan.channels = ChannelsFor(strategy, p) /\ plan.cost = CostOf(plan.channels)
      /\ plan.value = (c.failure.amount * chance) \div 10000
  <2> DEFINE channels == ChannelsFor(strategy, p)
             sure == StrategyConfidence(strategy, c, d, p, ScheduleOf(strategy, c, p, t))
             amount == c.failure.amount
             timing == ScheduleOf(strategy, c, p, t)
  <2>1. plan = Assembled(strategy, timing, channels, chance, sure, amount)
    BY Zenon DEF PlanCase, Plan
  <2> HIDE DEF plan, timing, channels, chance, sure, amount, strategy
  <2>2. /\ plan.strategy = strategy /\ plan.fallback = Fallback[strategy]
        /\ plan.at = timing.at /\ plan.channels = channels /\ plan.cost = CostOf(channels)
        /\ plan.value = (amount * chance) \div 10000
    BY <2>1 DEF Assembled
  <2> QED BY <2>2 DEF timing, channels, amount
<1>7. Fallback[strategy] \in Strategies
  BY <1>3 DEF Strategies, Fallback
<1>8. /\ (c.failure.amount * chance) \div 10000 \in Nat
      /\ chance = 0 => (c.failure.amount * chance) \div 10000 = 0
  <2> DEFINE amount == c.failure.amount
  <2> HIDE DEF amount, chance
  <2>1. amount \in Nat /\ chance \in Nat
    BY <1>4, <1>5 DEF amount
  <2>2. amount * chance \in Nat /\ (chance = 0 => amount * chance = 0)
    BY <2>1
  <2> DEFINE m == amount * chance
  <2>3. m \div 10000 \in Nat /\ (m = 0 => m \div 10000 = 0)
    <3>1. m \in Nat
      BY <2>2
    <3> HIDE DEF m
    <3> QED BY <3>1
  <2> QED BY <2>2, <2>3 DEF amount
<1> HIDE DEF plan, strategy, chance, p, d
<1>9. /\ plan.strategy = strategy /\ plan.strategy \in Strategies /\ plan.fallback \in Strategies
      /\ plan.at = ScheduleOf(plan.strategy, c, p, t).at
      /\ plan.channels = ChannelsFor(plan.strategy, p) /\ plan.cost = CostOf(plan.channels)
      /\ plan.value \in Nat
      /\ plan.strategy = "STOP_RECOVERY" => plan.value = 0
  BY <1>3, <1>4, <1>6, <1>7, <1>8
<1> QED BY <1>9 DEF plan, strategy, p, d

\* When a plan is for.
LEMMA PlanLies ==
    ASSUME NEW c, Loaded(c), NEW t \in Nat, t >= Day
    PROVE  LET p == Evaluate(c, Diagnose(c, t), t)
               plan == PlanCase(c, t)
           IN  /\ plan.at \in Nat
               /\ plan.strategy \notin {"STOP_RECOVERY", "HONOUR_PROMISE_TO_PAY"} =>
                     plan.at >= t /\ plan.at >= p.until /\ InContactWindow(ToLocal(plan.at, c.ahead))
               /\ plan.strategy = "WAIT_FOR_PAYDAY" => InPaydayWindow(ToLocal(plan.at, c.ahead))
               /\ plan.strategy = "STOP_RECOVERY" => plan.at = t
               /\ plan.strategy = "HONOUR_PROMISE_TO_PAY" => plan.at >= p.until
               /\ plan.strategy = "RETRY_SILENTLY" => plan.at > t
<1> DEFINE d == Diagnose(c, t)
           p == Evaluate(c, d, t)
           plan == PlanCase(c, t)
           strategy == plan.strategy
<1>1. /\ strategy = Strategy(d, p) /\ strategy \in Strategies
      /\ plan.at = ScheduleOf(strategy, c, p, t).at
  BY PlanIs
<1>2. p.decision \in {"STOP", "ESCALATE", "DENY", "WAIT", "ALLOW"} /\ p.until \in Nat \cup {None}
  BY EvaluateIs
<1>3. strategy = "HONOUR_PROMISE_TO_PAY" => OpenPromises(c) # {}
  <2>1. SUFFICES ASSUME strategy = "HONOUR_PROMISE_TO_PAY" PROVE OpenPromises(c) # {}
    OBVIOUS
  <2>2. p.decision = "WAIT" /\ ("PROMISE_ACTIVE" \in p.codes \/ p.rule = "promise_to_pay")
    <3>1. Strategy(d, p) = "HONOUR_PROMISE_TO_PAY"
      BY <1>1, <2>1
    <3> HIDE DEF d, p
    <3> QED BY <1>2, <3>1, StrategyIs
  <2>3. Runs(c, t)
    BY <2>2, PromiseIsHonoured
  <2> QED BY <2>3 DEF Runs
<1> HIDE DEF strategy, p, plan
<1>4. /\ plan.at \in Nat
      /\ strategy \notin {"STOP_RECOVERY", "HONOUR_PROMISE_TO_PAY"} =>
            plan.at >= t /\ plan.at >= p.until /\ InContactWindow(ToLocal(plan.at, c.ahead))
      /\ strategy = "WAIT_FOR_PAYDAY" => InPaydayWindow(ToLocal(plan.at, c.ahead))
      /\ strategy = "STOP_RECOVERY" => plan.at = t
      /\ strategy = "HONOUR_PROMISE_TO_PAY" => plan.at >= p.until
      /\ strategy = "RETRY_SILENTLY" => plan.at > t
  BY <1>1, <1>2, <1>3, ScheduleIs
<1> QED BY <1>4 DEF strategy, p, plan

\* A dispute is never allowed: the rule that escalates it fails the pass.
LEMMA ChargebackIsNotAllowed ==
    ASSUME NEW c, Loaded(c), NEW d, d.label = "CHARGEBACK_ACTIVE", NEW t \in Nat
    PROVE  Evaluate(c, d, t).decision # "ALLOW"
<1> DEFINE r == Results(c, d, t)
<1>1. TenResults(r) /\ Evaluate(c, d, t) = Fold(r, d)
  BY ResultsAreTen DEF Evaluate
<1>2. r[2].verdict = "ESCALATE"
  <2>1. r[2] = RuleChargeback(c, d)
    BY DEF Results
  <2> QED BY <2>1, RulesOfTheCase DEF Says
<1> HIDE DEF r
<1>3. Fold(r, d).decision = "ALLOW" => \A i \in 1 .. 10 : r[i].verdict = "PASS"
  BY <1>1, DecisionIs
<1>4. 2 \in 1 .. 10
  OBVIOUS
<1> QED BY <1>1, <1>2, <1>3, <1>4

-----------------------------------------------------------------------------
(* Quiet customers                                                         *)

\* Whatever blocks channels silences.
LEMMA BlocksSilence ==
    /\ \A rule, verdict, code : Blocks(rule, verdict, code).silences = TRUE
    /\ \A rule, verdict, code : [Blocks(rule, verdict, code) EXCEPT !.silent = TRUE].silences = TRUE
    /\ \A rule, verdict, code, until :
          /\ [Blocks(rule, verdict, code) EXCEPT !.until = until].silences = TRUE
          /\ [Blocks(rule, verdict, code) EXCEPT !.silent = TRUE, !.until = until].silences = TRUE
BY DEF Blocks, Passes

\* Without consent, in an outage, at night and while a promise runs nothing but the
\* dashboard is granted.
LEMMA QuietGrants ==
    ASSUME NEW c, Loaded(c), NEW d, NEW t \in Nat,
           \/ c.failure.consent # "GRANTED" \/ d.label \in Timeouts
           \/ ~InContactWindow(t) \/ Runs(c, t)
    PROVE  Granted(Evaluate(c, d, t)) = {Dashboard}
<1> DEFINE r == Results(c, d, t)
           p == Fold(r, d)
<1>1. DOMAIN r = 1 .. 10 /\ Evaluate(c, d, t) = p
  BY ResultsAreTen DEF TenResults, Evaluate
<1>2. /\ r[3] = RuleConsent(c) /\ r[5] = RulePromise(c, t) /\ r[7] = RuleOutage(c, d)
      /\ r[8] = RuleDnd(t)
  BY DEF Results
<1>3. 3 \in 1 .. 10 /\ 5 \in 1 .. 10 /\ 7 \in 1 .. 10 /\ 8 \in 1 .. 10
  OBVIOUS
<1>4. p.allowed = Allowed(r, p.decision)
  <2> DEFINE blocking == {i \in DOMAIN r : r[i].verdict # "PASS"}
             winner == IF blocking = {} THEN Lead(r) ELSE Winner(r)
             decision == DecisionOf(winner.verdict)
             waits == {i \in DOMAIN r : r[i].verdict = "WAIT"}
             until == IF decision # "WAIT" THEN None ELSE Max({r[i].until : i \in waits})
             silent == decision = "WAIT" /\ \E i \in waits : r[i].silent
             codes == winner.codes \cup UNION {r[i].codes : i \in blocking}
             review == \E i \in DOMAIN r : r[i].review
             priority == Clamp(d.priority + BoostOf(r), 0, 10000)
  <2> HIDE DEF r
  <2>1. p = [rule |-> winner.rule, decision |-> decision, until |-> until, silent |-> silent,
             codes |-> codes, allowed |-> Allowed(r, decision), review |-> review,
             priority |-> priority]
    BY DEF Fold
  <2> HIDE DEF p, winner, decision, until, silent, codes, review, priority
  <2> QED BY <2>1
<1> HIDE DEF r, p
<1>5. \E i \in 1 .. 10 : r[i].silences = TRUE
  <2>1. CASE c.failure.consent # "GRANTED"
    <3>1. c.failure.consent \in {"WITHDRAWN", "PENDING"}
      BY <2>1, PartsOfCase DEF Loaded, Failure
    <3>2. RuleConsent(c).silences = TRUE
      BY <3>1, BlocksSilence DEF RuleConsent
    <3> QED BY <1>2, <1>3, <3>2
  <2>2. CASE d.label \in Timeouts
    <3>1. RuleOutage(c, d).silences = TRUE
      BY <2>2, BlocksSilence, Zenon DEF RuleOutage
    <3> QED BY <1>2, <1>3, <3>1
  <2>3. CASE ~InContactWindow(t)
    <3>1. RuleDnd(t).silences = TRUE
      BY <2>3, BlocksSilence, Zenon DEF RuleDnd
    <3> QED BY <1>2, <1>3, <3>1
  <2>4. CASE Runs(c, t)
    <3>1. RulePromise(c, t).silences = TRUE
      <4>1. CASE \E q \in c.promises : q.status = "FULFILLED"
        BY <4>1, BlocksSilence, Zenon DEF RulePromise
      <4>2. CASE ~\E q \in c.promises : q.status = "FULFILLED"
        BY <2>4, <4>2, BlocksSilence, Zenon DEF RulePromise, Runs
      <4> QED BY <4>1, <4>2
    <3> QED BY <1>2, <1>3, <3>1
  <2> QED BY <2>1, <2>2, <2>3, <2>4
<1>6. \E i \in DOMAIN r : r[i].silences
  <2>1. PICK i \in 1 .. 10 : r[i].silences = TRUE
    BY <1>5
  <2> QED BY <1>1, <2>1, Zenon
<1>7. p.allowed = {}
  BY <1>4, <1>6, Zenon DEF Allowed
<1>8. Granted(p) = {Dashboard}
  BY <1>7 DEF Granted
<1> QED BY <1>1, <1>8

\* The dashboard is last of five.
LEMMA NamedLast ==
    ASSUME NEW a, NEW b, NEW c, NEW d, NEW preferred, preferred = <<a, b, c, d, Dashboard>>,
           {a, b, c, d} \subseteq {"WhatsApp", "SMS", "Email"} \cup Links
    PROVE  \E at \in DOMAIN preferred :
              \A i \in DOMAIN preferred : preferred[i] = Dashboard <=> i = at
<1>1. /\ DOMAIN preferred = 1 .. 5 /\ preferred[5] = Dashboard
      /\ preferred[1] = a /\ preferred[2] = b /\ preferred[3] = c /\ preferred[4] = d
  OBVIOUS
<1>2. Dashboard \notin {"WhatsApp", "SMS", "Email"} \cup Links
  BY DEF Dashboard, Links
<1>3. \A i \in 1 .. 5 : preferred[i] = Dashboard <=> i = 5
  BY <1>1, <1>2
<1> QED BY <1>1, <1>3

\* Every strategy may use the dashboard, and names it once.
LEMMA DashboardIsPreferred ==
    ASSUME NEW strategy \in Strategies
    PROVE  \E at \in DOMAIN Preferred[strategy] :
              \A i \in DOMAIN Preferred[strategy] : Preferred[strategy][i] = Dashboard <=> i = at
<1> DEFINE preferred == Preferred[strategy]
<1>1. CASE strategy \in {"RETRY_SILENTLY", "STOP_RECOVERY"}
  <2>1. preferred = <<Dashboard>>
    BY <1>1 DEF Preferred
  <2> HIDE DEF preferred
  <2>2. DOMAIN preferred = 1 .. 1 /\ preferred[1] = Dashboard
    BY <2>1
  <2> QED BY <2>2 DEF preferred
<1>2. CASE strategy = "ESCALATE_TO_HUMAN"
  <2>1. preferred = <<"Voice", Dashboard, "Email">>
    BY <1>2 DEF Preferred
  <2> HIDE DEF preferred
  <2>2. /\ DOMAIN preferred = 1 .. 3 /\ preferred[2] = Dashboard
        /\ preferred[1] = "Voice" /\ preferred[3] = "Email"
    BY <2>1
  <2>3. \A i \in 1 .. 3 : preferred[i] = Dashboard <=> i = 2
    BY <2>2 DEF Dashboard
  <2> QED BY <2>2, <2>3 DEF preferred
<1>3. CASE strategy = "HONOUR_PROMISE_TO_PAY"
  <2>1. preferred = <<"WhatsApp", "SMS", "Email", Dashboard>>
    BY <1>3 DEF Preferred
  <2> HIDE DEF preferred
  <2>2. /\ DOMAIN preferred = 1 .. 4 /\ preferred[4] = Dashboard
        /\ preferred[1] = "WhatsApp" /\ preferred[2] = "SMS" /\ preferred[3] = "Email"
    BY <2>1
  <2>3. \A i \in 1 .. 4 : preferred[i] = Dashboard <=> i = 4
    BY <2>2 DEF Dashboard
  <2> QED BY <2>2, <2>3 DEF preferred
<1>4. CASE strategy \in {"WAIT_FOR_PAYDAY", "RETRY_PAYMENT", "SEND_PAYMENT_LINK",
                         "SWITCH_PAYMENT_METHOD", "REQUEST_NEW_MANDATE"}
  <2>1. CASE strategy = "WAIT_FOR_PAYDAY"
    BY <2>1, NamedLast DEF Preferred, Links
  <2>2. CASE strategy = "RETRY_PAYMENT"
    BY <2>2, NamedLast DEF Preferred, Links
  <2>3. CASE strategy = "SEND_PAYMENT_LINK"
    BY <2>3, NamedLast DEF Preferred, Links
  <2>4. CASE strategy = "SWITCH_PAYMENT_METHOD"
    BY <2>4, NamedLast DEF Preferred, Links
  <2>5. CASE strategy = "REQUEST_NEW_MANDATE"
    BY <2>5, NamedLast DEF Preferred, Links
  <2> QED BY <1>4, <2>1, <2>2, <2>3, <2>4, <2>5
<1> QED BY <1>1, <1>2, <1>3, <1>4 DEF Strategies

\* Where the dashboard alone is granted, it is the only channel.
LEMMA PickedAlone ==
    ASSUME NEW strategy \in Strategies
    PROVE  Picked(Preferred[strategy], {Dashboard}) = {Dashboard}
<1> DEFINE preferred == Preferred[strategy]
           wanted == {i \in DOMAIN preferred : preferred[i] \in {Dashboard}}
           first == {j \in wanted : Cardinality({k \in wanted : k < j}) < MaxChannels}
<1>1. PICK at \in DOMAIN preferred : \A i \in DOMAIN preferred : preferred[i] = Dashboard <=> i = at
  BY DashboardIsPreferred
<1>2. at \in Nat
  <2>1. DOMAIN preferred \subseteq Nat
    BY DEF Preferred, Strategies
  <2> QED BY <1>1, <2>1
<1>3. wanted = {at} /\ preferred[at] = Dashboard
  BY <1>1
<1>4. first = {at}
  <2>1. {k \in wanted : k < at} = {}
    BY <1>2, <1>3
  <2>2. Cardinality({k \in wanted : k < at}) = 0
    BY <2>1, FS_EmptySet
  <2> QED BY <1>3, <2>2 DEF MaxChannels
<1>5. Picked(preferred, {Dashboard}) = {preferred[i] : i \in first}
  BY DEF Picked
<1> QED BY <1>3, <1>4, <1>5

\* The dashboard alone is ranked first, and free.
LEMMA RankedAlone == Ranked({Dashboard}) = <<Dashboard>> /\ CostOf(<<Dashboard>>) = 0
<1> DEFINE better(channel) == {other \in {Dashboard} : Outranks(other, channel)}
<1>1. ~Outranks(Dashboard, Dashboard)
  <2>1. /\ DOMAIN Ranking = 1 .. 7
        /\ \A i \in 1 .. 7 : Ranking[i] = Dashboard => i = 7
    BY DEF Ranking, Dashboard
  <2> QED BY <2>1 DEF Outranks
<1>2. better(Dashboard) = {} /\ Cardinality(better(Dashboard)) = 0
  BY <1>1, FS_EmptySet
<1>3. Cardinality({Dashboard}) = 1
  BY FS_Singleton
<1>4. (CHOOSE channel \in {Dashboard} : Cardinality(better(channel)) = 1 - 1) = Dashboard
  BY <1>2
<1>5. Ranked({Dashboard}) =
         [i \in 1 .. 1 |-> CHOOSE channel \in {Dashboard} : Cardinality(better(channel)) = i - 1]
  BY <1>3 DEF Ranked
<1> HIDE DEF better
<1>6. Ranked({Dashboard}) = <<Dashboard>>
  <2> DEFINE pick(i) == CHOOSE channel \in {Dashboard} : Cardinality(better(channel)) = i - 1
  <2>1. pick(1) = Dashboard
    BY <1>4
  <2> HIDE DEF pick
  <2>2. [i \in 1 .. 1 |-> pick(i)] = [i \in 1 .. 1 |-> Dashboard]
    BY <2>1
  <2>3. [i \in 1 .. 1 |-> Dashboard] = <<Dashboard>>
    OBVIOUS
  <2>4. Ranked({Dashboard}) = [i \in 1 .. 1 |-> pick(i)]
    BY <1>5, Zenon DEF pick
  <2> QED BY <2>2, <2>3, <2>4
<1>7. CostOf(<<Dashboard>>) = 0
  <2> DEFINE channels == <<Dashboard>>
  <2>1. \A i \in DOMAIN channels : channels[i] = Dashboard
    OBVIOUS
  <2>2. Dashboard # "SMS" /\ Dashboard # "WhatsApp" /\ Dashboard # "Voice"
    BY DEF Dashboard
  <2> HIDE DEF channels
  <2>3. CostOf(channels) = 0 + 0 + 0
    BY <2>1, <2>2, Zenon DEF CostOf
  <2> QED BY <2>3 DEF channels
<1> QED BY <1>6, <1>7

\* A plan for which nothing but the dashboard is granted has the dashboard only.
LEMMA QuietPlan ==
    ASSUME NEW c, Loaded(c), NEW t \in Nat,
           Granted(Evaluate(c, Diagnose(c, t), t)) = {Dashboard}
    PROVE  PlanCase(c, t).channels = <<Dashboard>> /\ PlanCase(c, t).cost = 0
<1> DEFINE p == Evaluate(c, Diagnose(c, t), t)
           plan == PlanCase(c, t)
<1>1. /\ plan.strategy \in Strategies
      /\ plan.channels = ChannelsFor(plan.strategy, p) /\ plan.cost = CostOf(plan.channels)
  BY PlanIs
<1>2. ChannelsFor(plan.strategy, p) = Ranked(Picked(Preferred[plan.strategy], {Dashboard}))
  BY DEF ChannelsFor
<1>3. Picked(Preferred[plan.strategy], {Dashboard}) = {Dashboard}
  <2> HIDE DEF plan
  <2> QED BY <1>1, PickedAlone
<1> HIDE DEF plan, p
<1>4. plan.channels = <<Dashboard>> /\ plan.cost = 0
  BY <1>1, <1>2, <1>3, RankedAlone
<1> QED BY <1>4 DEF plan
=============================================================================
