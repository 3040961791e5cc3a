----------------------------- MODULE PartsProofs -----------------------------
(***************************************************************************)
(* What the small parts guarantee for every value of their constants.      *)
(* In each behaviour one part runs; a part that stands still keeps its     *)
(* invariant, so that each part is proved by itself.                       *)
(***************************************************************************)
EXTENDS MCParts, ChunkPlanProofs, FiniteSetTheorems, SequenceTheorems

(* A step is one of a part or leaves it alone.                             *)
LEMMA OnePart ==
  ASSUME [Next]_vars
  PROVE  /\ Race!Next \/ UNCHANGED race
         /\ Remote!Next \/ UNCHANGED remote
         /\ Cut!Next \/ UNCHANGED cut
         /\ Log!Next \/ UNCHANGED log
         /\ Dash!Next \/ UNCHANGED dash
         /\ Page!Next \/ UNCHANGED certPage
         /\ Endpoint!Next \/ UNCHANGED endpoint
BY DEF Next, vars
-----------------------------------------------------------------------------
(* Induction over data, without an operator as a parameter: a set of numbers *)
(* that is not empty has a least one, since < is well-founded.             *)

LEMMA Least ==
  ASSUME NEW T \in SUBSET Nat, T # {}
  PROVE  \E x \in T : \A y \in T : x <= y
<1> DEFINE R == {p \in Nat \X Nat : p[1] < p[2]}
<1>1. OpToRel(<, Nat) = R
  BY DEF OpToRel
<1>2. IsWellFoundedOn(R, Nat)
  BY <1>1, NatLessThanWellFounded
<1> HIDE DEF R
<1>3. PICK x \in T : \A y \in T : ~ (<<y, x>> \in R)
  BY <1>2, WFMin
<1>4. ASSUME NEW y \in T PROVE x <= y
  <2>1. x \in Nat /\ y \in Nat
    OBVIOUS
  <2>2. ~(y < x)
    <3>1. <<y, x>> \notin R
      BY <1>3, <1>4
    <3>2. <<y, x>> \in Nat \X Nat
      BY <2>1
    <3>3. <<y, x>>[1] = y /\ <<y, x>>[2] = x
      OBVIOUS
    <3> QED
      BY <3>1, <3>2, <3>3 DEF R
  <2> QED
    BY <2>1, <2>2
<1> QED
  BY <1>3, <1>4

LEMMA Induct ==
  ASSUME NEW S, 0 \in S, \A n \in Nat : n \in S => n + 1 \in S
  PROVE  Nat \subseteq S
<1> SUFFICES ASSUME Nat \ S # {} PROVE FALSE
  OBVIOUS
<1>1. PICK x \in Nat \ S : \A y \in Nat \ S : x <= y
  BY Least
<1>2. x # 0 /\ x - 1 \in Nat
  BY <1>1
<1>3. x - 1 \in S
  BY <1>1, <1>2
<1> QED
  BY <1>1, <1>2, <1>3

LEMMA Greatest ==
  ASSUME NEW n \in Nat, NEW T \in SUBSET (0..n), T # {}
  PROVE  \E x \in T : \A y \in T : y <= x
<1> DEFINE D == {n - y : y \in T}
<1>1. D \in SUBSET Nat
  <2>1. \A y \in T : n - y \in Nat
    OBVIOUS
  <2> QED
    BY <2>1
<1>2. D # {}
  OBVIOUS
<1> HIDE DEF D
<1>3. PICK d \in D : \A e \in D : d <= e
  BY <1>1, <1>2, Least
<1>4. PICK x \in T : d = n - x
  BY <1>3 DEF D
<1>5. ASSUME NEW y \in T PROVE y <= x
  <2>1. n - y \in D
    BY DEF D
  <2>2. n - x <= n - y
    BY <1>3, <1>4, <2>1
  <2> QED
    BY <2>2
<1> QED
  BY <1>4, <1>5

(* The elements of a set of numbers, in order.                             *)
Ascending(s) == \A p, q \in DOMAIN s : p < q => s[p] < s[q]

LEMMA Sorting ==
  ASSUME NEW n \in Nat, NEW S \in SUBSET (1..n)
  PROVE  \E s \in [1..Cardinality(S) -> S] : Ascending(s)
<1> DEFINE Good(T) == \E s \in [1..Cardinality(T) -> T] : Ascending(s)
           Sizes == {m \in Nat : \A T \in SUBSET (1..n) : Cardinality(T) = m => Good(T)}
<1>1. \A T \in SUBSET (1..n) : IsFiniteSet(T) /\ Cardinality(T) \in Nat
  <2>1. IsFiniteSet(1..n)
    BY FS_Interval
  <2> QED
    BY <2>1, FS_Subset, FS_CardinalityType
<1>2. 0 \in Sizes
  <2> SUFFICES ASSUME NEW T \in SUBSET (1..n), Cardinality(T) = 0 PROVE Good(T)
    OBVIOUS
  <2>1. T = {}
    BY <1>1, FS_EmptySet
  <2>2. [i \in 1..0 |-> i] \in [1..0 -> T] /\ Ascending([i \in 1..0 |-> i])
    BY DEF Ascending
  <2> QED
    BY <2>2
<1>3. ASSUME NEW m \in Nat, m \in Sizes PROVE m + 1 \in Sizes
  <2> SUFFICES ASSUME NEW T \in SUBSET (1..n), Cardinality(T) = m + 1 PROVE Good(T)
    OBVIOUS
  <2>1. T # {}
    BY <1>1, FS_EmptySet
  <2>2. PICK x \in T : \A y \in T : y <= x
    <3>1. T \in SUBSET (0..n)
      OBVIOUS
    <3> QED
      BY <2>1, <3>1, Greatest
  <2>3. T \ {x} \in SUBSET (1..n) /\ Cardinality(T \ {x}) = m
    BY <1>1, <2>2, FS_RemoveElement
  <2>4. PICK s \in [1..m -> T \ {x}] : Ascending(s)
    BY <1>3, <2>3
  <2> DEFINE t == [i \in 1..(m + 1) |-> IF i = m + 1 THEN x ELSE s[i]]
  <2>5. t \in [1..(m + 1) -> T]
    OBVIOUS
  <2>6. ASSUME NEW p \in 1..(m + 1), NEW q \in 1..(m + 1), p < q PROVE t[p] < t[q]
    <3>1. p \in 1..m /\ t[p] = s[p] /\ s[p] \in T \ {x}
      BY <2>6
    <3>2. CASE q = m + 1
      <4>1. t[q] = x /\ s[p] # x /\ s[p] <= x /\ s[p] \in Nat /\ x \in Nat
        <5>1. t[q] = x
          BY <3>2
        <5>2. s[p] # x /\ s[p] <= x /\ s[p] \in 1..n /\ x \in 1..n
          BY <2>2, <3>1
        <5> QED
          BY <5>1, <5>2
      <4> QED
        BY <3>1, <4>1
    <3>3. CASE q # m + 1
      BY <2>4, <2>6, <3>1, <3>3 DEF Ascending
    <3> QED
      BY <3>2, <3>3
  <2> HIDE DEF t
  <2>7. Ascending(t)
    BY <2>5, <2>6 DEF Ascending
  <2> QED
    BY <2>5, <2>7
<1> HIDE DEF Sizes
<1>4. Cardinality(S) \in Sizes
  BY <1>1, <1>2, <1>3, Induct
<1> QED
  BY <1>4 DEF Sizes

(* The place of each is one more than there are before it.                 *)
LEMMA Places ==
  ASSUME NEW n \in Nat, NEW S \in SUBSET (1..n),
         NEW s \in [1..Cardinality(S) -> S], Ascending(s)
  PROVE  /\ \A i \in S : \E p \in DOMAIN s : s[p] = i
         /\ \A p \in DOMAIN s : Cardinality({k \in S : k < s[p]}) = p - 1
<1> DEFINE c == Cardinality(S)
<1>1. IsFiniteSet(S) /\ c \in Nat
  <2>1. IsFiniteSet(1..n)
    BY FS_Interval
  <2> QED
    BY <2>1, FS_Subset, FS_CardinalityType
<1> HIDE DEF c
<1>2. s \in [1..c -> S] /\ \A p, q \in 1..c : (p < q => s[p] < s[q]) /\ s[p] \in Nat
  <2>1. s \in [1..c -> S]
    BY DEF c
  <2>2. \A p \in 1..c : s[p] \in S /\ s[p] \in Nat
    <3>1. \A i \in S : i \in Nat
      OBVIOUS
    <3> QED
      BY <2>1, <3>1
  <2>3. DOMAIN s = 1..c
    BY <2>1
  <2> QED
    BY <2>1, <2>2, <2>3 DEF Ascending
<1>3. \A p, q \in 1..c : s[p] = s[q] => p = q
  BY <1>2
<1>4. s \in Surjection(1..c, S)
  <2>1. s \in Injection(1..c, S)
    BY <1>2, <1>3 DEF Injection, IsInjective
  <2>2. IsFiniteSet(1..c) /\ Cardinality(1..c) = c
    BY <1>1, FS_Interval
  <2> QED
    BY <1>1, <2>1, <2>2, FS_Injection DEF c
<1>5. \A i \in S : \E p \in 1..c : s[p] = i
  BY <1>4 DEF Surjection
<1>6. ASSUME NEW p \in 1..c
      PROVE  Cardinality({k \in S : k < s[p]}) = p - 1
  <2> DEFINE T == {k \in S : k < s[p]}
             f == [q \in 1..(p - 1) |-> s[q]]
  <2>1. f \in [1..(p - 1) -> T]
    <3>1. \A q \in 1..(p - 1) : q \in 1..c /\ q < p
      BY <1>1
    <3>2. \A q \in 1..(p - 1) : s[q] \in S /\ s[q] < s[p]
      BY <1>2, <3>1
    <3> QED
      BY <3>2
  <2>2. \A k \in T : \E q \in 1..(p - 1) : f[q] = k
    <3> SUFFICES ASSUME NEW k \in T PROVE \E q \in 1..(p - 1) : f[q] = k
      OBVIOUS
    <3>1. PICK q \in 1..c : s[q] = k
      BY <1>5
    <3>2. q < p
      <4>1. ~(p < q) /\ p # q
        BY <1>2, <3>1
      <4> QED
        BY <1>1, <4>1
    <3> QED
      BY <3>1, <3>2
  <2>3. \A q, r \in 1..(p - 1) : f[q] = f[r] => q = r
    BY <1>1, <1>3
  <2> HIDE DEF T, f
  <2>4. f \in Bijection(1..(p - 1), T)
    BY <2>1, <2>2, <2>3 DEF Bijection, Injection, Surjection, IsInjective
  <2>5. IsFiniteSet(1..(p - 1)) /\ Cardinality(1..(p - 1)) = p - 1
    <3>1. p - 1 \in Int /\ 1 \in Int /\ (1 > p - 1 => p - 1 = 0)
      BY <1>1
    <3> QED
      BY <3>1, FS_Interval
  <2>6. Cardinality(T) = p - 1
    BY <2>4, <2>5, FS_Bijection DEF ExistsBijection
  <2> QED
    BY <2>6 DEF T
<1> QED
  BY <1>2, <1>5, <1>6
-----------------------------------------------------------------------------
(* HedgedRace.                                                             *)

RaceArms == 1..NumArms
RaceClasses == {"quota", "auth", "throttle", "transient", "other"}
Ended == {i \in RaceArms : arm[i] = "ended"}

(* Every arm that has ended has a result in the channel or among the       *)
(* errors; and an answer that is an error was the last of them.            *)
RaceInv ==
  /\ pc \in {"collect", "returned"}
  /\ arm \in [RaceArms -> {"timer", "post", "ended"}]
  /\ results \in Seq(RaceClasses \cup {"reply"})
  /\ errs \in Seq(RaceClasses)
  /\ pc = "collect" =>
       /\ answer = "none" /\ raceCtx = callerCtx
       /\ Len(results) + Len(errs) = Cardinality(Ended)
       /\ Len(errs) < NumArms
  /\ pc = "returned" /\ answer \in RaceClasses =>
       /\ Ended = RaceArms /\ results = <<>>
       /\ Len(errs) = NumArms /\ answer = Race!WorstError(errs)

LEMMA RaceConstants ==
  /\ NumArms \in Nat \ {0} /\ Failures \subseteq RaceClasses /\ Hedged \in BOOLEAN
  /\ Race!Classes = RaceClasses /\ Race!Arms = RaceArms
  /\ IsFiniteSet(RaceArms) /\ Cardinality(RaceArms) = NumArms
<1>1. /\ NumArms \in Nat \ {0} /\ Failures \subseteq RaceClasses /\ Hedged \in BOOLEAN
      /\ Race!Classes = RaceClasses /\ Race!Arms = RaceArms
  BY PartsAssumption
  DEF Race!RaceAssumption, Race!Classes, Race!Arms, RaceClasses, RaceArms
<1>2. IsFiniteSet(1..NumArms) /\ Cardinality(1..NumArms) = NumArms
  <2>1. 1 \in Int /\ NumArms \in Int
    BY <1>1
  <2>2. /\ IsFiniteSet(1..NumArms)
        /\ Cardinality(1..NumArms) = IF 1 > NumArms THEN 0 ELSE NumArms - 1 + 1
    BY <2>1, FS_Interval
  <2> QED
    BY <1>1, <2>2
<1> QED
  BY <1>1, <1>2 DEF RaceArms

(* worstError: one of the errors, and none is worse.                       *)
LEMMA WorstIsWorst ==
  ASSUME NEW es \in Seq(RaceClasses), Len(es) > 0
  PROVE  \E k \in 1..Len(es) :
           /\ Race!WorstError(es) = es[k]
           /\ \A j \in 1..Len(es) : Race!Priority(es[j]) <= Race!Priority(es[k])
<1> DEFINE p(k) == Race!Priority(es[k])
           Worst(k) == \A j \in 1..Len(es) : p(j) <= p(k)
<1>1. \A k \in 1..Len(es) : p(k) \in 0..4
  <2> SUFFICES ASSUME NEW k \in 1..Len(es) PROVE p(k) \in 0..4
    OBVIOUS
  <2>1. es[k] \in RaceClasses
    OBVIOUS
  <2> QED
    BY <2>1 DEF RaceClasses, Race!Priority
<1> HIDE DEF p
<1>2. \E k \in 1..Len(es) : Worst(k)
  <2>1. 1 \in 1..Len(es)
    OBVIOUS
  <2>2. ASSUME NEW m \in 0..4, \A j \in 1..Len(es) : p(j) <= m
        PROVE  (\E i \in 1..Len(es) : Worst(i)) \/ (\A j \in 1..Len(es) : p(j) <= m - 1)
    <3>1. CASE \E k \in 1..Len(es) : p(k) = m
      BY <2>2, <3>1
    <3>2. CASE \A k \in 1..Len(es) : p(k) # m
      <4>1. ASSUME NEW j \in 1..Len(es) PROVE p(j) <= m - 1
        <5>1. p(j) \in 0..4 /\ p(j) <= m /\ p(j) # m
          BY <1>1, <2>2, <3>2
        <5> QED
          BY <5>1
      <4> QED
        BY <4>1
    <3> QED
      BY <3>1, <3>2
  <2>3. \A j \in 1..Len(es) : p(j) <= 4
    BY <1>1
  <2>4. ~(\A j \in 1..Len(es) : p(j) <= -1)
    BY <1>1, <2>1
  <2> DEFINE AtMost(m) == \A j \in 1..Len(es) : p(j) <= m
  <2>5. /\ 4 \in 0..4 /\ 3 \in 0..4 /\ 2 \in 0..4 /\ 1 \in 0..4 /\ 0 \in 0..4
        /\ 4 - 1 = 3 /\ 3 - 1 = 2 /\ 2 - 1 = 1 /\ 1 - 1 = 0 /\ 0 - 1 = -1
    OBVIOUS
  <2>6. \A m \in 0..4 : AtMost(m) => (\E i \in 1..Len(es) : Worst(i)) \/ AtMost(m - 1)
    BY <2>2
  <2>7. AtMost(4) /\ ~AtMost(-1)
    BY <2>3, <2>4
  <2> HIDE DEF AtMost, Worst
  <2> QED
    BY <2>5, <2>6, <2>7
<1> DEFINE worst == CHOOSE k \in 1..Len(es) : Worst(k)
<1>3. worst \in 1..Len(es) /\ Worst(worst)
  BY <1>2
<1>4. Race!WorstError(es) = es[worst]
  BY DEF Race!WorstError, p
<1> HIDE DEF worst
<1> QED
  BY <1>3, <1>4 DEF p

(* An arm sends its result: one more has ended.                            *)
LEMMA ArmSends ==
  ASSUME RaceInv, NEW i \in RaceArms, arm[i] # "ended",
         NEW result \in RaceClasses \cup {"reply"}, Race!Send(i, result),
         UNCHANGED <<pc, errs, callerCtx, raceCtx, answer>>
  PROVE  RaceInv'
<1>1. /\ arm' = [arm EXCEPT ![i] = "ended"] /\ results' = Append(results, result)
  BY DEF Race!Send
<1>2. /\ arm' \in [RaceArms -> {"timer", "post", "ended"}]
      /\ Ended' = Ended \cup {i} /\ i \notin Ended
  BY <1>1 DEF RaceInv, Ended
<1>3. IsFiniteSet(Ended)
  BY RaceConstants, FS_Subset DEF Ended
<1>4. Cardinality(Ended') = Cardinality(Ended) + 1
  BY <1>2, <1>3, FS_AddElement
<1>5. results' \in Seq(RaceClasses \cup {"reply"}) /\ Len(results') = Len(results) + 1
  BY <1>1 DEF RaceInv
<1>6. Len(results) \in Nat /\ Len(errs) \in Nat /\ Cardinality(Ended) \in Nat
  BY <1>3, FS_CardinalityType DEF RaceInv
<1>7. pc = "collect" => Len(results') + Len(errs) = Cardinality(Ended')
  BY <1>4, <1>5, <1>6 DEF RaceInv
<1>8. ~(pc = "returned" /\ answer \in RaceClasses)
  BY DEF RaceInv, Ended
<1> QED
  BY <1>2, <1>5, <1>7, <1>8 DEF RaceInv

LEMMA RaceStep ==
  ASSUME RaceInv, Race!Next
  PROVE  RaceInv'
<1>1. ASSUME NEW i \in RaceArms, Race!RunArm(i) PROVE RaceInv'
  <2>1. CASE Race!TimerFires(i)
    <3>1. /\ arm[i] = "timer" /\ arm' = [arm EXCEPT ![i] = "post"]
          /\ UNCHANGED <<pc, results, errs, callerCtx, raceCtx, answer>>
      BY <2>1 DEF Race!TimerFires
    <3>2. arm' \in [RaceArms -> {"timer", "post", "ended"}] /\ Ended' = Ended
      BY <3>1 DEF RaceInv, Ended
    <3> QED
      BY <3>1, <3>2 DEF RaceInv
  <2>2. Race!ContextClass \in RaceClasses
    BY DEF Race!ContextClass, RaceClasses
  <2>3. CASE Race!TimerCancelled(i)
    BY <2>2, <2>3, ArmSends DEF Race!TimerCancelled
  <2>4. CASE Race!PostReturns(i)
    <3>1. PICK result \in RaceClasses \cup {"reply"} : Race!Send(i, result)
      BY <2>2, <2>4, RaceConstants DEF Race!PostReturns
    <3> QED
      BY <2>4, <3>1, ArmSends DEF Race!PostReturns
  <2> QED
    BY <1>1, <2>1, <2>3, <2>4 DEF Race!RunArm
<1>2. CASE Race!Collect
  <2>1. /\ pc = "collect" /\ results # <<>> /\ results' = Tail(results)
        /\ arm' = arm /\ callerCtx' = callerCtx
        /\ Len(results) + Len(errs) = Cardinality(Ended) /\ Len(errs) < NumArms
        /\ answer = "none" /\ raceCtx = callerCtx
    BY <1>2 DEF Race!Collect, RaceInv
  <2>2. /\ results' \in Seq(RaceClasses \cup {"reply"}) /\ Len(results') = Len(results) - 1
        /\ Head(results) \in RaceClasses \cup {"reply"} /\ Len(results) \in Nat
        /\ Len(results) > 0 /\ Len(errs) \in Nat
    BY <2>1 DEF RaceInv
  <2>3. Ended' = Ended
    BY <2>1 DEF Ended
  <2>4. CASE Race!Return("reply") /\ UNCHANGED errs
    <3>1. pc' = "returned" /\ answer' = "reply" /\ errs' = errs
      BY <2>4 DEF Race!Return
    <3> QED
      BY <2>1, <2>2, <3>1 DEF RaceInv, RaceClasses
  <2>5. CASE Head(results) # "reply" /\ errs' = Append(errs, Head(results))
    <3>1. errs' \in Seq(RaceClasses) /\ Len(errs') = Len(errs) + 1
      BY <2>2, <2>5 DEF RaceInv
    <3>2. Len(results') + Len(errs') = Cardinality(Ended)
      BY <2>1, <2>2, <3>1
    <3>3. CASE Len(errs') = NumArms /\ Race!Return(Race!WorstError(errs'))
      <4>1. pc' = "returned" /\ answer' = Race!WorstError(errs')
        BY <3>3 DEF Race!Return
      <4>2. /\ Ended \subseteq RaceArms /\ IsFiniteSet(RaceArms)
            /\ Cardinality(Ended) <= Cardinality(RaceArms)
        BY RaceConstants, FS_Subset DEF Ended
      <4>3. Cardinality(Ended) = Cardinality(RaceArms) /\ Len(results') = 0
        BY <2>2, <3>1, <3>2, <3>3, <4>2, RaceConstants
      <4>4. Ended = RaceArms
        BY <4>2, <4>3, FS_Subset
      <4>5. results' = <<>>
        BY <2>2, <4>3, EmptySeq
      <4> QED
        BY <2>1, <2>2, <2>3, <3>1, <3>3, <4>1, <4>4, <4>5 DEF RaceInv
    <3>4. CASE Len(errs') # NumArms /\ UNCHANGED <<pc, answer, raceCtx>>
      <4>1. Len(errs') < NumArms
        BY <2>1, <2>2, <3>1, <3>4, RaceConstants
      <4> QED
        BY <2>1, <2>2, <2>3, <3>1, <3>2, <3>4, <4>1 DEF RaceInv
    <3> QED
      BY <1>2, <2>5, <3>3, <3>4 DEF Race!Collect
  <2> QED
    BY <1>2, <2>4, <2>5 DEF Race!Collect
<1>3. CASE Race!CallerLeaves
  <2>1. /\ UNCHANGED <<pc, arm, results, errs, answer>>
        /\ raceCtx = callerCtx => raceCtx' = callerCtx'
    BY <1>3 DEF Race!CallerLeaves
  <2>2. Ended' = Ended
    BY <2>1 DEF Ended
  <2> QED
    BY <2>1, <2>2 DEF RaceInv
<1> QED
  BY <1>1, <1>2, <1>3, RaceConstants DEF Race!Next

LEMMA RaceStart == Init => RaceInv
<1> SUFFICES ASSUME Init PROVE RaceInv
  OBVIOUS
<1>1. Race!Init
  BY DEF Init
<1>2. /\ pc = "collect" /\ results = <<>> /\ errs = <<>> /\ answer = "none"
      /\ raceCtx = callerCtx /\ arm \in [RaceArms -> {"timer", "post", "ended"}]
      /\ Ended = {}
  BY <1>1, RaceConstants DEF Race!Init, Ended
<1>3. Cardinality(Ended) = 0 /\ Len(results) = 0 /\ Len(errs) = 0
  BY <1>2, FS_EmptySet
<1> QED
  BY <1>2, <1>3, RaceConstants DEF RaceInv

LEMMA RaceInvariance == FairSpec => []RaceInv
<1>1. ASSUME RaceInv, UNCHANGED race PROVE RaceInv'
  BY <1>1 DEF RaceInv, race, Ended
<1>2. RaceInv /\ [Next]_vars => RaceInv'
  BY <1>1, OnePart, RaceStep
<1> QED
  BY <1>2, RaceStart, PTL DEF FairSpec

(* The caller of raceJSON is told of a failure only when no arm has a      *)
(* reply for it, and then of the worst: for any number of deployments.     *)
THEOREM FailureIsTheWorstOfAll == FairSpec => []FailureIsTheWorst
<1>1. RaceInv => FailureIsTheWorst
  <2> SUFFICES ASSUME RaceInv, answer \in RaceClasses PROVE Race!FailureIsTheWorst
    BY RaceConstants DEF FailureIsTheWorst, Race!FailureIsTheWorst
  <2>1. /\ pc = "returned" /\ Ended = RaceArms /\ results = <<>>
        /\ Len(errs) = NumArms /\ answer = Race!WorstError(errs) /\ errs \in Seq(RaceClasses)
    BY DEF RaceInv, RaceClasses
  <2>2. Len(errs) > 0
    BY <2>1, RaceConstants
  <2>3. PICK k \in 1..Len(errs) :
          /\ answer = errs[k]
          /\ \A j \in 1..Len(errs) : Race!Priority(errs[j]) <= Race!Priority(errs[k])
    BY <2>1, <2>2, WorstIsWorst
  <2>4. DOMAIN errs = 1..Len(errs)
    BY <2>1
  <2>5. \A i \in Race!Arms : arm[i] = "ended"
    BY <2>1, RaceConstants DEF Ended
  <2> QED
    BY <2>1, <2>3, <2>4, <2>5 DEF Race!FailureIsTheWorst, Race!Received
<1> QED
  BY <1>1, RaceInvariance, PTL

(* Until the race is decided only the caller cuts an arm short.            *)
THEOREM OnlyTheCallerCuts == FairSpec => []NoArmCutShort
<1>1. RaceInv => NoArmCutShort
  BY DEF RaceInv, NoArmCutShort, Race!NoArmCutShort
<1> QED
  BY <1>1, RaceInvariance, PTL
-----------------------------------------------------------------------------
(* RemoteBatch.                                                            *)

RemoteItems == 1..Len(items)

(* What goes out before the replay goes out once, and what is not safe to  *)
(* repeat never goes out in the replay.                                    *)
SentInv ==
  /\ sent \in [RemoteItems -> Nat]
  /\ phase \in {"received", "fetchAll"} => \A i \in RemoteItems : sent[i] = 0
  /\ backend # "relayed" => \A i \in RemoteItems : items[i] = "unsafe" => sent[i] <= 1

LEMMA SentStep ==
  ASSUME SentInv, Remote!Next
  PROVE  SentInv'
<1>1. UNCHANGED <<backend, items>> /\ Remote!Items = RemoteItems /\ RemoteItems' = RemoteItems
  BY DEF Remote!Next, Remote!Refuse, Remote!VercelStart, Remote!VercelAnswer,
         Remote!VercelFail, Remote!FetchAnswers, Remote!BodyRead, Remote!ScriptPrepare,
         Remote!FetchAll, Remote!Replay, Remote!ScriptAnswer, Remote!Items, RemoteItems
<1>2. CASE /\ UNCHANGED sent
           /\ phase' \in {"received", "fetchAll"} => phase \in {"received", "fetchAll"}
  BY <1>1, <1>2 DEF SentInv
<1>3. CASE Remote!VercelStart
  <2>1. /\ sent' \in [RemoteItems -> {0, 1}] /\ phase' = "running"
    BY <1>1, <1>3 DEF Remote!VercelStart
  <2> QED
    BY <1>1, <2>1 DEF SentInv
<1>4. ASSUME NEW S \in SUBSET RemoteItems
      PROVE  /\ Remote!Sending(S) \in [RemoteItems -> Nat]
             /\ \A i \in RemoteItems :
                  Remote!Sending(S)[i] = IF i \in S THEN sent[i] + 1 ELSE sent[i]
  BY <1>1 DEF Remote!Sending, SentInv
<1>5. ASSUME NEW S, sent' = Remote!Sending(S), phase = "fetchAll",
             phase' \in {"assemble", "replay"}
      PROVE  SentInv'
  <2> DEFINE T == S \cap RemoteItems
  <2>1. Remote!Sending(S) = Remote!Sending(T)
    BY <1>1 DEF Remote!Sending
  <2>2. /\ sent' \in [RemoteItems -> Nat]
        /\ \A i \in RemoteItems : sent[i] = 0 /\ sent'[i] = IF i \in T THEN sent[i] + 1 ELSE sent[i]
    BY <1>4, <1>5, <2>1 DEF SentInv
  <2>3. \A i \in RemoteItems : sent'[i] <= 1
    BY <2>2
  <2> QED
    BY <1>1, <1>5, <2>2, <2>3 DEF SentInv
<1>6. CASE Remote!FetchAll
  BY <1>5, <1>6 DEF Remote!FetchAll
<1>7. ASSUME NEW i, sent' = Remote!Sending({i}), Remote!Replayable(i),
             phase' \in {"assemble", "replay"}
      PROVE  SentInv'
  <2> DEFINE T == {i} \cap RemoteItems
  <2>1. Remote!Sending({i}) = Remote!Sending(T)
    BY <1>1 DEF Remote!Sending
  <2>2. /\ sent' \in [RemoteItems -> Nat]
        /\ \A k \in RemoteItems : k # i => sent'[k] = sent[k]
    BY <1>4, <1>7, <2>1
  <2>3. backend # "relayed" => items[i] # "unsafe"
    BY <1>7 DEF Remote!Replayable
  <2> QED
    BY <1>1, <1>7, <2>2, <2>3 DEF SentInv
<1>8. CASE Remote!Replay
  BY <1>2, <1>7, <1>8 DEF Remote!Replay
<1>9. CASE Remote!Refuse \/ Remote!VercelAnswer \/ Remote!VercelFail \/ Remote!ScriptPrepare
  BY <1>2, <1>9
  DEF Remote!Refuse, Remote!VercelAnswer, Remote!VercelFail, Remote!ScriptPrepare
<1>10. CASE Remote!ScriptAnswer
  BY <1>2, <1>10 DEF Remote!ScriptAnswer
<1>11. ASSUME NEW i \in Remote!Items, Remote!FetchAnswers(i) \/ Remote!BodyRead(i)
       PROVE  SentInv'
  BY <1>2, <1>11 DEF Remote!FetchAnswers, Remote!BodyRead
<1> QED
  BY <1>3, <1>6, <1>8, <1>9, <1>10, <1>11 DEF Remote!Next

(* A request that is not safe to repeat goes out at most once: _doBatch    *)
(* replays by SAFE_REPLAY_METHODS, for batches of any size and whatever    *)
(* fetchAll sent before it threw.                                          *)
THEOREM UnsafeIsSentOnce == FairSpec => []UnsafeSentOnce
<1>1. Init => SentInv
  BY DEF Init, Remote!Init, Remote!Items, SentInv, RemoteItems
<1>2. SentInv /\ [Next]_vars => SentInv'
  <2>1. ASSUME SentInv, UNCHANGED remote PROVE SentInv'
    BY <2>1 DEF SentInv, remote, RemoteItems
  <2> QED
    BY <2>1, OnePart, SentStep
<1>3. SentInv => UnsafeSentOnce
  BY DEF SentInv, UnsafeSentOnce, Remote!UnsafeSentOnce, Remote!Items, RemoteItems
<1> QED
  BY <1>1, <1>2, <1>3, PTL DEF FairSpec

(* What a batch of the script has come to: the answers stand by the place  *)
(* of their item in fetchIndex, with a hole where the replay failed.       *)
Fetched == RemoteItems \ Remote!Refused

Replayed ==
  /\ Remote!Refused \subseteq errorMap
  /\ responses \in Seq(Nat) /\ Len(responses) <= Cardinality(Fetched)
  /\ \A j \in 1..Len(responses) :
       responses[j] = IF Remote!FetchIndex[j] \in errorMap THEN 0 ELSE Remote!FetchIndex[j]
  /\ \A j \in (Len(responses) + 1)..Cardinality(Fetched) :
       Remote!FetchIndex[j] \notin errorMap

AstrayInv ==
  /\ items \in Seq(Remote!Envelope)
  /\ phase \in {"received", "fetchAll"} => responses = <<>>
  /\ phase = "running" => backend \in Remote!Vercel
  /\ phase = "fetchAll" => errorMap = Remote!Refused /\ Cardinality(Fetched) > 0
  /\ phase = "replay" => Replayed /\ Len(responses) < Cardinality(Fetched)
  /\ phase = "assemble" => Replayed /\ Len(responses) = Cardinality(Fetched)
  /\ Remote!AstrayOnlyAfterFailedReplay

(* fetchIndex is the items that are fetched, in order.                     *)
LEMMA FetchedInOrder ==
  ASSUME items \in Seq(Remote!Envelope)
  PROVE  /\ Fetched \subseteq RemoteItems /\ Cardinality(Fetched) \in Nat
         /\ Len(items) \in Nat
         /\ Remote!FetchIndex \in [1..Cardinality(Fetched) -> Fetched]
         /\ Ascending(Remote!FetchIndex)
         /\ \A i \in Fetched : \E p \in 1..Cardinality(Fetched) : Remote!FetchIndex[p] = i
         /\ \A p \in 1..Cardinality(Fetched) :
              Cardinality({k \in Fetched : k < Remote!FetchIndex[p]}) = p - 1
<1>1. Len(items) \in Nat /\ Fetched \in SUBSET (1..Len(items))
  BY DEF Fetched, RemoteItems
<1>2. \E s \in [1..Cardinality(Fetched) -> Fetched] : Ascending(s)
  BY <1>1, Sorting
<1>3. Fetched = Remote!Items \ Remote!Refused
  BY DEF Fetched, RemoteItems, Remote!Items
<1>4. /\ Remote!FetchIndex \in [1..Cardinality(Fetched) -> Fetched]
      /\ Ascending(Remote!FetchIndex)
  <2> DEFINE G == Remote!Items \ Remote!Refused
             P(s) == \A p, q \in DOMAIN s : p < q => s[p] < s[q]
             C == CHOOSE s \in [1..Cardinality(G) -> G] : P(s)
  <2>1. \E s \in [1..Cardinality(G) -> G] : P(s)
    BY <1>2, <1>3 DEF Ascending
  <2>2. Remote!FetchIndex = C
    BY Zenon DEF Remote!FetchIndex, Remote!Cardinality, Cardinality
  <2> HIDE DEF P, G
  <2>3. C \in [1..Cardinality(G) -> G] /\ P(C)
    BY <2>1
  <2> HIDE DEF C
  <2> QED
    BY <1>3, <2>2, <2>3 DEF P, G, Ascending
<1>5. Cardinality(Fetched) \in Nat
  <2>1. IsFiniteSet(1..Len(items))
    BY <1>1, FS_Interval
  <2> QED
    BY <1>1, <2>1, FS_Subset, FS_CardinalityType
<1>6. DOMAIN Remote!FetchIndex = 1..Cardinality(Fetched)
  BY <1>4
<1>7. /\ \A i \in Fetched : \E p \in 1..Cardinality(Fetched) : Remote!FetchIndex[p] = i
      /\ \A p \in 1..Cardinality(Fetched) :
           Cardinality({k \in Fetched : k < Remote!FetchIndex[p]}) = p - 1
  <2>1. PICK n, S, s : n = Len(items) /\ S = Fetched /\ s = Remote!FetchIndex
    OBVIOUS
  <2>2. n \in Nat /\ S \in SUBSET (1..n) /\ s \in [1..Cardinality(S) -> S] /\ Ascending(s)
    BY <1>1, <1>4, <2>1
  <2>3. /\ \A i \in S : \E p \in DOMAIN s : s[p] = i
        /\ \A p \in DOMAIN s : Cardinality({k \in S : k < s[p]}) = p - 1
    BY <2>2, Places
  <2> QED
    BY <1>6, <2>1, <2>3
<1> QED
  BY <1>1, <1>4, <1>5, <1>7 DEF Fetched

(* The last loop of _doBatch: behind no failed replay the count rIdx is    *)
(* the item's own place, and behind one it falls back.                     *)
LEMMA Assembled ==
  ASSUME AstrayInv, Replayed, Len(responses) = Cardinality(Fetched), NEW i \in RemoteItems,
         Remote!ScriptReply(i).kind = "response", Remote!ScriptReply(i).of # i
  PROVE  /\ Remote!ScriptReply(i).of < i
         /\ \E k \in errorMap : k < i /\ k \notin Remote!Refused
<1> DEFINE c == Cardinality(Fetched)
           F == Remote!FetchIndex
           Before == {k \in 1..(i - 1) : k \notin errorMap}
           r == Remote!RIdx(i)
<1>1. /\ Fetched \subseteq RemoteItems /\ c \in Nat /\ Len(items) \in Nat
      /\ F \in [1..c -> Fetched] /\ Ascending(F)
      /\ \A k \in Fetched : \E p \in 1..c : F[p] = k
      /\ \A p \in 1..c : Cardinality({k \in Fetched : k < F[p]}) = p - 1
  BY FetchedInOrder DEF AstrayInv
<1>2. i \notin errorMap /\ r \in DOMAIN responses /\ responses[r] # 0
      /\ Remote!ScriptReply(i).of = responses[r]
  BY DEF Remote!ScriptReply, Remote!Error, Remote!Of
<1>3. i \in Fetched /\ i \in Nat
  BY <1>1, <1>2 DEF Replayed, Fetched, RemoteItems
<1>4. PICK p \in 1..c : F[p] = i
  BY <1>1, <1>3
<1>5. r \in 1..c /\ responses[r] = F[r] /\ F[r] \in Fetched
  BY <1>1, <1>2 DEF Replayed
<1>6. Before \subseteq {k \in Fetched : k < i}
  BY <1>1, <1>3 DEF Replayed, Fetched, RemoteItems
<1>7. IsFiniteSet({k \in Fetched : k < i})
  <2>1. {k \in Fetched : k < i} \in SUBSET (1..Len(items))
    BY <1>1 DEF RemoteItems
  <2>2. IsFiniteSet(1..Len(items))
    BY <1>1, FS_Interval
  <2> QED
    BY <2>1, <2>2, FS_Subset
<1>8. r = 1 + Cardinality(Before) /\ Cardinality({k \in Fetched : k < i}) = p - 1
  <2>1. r = 1 + Cardinality(Before)
    BY DEF Remote!RIdx, Remote!Cardinality, Cardinality
  <2>2. Cardinality({k \in Fetched : k < F[p]}) = p - 1
    BY <1>1
  <2> QED
    BY <1>4, <2>1, <2>2
<1> HIDE DEF Before, r, F, c
<1>9. r # p
  BY <1>2, <1>4, <1>5
<1>10. /\ Cardinality(Before) <= p - 1 /\ Cardinality(Before) \in Nat
       /\ Cardinality(Before) = p - 1 => Before = {k \in Fetched : k < i}
  BY <1>6, <1>7, <1>8, FS_Subset, FS_CardinalityType
<1>11. r < p
  BY <1>4, <1>8, <1>9, <1>10 DEF c
<1>12. F[r] < F[p]
  <2>1. DOMAIN F = 1..c
    BY <1>1
  <2> QED
    BY <1>1, <1>4, <1>5, <1>11, <2>1 DEF Ascending
<1>13. PICK k \in Fetched : k < i /\ k \notin Before
  <2>1. Cardinality(Before) # p - 1
    BY <1>4, <1>8, <1>9, <1>10 DEF c
  <2>2. Before # {k \in Fetched : k < i}
    BY <1>8, <2>1
  <2> QED
    BY <1>6, <2>2
<1>14. k \in errorMap /\ k \notin Remote!Refused
  BY <1>1, <1>3, <1>13 DEF Before, Fetched, RemoteItems
<1> QED
  BY <1>2, <1>4, <1>5, <1>12, <1>13, <1>14

(* The handler is done with the batch in some other way.                   *)
LEMMA AstrayStep ==
  ASSUME AstrayInv, Remote!Next
  PROVE  AstrayInv'
<1> DEFINE F == Remote!FetchIndex
           R == Remote!Refused
           c == Cardinality(Fetched)
<1>1. UNCHANGED <<backend, items>>
  BY DEF Remote!Next, Remote!Refuse, Remote!VercelStart, Remote!VercelAnswer,
         Remote!VercelFail, Remote!FetchAnswers, Remote!BodyRead, Remote!ScriptPrepare,
         Remote!FetchAll, Remote!Replay, Remote!ScriptAnswer
<1>2. /\ F' = F /\ R' = R /\ Fetched' = Fetched /\ c' = c
      /\ Remote!Items = RemoteItems /\ RemoteItems' = RemoteItems
      /\ Remote!Items' = RemoteItems
  BY <1>1 DEF Remote!FetchIndex, Remote!Refused, Remote!Items, Fetched, RemoteItems
<1>3. /\ Fetched \subseteq RemoteItems /\ c \in Nat /\ Len(items) \in Nat
      /\ F \in [1..c -> Fetched] /\ Ascending(F)
      /\ \A i \in Fetched : \E p \in 1..c : F[p] = i
  BY FetchedInOrder DEF AstrayInv
<1>4. F \in Seq(Fetched) /\ Len(F) = c /\ DOMAIN F = 1..c
  <2>1. ASSUME NEW n \in Nat, NEW S, NEW f \in [1..n -> S]
        PROVE  f \in Seq(S) /\ Len(f) = n /\ DOMAIN f = 1..n
    OBVIOUS
  <2> HIDE DEF F, c
  <2> QED
    BY <1>3, <2>1
<1>5. ASSUME NEW p \in 1..c PROVE F[p] \in Nat \ {0} /\ F[p] \notin R
  <2>1. Fetched \subseteq Nat \ {0} /\ Fetched \cap R = {}
    BY <1>3 DEF Fetched, RemoteItems
  <2> HIDE DEF F, R, c
  <2>2. F[p] \in Fetched
    BY <1>3, <1>5
  <2> QED
    BY <2>1, <2>2
<1> HIDE DEF F, R, c
<1>6. \A p, q \in 1..c : F[p] = F[q] => p = q
  <2>1. \A p, q \in 1..c : (p < q => F[p] < F[q]) /\ F[p] \in Nat
    BY <1>3, <1>4, <1>5 DEF Ascending
  <2> QED
    BY <1>3, <2>1
<1>7. /\ items \in Seq(Remote!Envelope) /\ items' \in Seq(Remote!Envelope)
  BY <1>1 DEF AstrayInv
<1>8. CASE phase' \in {"refused", "failed"}
  BY <1>7, <1>8 DEF AstrayInv, Remote!AstrayOnlyAfterFailedReplay
<1>9. CASE Remote!VercelStart
  BY <1>1, <1>7, <1>9
  DEF Remote!VercelStart, AstrayInv, Remote!AstrayOnlyAfterFailedReplay
<1>10. ASSUME NEW i \in Remote!Items, Remote!FetchAnswers(i) \/ Remote!BodyRead(i)
       PROVE  AstrayInv'
  <2>1. UNCHANGED <<backend, items, phase, responses, errorMap, reply>>
    BY <1>10 DEF Remote!FetchAnswers, Remote!BodyRead
  <2> QED
    BY <1>2, <1>7, <2>1
    DEF AstrayInv, Replayed, Remote!AstrayOnlyAfterFailedReplay, F, R, c
<1>11. CASE Remote!VercelAnswer
  <2>1. reply' = [i \in RemoteItems |-> Remote!VercelReply(i)] /\ phase' = "answered"
    BY <1>2, <1>11 DEF Remote!VercelAnswer
  <2>2. \A i \in RemoteItems : reply'[i].kind = "response" => reply'[i].of = i
    BY <2>1 DEF Remote!VercelReply, Remote!Of, Remote!Error
  <2> QED
    BY <1>2, <1>7, <2>1, <2>2 DEF AstrayInv, Remote!AstrayOnlyAfterFailedReplay
<1>12. CASE Remote!ScriptPrepare
  <2>1. /\ errorMap' = R /\ responses' = responses /\ responses = <<>>
        /\ phase' = IF F = <<>> THEN "assemble" ELSE "fetchAll"
    BY <1>12 DEF Remote!ScriptPrepare, AstrayInv, F, R
  <2>2. /\ F = <<>> <=> c = 0
        /\ phase' = "assemble" => Replayed' /\ Len(responses') = c
    BY <1>2, <1>3, <1>4, <1>5, <2>1 DEF Replayed, F, R, c
  <2> QED
    BY <1>1, <1>2, <1>3, <1>7, <2>1, <2>2
    DEF AstrayInv, Remote!AstrayOnlyAfterFailedReplay, R, c
<1>13. CASE Remote!FetchAll
  <2>1. /\ errorMap' = R /\ c > 0
        /\ \/ phase' = "assemble" /\ responses' = F
           \/ phase' = "replay" /\ responses' = <<>>
    BY <1>13 DEF Remote!FetchAll, AstrayInv, F, R, c
  <2>2. /\ responses' \in Seq(Nat) /\ Len(responses') \in {0, c}
        /\ phase' = "assemble" => Len(responses') = c
        /\ phase' = "replay" => Len(responses') = 0
    <3>1. F \in Seq(Nat)
      BY <1>3, <1>4, <1>5
    <3>2. CASE responses' = F /\ phase' = "assemble"
      BY <1>4, <3>1, <3>2
    <3>3. CASE responses' = <<>> /\ phase' = "replay"
      BY <3>3
    <3> QED
      BY <2>1, <3>2, <3>3
  <2>3. Replayed'
    <3>1. ASSUME NEW j \in 1..Len(responses') PROVE responses'[j] = F[j] /\ j \in 1..c
      BY <1>3, <1>4, <2>1, <2>2
    <3> QED
      BY <1>2, <1>3, <1>4, <1>5, <2>1, <2>2, <3>1 DEF Replayed, F, R, c
  <2> QED
    BY <1>1, <1>2, <1>7, <2>1, <2>2, <2>3
    DEF AstrayInv, Remote!AstrayOnlyAfterFailedReplay, c
<1>14. CASE Remote!Replay
  <2>1. PICK n : n = Len(responses) + 1
    OBVIOUS
  <2>2. PICK i : i = F[n]
    OBVIOUS
  <2>3. /\ \/ responses' = Append(responses, i) /\ errorMap' = errorMap
           \/ responses' = Append(responses, 0) /\ errorMap' = errorMap \cup {i}
        /\ phase = "replay" /\ phase' = IF n = Len(F) THEN "assemble" ELSE "replay"
    BY <1>14, <2>1, <2>2 DEF Remote!Replay, F
  <2>4. /\ Remote!Refused \subseteq errorMap /\ responses \in Seq(Nat)
        /\ Len(responses) < c
        /\ \A j \in 1..Len(responses) : responses[j] = IF F[j] \in errorMap THEN 0 ELSE F[j]
        /\ \A j \in (Len(responses) + 1)..c : F[j] \notin errorMap
    BY <2>3 DEF AstrayInv, Replayed, F, c
  <2>5. n \in 1..c /\ Len(responses) = n - 1 /\ i \in Nat /\ i \notin errorMap
    BY <1>3, <1>5, <2>1, <2>2, <2>4
  <2>6. PICK e \in {0, i} : /\ responses' = Append(responses, e)
                            /\ e = 0 => errorMap' = errorMap \cup {i}
                            /\ e # 0 => errorMap' = errorMap
    <3>1. i # 0
      BY <1>3, <2>2, <2>5 DEF RemoteItems
    <3> QED
      BY <2>3, <3>1
  <2>7. /\ responses' \in Seq(Nat) /\ Len(responses') = n /\ responses'[n] = e
        /\ \A j \in 1..(n - 1) : responses'[j] = responses[j]
    BY <2>4, <2>5, <2>6
  <2>8. \A j \in 1..c : j # n => (F[j] \in errorMap' <=> F[j] \in errorMap)
    BY <1>6, <2>2, <2>5, <2>6
  <2>9. e = IF i \in errorMap' THEN 0 ELSE i
    BY <2>5, <2>6
  <2>10. \A j \in 1..n : responses'[j] = IF F[j] \in errorMap' THEN 0 ELSE F[j]
    BY <1>3, <2>2, <2>4, <2>5, <2>7, <2>8, <2>9
  <2>11. \A j \in (n + 1)..c : F[j] \notin errorMap'
    BY <1>3, <2>4, <2>5, <2>8
  <2>12. Replayed'
    BY <1>2, <2>4, <2>5, <2>6, <2>7, <2>10, <2>11 DEF Replayed, F, R, c
  <2>13. phase' = IF n = c THEN "assemble" ELSE "replay"
    BY <1>4, <2>3
  <2> QED
    BY <1>1, <1>2, <1>3, <1>7, <2>5, <2>7, <2>12, <2>13
    DEF AstrayInv, Remote!AstrayOnlyAfterFailedReplay, c
<1>15. CASE Remote!ScriptAnswer
  <2>1. /\ phase = "assemble" /\ phase' = "answered"
        /\ reply' = [i \in RemoteItems |-> Remote!ScriptReply(i)]
        /\ UNCHANGED errorMap
    BY <1>2, <1>15 DEF Remote!ScriptAnswer
  <2>2. ASSUME NEW i \in RemoteItems, reply'[i].kind = "response", reply'[i].of # i
        PROVE  /\ reply'[i].of < i
               /\ \E k \in errorMap' : k < i /\ k \notin R'
    <3>1. reply'[i] = Remote!ScriptReply(i)
      BY <2>1
    <3> QED
      BY <1>2, <2>1, <2>2, <3>1, Assembled DEF AstrayInv, R
  <2> QED
    BY <1>2, <1>7, <2>1, <2>2 DEF AstrayInv, Remote!AstrayOnlyAfterFailedReplay, R
<1> QED
  BY <1>8, <1>9, <1>10, <1>11, <1>12, <1>13, <1>14, <1>15
  DEF Remote!Next, Remote!Refuse, Remote!VercelFail

(* A reply of the script goes astray only behind an item whose replay      *)
(* failed, and then to an earlier item's answer: _doBatch's three loops    *)
(* over fetchIndex, for batches of any size and any mix of envelopes.      *)
THEOREM AstrayOnlyBehindAFailedReplay == FairSpec => []AstrayOnlyAfterFailedReplay
<1>1. Init => AstrayInv
  <2> SUFFICES ASSUME Init PROVE AstrayInv
    OBVIOUS
  <2>1. PICK n \in 1..MaxItems : items \in [1..n -> Remote!Envelope]
    BY DEF Init, Remote!Init
  <2>2. n \in Nat
    OBVIOUS
  <2>3. items \in Seq(Remote!Envelope)
    BY <2>1, <2>2
  <2> QED
    BY <2>3 DEF Init, Remote!Init, AstrayInv, Remote!AstrayOnlyAfterFailedReplay
<1>2. AstrayInv /\ [Next]_vars => AstrayInv'
  <2> SUFFICES ASSUME AstrayInv, [Next]_vars PROVE AstrayInv'
    OBVIOUS
  <2>1. CASE UNCHANGED remote
    <3>1. UNCHANGED <<backend, items, phase, responses, errorMap, reply>>
      BY <2>1 DEF remote
    <3>2. /\ Remote!Refused' = Remote!Refused /\ Remote!FetchIndex' = Remote!FetchIndex
          /\ Fetched' = Fetched /\ Remote!Items' = Remote!Items
      BY <3>1 DEF Remote!FetchIndex, Remote!Refused, Remote!Items, Fetched, RemoteItems
    <3>3. Cardinality(Fetched)' = Cardinality(Fetched)
      BY <3>2
    <3>4. Replayed' <=> Replayed
      BY <3>1, <3>2, <3>3 DEF Replayed
    <3>5. Remote!AstrayOnlyAfterFailedReplay'
      BY <3>1, <3>2 DEF AstrayInv, Remote!AstrayOnlyAfterFailedReplay
    <3> QED
      BY <3>1, <3>2, <3>3, <3>4, <3>5 DEF AstrayInv
  <2> QED
    BY <2>1, AstrayStep, OnePart
<1>3. AstrayInv => AstrayOnlyAfterFailedReplay
  BY DEF AstrayInv, AstrayOnlyAfterFailedReplay
<1> QED
  BY <1>1, <1>2, <1>3, PTL DEF FairSpec
-----------------------------------------------------------------------------
(* ChunkPlan, as MCParts explores it.                                      *)

(* Every cut, before and after scaling, cuts the file and keeps to the     *)
(* cap, whatever the sizes: computeChunks and runChunked's scaling.        *)
THEOREM EveryCutServesItsFile == FairSpec => []EveryCutServes
<1> DEFINE CutInv == /\ total \in Nat \ {0} /\ firstSize \in 0..total
                     /\ chunkSize \in Nat \ {0} /\ maxChunks \in Nat \ {0}
<1>1. Init => CutInv
  BY DEF Init, Cut!Init
<1>2. CutInv /\ [Next]_vars => CutInv'
  BY OnePart DEF Cut!Next, Cut!vars, cut
<1>3. CutInv => EveryCutServes
  <2> SUFFICES ASSUME CutInv PROVE EveryCutServes
    OBVIOUS
  <2> DEFINE scaled == ScaledSize(total, firstSize, chunkSize, maxChunks)
  <2>1. scaled \in Nat \ {0}
    BY ScaledSizeWide
  <2>2. CutsTheFile(total, firstSize, chunkSize) /\ CutsTheFile(total, firstSize, scaled)
    BY <2>1, EveryCutIsTheFile
  <2>3. KeepsToCap(total, firstSize, chunkSize, maxChunks)
    BY EveryCutKeepsToCap
  <2> QED
    BY <2>2, <2>3
    DEF EveryCutServes, Cut!EveryCutIsTheFile, Cut!EveryCutKeepsToCap, Cut!CutsTheFile,
        Cut!KeepsToCap, Cut!ScaledSize, Cut!ComputeChunks, Cut!CeilDiv, Cut!Fetches,
        Cut!RangeStart, Cut!RangeEnd, CutsTheFile, KeepsToCap, ScaledSize, ComputeChunks,
        CeilDiv, Fetches, RangeStart, RangeEnd
<1> QED
  BY <1>1, <1>2, <1>3, PTL DEF FairSpec
-----------------------------------------------------------------------------
(* EndpointTest.                                                           *)

MayBeTyped == Addresses \cup {""}
Tests == [at : {"none"}] \cup [at : {"asked"}, url : MayBeTyped]

(* The component on the screen is testing as long as its own test is out,  *)
(* and that test is of the address typed, or the address was edited since. *)
EndpointInv ==
  /\ visit \in Nat /\ url \in MayBeTyped
  /\ testing \in BOOLEAN /\ edited \in BOOLEAN
  /\ test \in [1..MaxVisits -> Tests]
  /\ \A v \in 1..MaxVisits : v > visit => test[v].at = "none"
  /\ testing => testOk = "null"
  /\ visit \in 1..MaxVisits /\ test[visit].at = "asked" =>
       testing /\ (test[visit].url = url \/ edited)
  /\ testOk = "true" => url = passed \/ edited

LEMMA EndpointStep ==
  ASSUME EndpointInv, Endpoint!Next
  PROVE  EndpointInv'
<1> USE DEF EndpointInv
<1>1. CASE Endpoint!Edit
  <2>1. url' \in MayBeTyped
    BY <1>1, Zenon DEF Endpoint!Edit, MayBeTyped
  <2>2. /\ testOk' = "null" /\ edited' = (edited \/ testing)
        /\ UNCHANGED <<visit, testing, test>>
    BY <1>1, Zenon DEF Endpoint!Edit, Endpoint!ResetVerdict
  <2> QED
    BY <2>1, <2>2
<1>2. CASE Endpoint!RunTest
  <2> DEFINE asked == [at |-> "asked", url |-> url]
  <2>1. asked \in Tests /\ asked.at = "asked" /\ asked.url = url
    BY DEF Tests
  <2>2. /\ test' = [test EXCEPT ![visit] = asked]
        /\ testing' = TRUE /\ testOk' = "null" /\ edited' = FALSE
        /\ UNCHANGED <<visit, url>>
    BY <1>2, Zenon DEF Endpoint!RunTest
  <2> HIDE DEF asked
  <2>3. /\ test' \in [1..MaxVisits -> Tests]
        /\ \A v \in 1..MaxVisits : test'[v] = IF v = visit THEN asked ELSE test[v]
    BY <2>1, <2>2
  <2>4. \A v \in 1..MaxVisits : v > visit => test'[v] = test[v]
    BY <2>3
  <2>5. \A v \in 1..MaxVisits : v > visit' => test'[v].at = "none"
    BY <2>2, <2>4
  <2>6. visit' \in 1..MaxVisits => test'[visit'].url = url'
    BY <2>1, <2>2, <2>3
  <2> QED
    BY <2>2, <2>3, <2>5, <2>6
<1>3. ASSUME NEW v \in 1..MaxVisits, Endpoint!Answers(v) PROVE EndpointInv'
  <2> DEFINE no == [at |-> "none"]
  <2>1. no \in Tests /\ no.at = "none"
    BY DEF Tests
  <2>2. /\ test' = [test EXCEPT ![v] = no] /\ test[v].at = "asked"
        /\ UNCHANGED <<visit, url, edited>>
    BY <1>3 DEF Endpoint!Passes, Endpoint!Answers, Endpoint!NoTest
  <2> HIDE DEF no
  <2>3. /\ test' \in [1..MaxVisits -> Tests]
        /\ \A w \in 1..MaxVisits : test'[w] = IF w = v THEN no ELSE test[w]
    BY <2>1, <2>2
  <2>4. CASE v = visit
    <3>1. /\ testing' = FALSE /\ testOk' \in {"true", "false"}
          /\ testOk' = "true" => passed' = test[v].url
      BY <1>3, <2>4 DEF Endpoint!Passes, Endpoint!Answers
    <3> QED
      BY <2>1, <2>2, <2>3, <2>4, <3>1
  <2>5. CASE v # visit
    BY <1>3, <2>1, <2>2, <2>3, <2>5 DEF Endpoint!Passes, Endpoint!Answers
  <2> QED
    BY <2>4, <2>5
<1>4. CASE Endpoint!Reopen
  <2>1. /\ visit' = visit + 1 /\ testing' = FALSE /\ testOk' = "null" /\ edited' = FALSE
        /\ UNCHANGED <<url, test, passed>>
    BY <1>4, Zenon DEF Endpoint!Reopen
  <2>2. visit' \in Nat /\ \A v \in 1..MaxVisits : v >= visit' => v > visit
    BY <2>1
  <2>3. \A v \in 1..MaxVisits : v >= visit' => test'[v].at = "none"
    BY <2>1, <2>2
  <2>4. visit' \in 1..MaxVisits => test'[visit'].at # "asked"
    BY <2>2, <2>3
  <2>5. \A v \in 1..MaxVisits : v > visit' => test'[v].at = "none"
    BY <2>2, <2>3
  <2> QED
    BY <2>1, <2>2, <2>4, <2>5
<1>5. CASE Endpoint!Redeploy
  BY <1>5 DEF Endpoint!Redeploy
<1> QED
  BY <1>1, <1>2, <1>3, <1>4, <1>5 DEF Endpoint!Next

(* The green mark is that of a test of the address it stands under, unless *)
(* the address was edited while its test was out, and no mark is shown     *)
(* while one is: onChange, runTest and the reopened VercelAccount step.    *)
THEOREM GreenMarkIsEarned == FairSpec => []GreenIsItsOwn
<1>1. Init => EndpointInv
  <2> SUFFICES ASSUME Init PROVE EndpointInv
    OBVIOUS
  <2>1. url \in MayBeTyped
    BY Zenon DEF Init, Endpoint!Init, MayBeTyped
  <2>2. /\ visit = 1 /\ testing = FALSE /\ testOk = "null" /\ edited = FALSE
        /\ test = [v \in 1..MaxVisits |-> [at |-> "none"]]
    BY Zenon DEF Init, Endpoint!Init, Endpoint!NoTest
  <2> QED
    BY <2>1, <2>2 DEF EndpointInv, Tests
<1>2. EndpointInv /\ [Next]_vars => EndpointInv'
  <2>1. ASSUME EndpointInv, UNCHANGED endpoint PROVE EndpointInv'
    BY <2>1 DEF EndpointInv, endpoint
  <2> QED
    BY <2>1, OnePart, EndpointStep
<1>3. EndpointInv => GreenIsItsOwn
  BY DEF EndpointInv, GreenIsItsOwn, Endpoint!GreenIsItsOwn
<1> QED
  BY <1>1, <1>2, <1>3, PTL DEF FairSpec
-----------------------------------------------------------------------------
(* CertPage.                                                               *)

(* What is cached and wrong is known to be invalid, or a mutation that is  *)
(* done will say so; and an open page is fetching what is invalid.         *)
PageInv ==
  /\ mutation \in [{"install", "uninstall"} -> {"idle", "calling", "done"}]
  /\ shown /\ invalid => fetch # "none"
  /\ info # "none" /\ info # Page!Trust(store) /\ ~elsewhere =>
       invalid \/ \E o \in {"install", "uninstall"} : mutation[o] = "done"

LEMMA PageStep ==
  ASSUME PageInv, Page!Next
  PROVE  PageInv'
<1> USE DEF PageInv, Page!Trust
<1>1. CASE Page!Open
  BY <1>1 DEF Page!Open
<1>2. CASE Page!Leave
  BY <1>2 DEF Page!Leave
<1>3. CASE Page!Elsewhere
  BY <1>3 DEF Page!Elsewhere
<1>4. CASE Page!FetchReads
  BY <1>4 DEF Page!FetchReads
<1>5. CASE Page!FetchAnswers
  BY <1>5 DEF Page!FetchAnswers, Page!Answers
<1>6. ASSUME NEW o \in {"install", "uninstall"}, Page!Click(o) PROVE PageInv'
  BY <1>6 DEF Page!Click
<1>7. ASSUME NEW o \in {"install", "uninstall"}, Page!Performed(o) PROVE PageInv'
  BY <1>7 DEF Page!Performed
<1>8. ASSUME NEW o \in {"install", "uninstall"}, Page!Failed(o) PROVE PageInv'
  BY <1>8 DEF Page!Failed
<1>9. ASSUME NEW o \in {"install", "uninstall"}, Page!Succeeded(o) PROVE PageInv'
  BY <1>9 DEF Page!Succeeded, Page!Invalidate
<1> QED
  BY <1>1, <1>2, <1>3, <1>4, <1>5, <1>6, <1>7, <1>8, <1>9
  DEF Page!Next, Page!Operations

(* At rest the Certificate page shows the trust there is, unless the change*)
(* came from elsewhere: the two mutations invalidate what their page shows.*)
THEOREM CertPageFollows == FairSpec => []PageFollowsTrust
<1>1. Init => PageInv
  BY DEF Init, Page!Init, Page!Operations, PageInv
<1>2. PageInv /\ [Next]_vars => PageInv'
  <2>1. ASSUME PageInv, UNCHANGED certPage PROVE PageInv'
    BY <2>1 DEF PageInv, certPage, Page!Trust
  <2> QED
    BY <2>1, OnePart, PageStep
<1>3. PageInv => PageFollowsTrust
  BY DEF PageInv, PageFollowsTrust, Page!PageFollowsTrust, Page!Operations
<1> QED
  BY <1>1, <1>2, <1>3, PTL DEF FairSpec
-----------------------------------------------------------------------------
(* Logs.                                                                   *)

(* The slots below next hold the newest entries in order, those above it,  *)
(* once the ring is full, the ones before them.                            *)
Slots == \A i \in 1..next : entries[i] = added - next + i
OlderSlots == \A i \in (next + 1)..Size : entries[i] = added - next - Size + i

RingInv ==
  /\ entries \in [1..Size -> Nat] /\ added \in Nat /\ full \in BOOLEAN
  /\ next \in 0..(Size - 1) /\ limit \in Nat
  /\ Slots
  /\ full => added >= Size /\ OlderSlots
  /\ ~full => added = next

(* What a poll carries, what is on show and what a pause holds were each   *)
(* the newest entries when they were read.                                 *)
ListsInv ==
  /\ asOf \in [live : Nat, frozen : Nat] /\ paused \in BOOLEAN
  /\ filter \in Log!Buttons
  /\ logPoll # Log!None =>
       logPoll.asOf \in Nat /\ Log!Reverse(logPoll.tail) = Log!Newest(logPoll.asOf)
  /\ Log!Reverse(live) = Log!Newest(asOf.live)
  /\ paused => Log!Reverse(frozen) = Log!Newest(asOf.frozen)

LogInv == RingInv /\ ListsInv

LEMMA LogConstants == Size \in Nat \ {0} /\ Limits \subseteq Nat
BY PartsAssumption DEF Log!LogsAssumption

LEMMA RingStep ==
  ASSUME RingInv, Log!Add
  PROVE  RingInv'
<1> USE LogConstants
<1>1. /\ added' = added + 1 /\ entries' = [entries EXCEPT ![next + 1] = added']
      /\ next' = (next + 1) % Size /\ full' = (full \/ next' = 0) /\ limit' = limit
  BY DEF Log!Add
<1>2. /\ next \in Nat /\ added \in Nat /\ next + 1 \in 1..Size /\ next < Size
      /\ \A i \in 1..next : entries[i] = added - next + i
      /\ full => \A i \in (next + 1)..Size : entries[i] = added - next - Size + i
  BY DEF RingInv, Slots, OlderSlots
<1>3. /\ entries' \in [1..Size -> Nat] /\ added' \in Nat /\ limit' \in Nat
      /\ full' \in BOOLEAN
      /\ \A i \in 1..Size : entries'[i] = IF i = next + 1 THEN added + 1 ELSE entries[i]
  BY <1>1, <1>2 DEF RingInv
<1>4. \A i \in 1..(next + 1) : entries'[i] = added - next + i
  <2> TAKE i \in 1..(next + 1)
  <2>1. i \in Int /\ i \in 1..Size
    BY <1>2
  <2>2. CASE i = next + 1
    <3>1. entries'[i] = added + 1
      BY <1>3, <2>1, <2>2
    <3> QED
      BY <1>2, <2>2, <3>1
  <2>3. CASE i \in 1..next /\ i # next + 1
    <3>1. entries'[i] = entries[i]
      BY <1>3, <2>1, <2>3
    <3> QED
      BY <1>2, <2>3, <3>1
  <2>4. i # next + 1 => i \in 1..next
    BY <1>2
  <2> QED
    BY <2>2, <2>3, <2>4
<1>5. CASE next + 1 < Size
  <2>1. next' = next + 1
    BY <1>1, <1>2, <1>5
  <2>2. full' = full /\ next' \in 0..(Size - 1)
    BY <1>1, <1>2, <1>5, <2>1 DEF RingInv
  <2>3. Slots'
    <3> SUFFICES \A i \in 1..next' : entries'[i] = added' - next' + i
      BY DEF Slots
    <3> TAKE i \in 1..next'
    <3>1. i \in Int /\ entries'[i] = added - next + i
      BY <1>2, <1>4, <2>1
    <3> QED
      BY <1>1, <1>2, <2>1, <3>1
  <2>4. ASSUME full, NEW i \in (next' + 1)..Size
        PROVE  entries'[i] = added' - next' - Size + i
    <3>1. /\ i \in Int /\ i \in 1..Size /\ i # next + 1 /\ i \in (next + 1)..Size
      BY <1>2, <2>1, <2>4
    <3>2. entries'[i] = added - next - Size + i
      BY <1>2, <1>3, <2>4, <3>1
    <3> QED
      BY <1>1, <1>2, <2>1, <3>1, <3>2
  <2>5. (full => added' >= Size) /\ (~full => added' = next')
    BY <1>1, <1>2, <2>1 DEF RingInv
  <2>6. full' => OlderSlots'
    BY <2>2, <2>4 DEF OlderSlots
  <2>7. (full' => added' >= Size) /\ (~full' => added' = next')
    BY <2>2, <2>5
  <2> QED
    BY <1>3, <2>2, <2>3, <2>6, <2>7 DEF RingInv
<1>6. CASE next + 1 = Size
  <2>1. next' = 0
    BY <1>1, <1>2, <1>6
  <2>2. full' = TRUE /\ added' >= Size
    <3>1. full => added >= Size
      BY DEF RingInv
    <3>2. ~full => added = next
      BY DEF RingInv
    <3>3. full' = TRUE
      BY <1>1, <2>1
    <3> QED
      BY <1>1, <1>2, <1>6, <3>1, <3>2, <3>3
  <2>3. OlderSlots'
    <3> SUFFICES \A i \in (next' + 1)..Size : entries'[i] = added' - next' - Size + i
      BY DEF OlderSlots
    <3> TAKE i \in (next' + 1)..Size
    <3>1. i \in Int /\ entries'[i] = added - next + i
      BY <1>2, <1>4, <1>6, <2>1
    <3> QED
      BY <1>1, <1>2, <1>6, <2>1, <3>1
  <2>4. Slots'
    BY <2>1 DEF Slots
  <2> QED
    BY <1>3, <2>1, <2>2, <2>3, <2>4 DEF RingInv
<1> QED
  BY <1>2, <1>5, <1>6

(* Entries: the tail is the newest entries in order, as many as there are  *)
(* and there is room for.                                                  *)
LEMMA TailIsNewest ==
  ASSUME RingInv
  PROVE  Log!Reverse(Log!TailOf) = Log!Newest(added)
<1> USE LogConstants
<1> DEFINE old == IF full THEN SubSeq(entries, next + 1, Size) ELSE <<>>
           new == SubSeq(entries, 1, next)
           all == old \o new
           len == IF full THEN Size ELSE next
           m == IF limit > 0 /\ len > limit THEN limit ELSE len
<1>1. entries \in Seq(Nat) /\ Len(entries) = Size
  BY DEF RingInv
<1>2. /\ new \in Seq(Nat) /\ Len(new) = next
      /\ \A i \in 1..next : new[i] = added - next + i
  BY <1>1 DEF RingInv, Slots
<1>3. /\ old \in Seq(Nat) /\ Len(old) = len - next
      /\ \A i \in 1..Len(old) : old[i] = added - len + i
  <2>1. CASE full
    <3>1. /\ old \in Seq(Nat) /\ Len(old) = Size - next
          /\ \A i \in 1..(Size - next) : old[i] = entries[next + i]
      BY <1>1, <2>1 DEF RingInv
    <3>2. \A i \in 1..(Size - next) : entries[next + i] = added - Size + i
      <4> TAKE i \in 1..(Size - next)
      <4>1. next + i \in (next + 1)..Size
        BY DEF RingInv
      <4>2. entries[next + i] = added - next - Size + (next + i)
        BY <2>1, <4>1 DEF RingInv, OlderSlots
      <4> QED
        BY <4>2 DEF RingInv
    <3> QED
      BY <2>1, <3>1, <3>2
  <2>2. CASE ~full
    BY <2>2 DEF RingInv
  <2> QED
    BY <2>1, <2>2
<1>4. len \in 0..Size /\ next <= len /\ next \in Nat /\ added \in Nat /\ len <= added
  BY DEF RingInv
<1> HIDE DEF old, new
<1>5. /\ all \in Seq(Nat) /\ Len(all) = len
      /\ \A i \in 1..len : all[i] = added - len + i
  <2> HIDE DEF len
  <2>0. len \in Nat /\ next \in Nat /\ old \in Seq(Nat) /\ new \in Seq(Nat)
    BY <1>2, <1>3, <1>4
  <2>1. all \in Seq(Nat) /\ Len(all) = len
    <3>1. all \in Seq(Nat) /\ Len(all) = Len(old) + Len(new)
      BY <2>0
    <3> QED
      BY <1>2, <1>3, <2>0, <3>1
  <2>2. ASSUME NEW i \in 1..len PROVE all[i] = added - len + i
    <3>1. CASE i <= Len(old)
      BY <1>2, <1>3, <1>4, <3>1
    <3>2. CASE i > Len(old)
      <4>1. i - Len(old) \in 1..next /\ all[i] = new[i - Len(old)]
        BY <1>2, <1>3, <1>4, <3>2
      <4>2. new[i - Len(old)] = added - next + (i - Len(old))
        BY <1>2, <4>1
      <4>3. Len(old) = len - next
        BY <1>3
      <4> HIDE DEF all
      <4>4. all[i] = added - next + (i - (len - next))
        BY <4>1, <4>2, <4>3
      <4> QED
        BY <1>4, <2>0, <4>4
    <3>3. Len(old) \in Nat /\ i \in Int
      BY <2>0
    <3> HIDE DEF all
    <3> QED
      BY <3>1, <3>2, <3>3
  <2> QED
    BY <2>1, <2>2
<1>6. Log!TailOf = Log!Limited(all) /\ limit \in Nat
  BY DEF Log!TailOf, old, new, RingInv
<1>7. m \in Nat /\ m <= len /\ m <= added
  BY <1>4, <1>6
<1> HIDE DEF all
<1>8. /\ Log!Limited(all) \in Seq(Nat) /\ Len(Log!Limited(all)) = m
      /\ \A i \in 1..m : Log!Limited(all)[i] = added - m + i
  <2>1. CASE limit > 0 /\ len > limit
    <3>1. Log!Limited(all) = SubSeq(all, len - limit + 1, len) /\ m = limit
      BY <1>5, <2>1 DEF Log!Limited
    <3> HIDE DEF len, m
    <3>2. /\ SubSeq(all, len - limit + 1, len) \in Seq(Nat)
          /\ Len(SubSeq(all, len - limit + 1, len)) = limit
          /\ \A i \in 1..limit : SubSeq(all, len - limit + 1, len)[i] = all[len - limit + i]
      BY <1>4, <1>5, <1>6, <2>1
    <3>3. \A i \in 1..limit : all[len - limit + i] = added - limit + i
      <4> TAKE i \in 1..limit
      <4>1. len - limit + i \in 1..len
        BY <1>4, <1>6, <2>1
      <4>2. all[len - limit + i] = added - len + (len - limit + i)
        BY <1>5, <4>1
      <4> QED
        BY <1>4, <1>6, <4>2
    <3> QED
      BY <3>1, <3>2, <3>3
  <2>2. CASE ~(limit > 0 /\ len > limit)
    BY <1>5, <2>2 DEF Log!Limited
  <2> QED
    BY <2>1, <2>2
<1>9. Log!Newest(added) = [i \in 1..m |-> added - i + 1]
  <2> DEFINE room == IF limit > 0 /\ limit < Size THEN limit ELSE Size
             shows == IF added < room THEN added ELSE room
  <2>1. shows = m
    BY <1>4, <1>6 DEF RingInv
  <2>2. Log!Newest(added) = [i \in 1..shows |-> added - i + 1]
    BY DEF Log!Newest
  <2> HIDE DEF shows, m
  <2> QED
    BY <2>1, <2>2
<1> HIDE DEF m
<1>10. Log!Reverse(Log!TailOf) = [i \in 1..m |-> Log!Limited(all)[m - i + 1]]
  BY <1>6, <1>8 DEF Log!Reverse
<1>11. \A i \in 1..m : Log!Limited(all)[m - i + 1] = added - i + 1
  <2> TAKE i \in 1..m
  <2>1. m - i + 1 \in 1..m
    BY <1>7
  <2>2. Log!Limited(all)[m - i + 1] = added - m + (m - i + 1)
    BY <1>8, <2>1
  <2> QED
    BY <1>4, <1>7, <2>2
<1> QED
  BY <1>9, <1>10, <1>11

LEMMA LogStep ==
  ASSUME LogInv, Log!Next
  PROVE  LogInv'
<1> USE DEF LogInv
<1>1. limit' = limit /\ \A n : Log!Newest(n)' = Log!Newest(n)
  BY DEF Log!Next, Log!Add, Log!PollReads, Log!PollAnswers, Log!TogglePause,
         Log!SetFilter, Log!Newest
<1>2. CASE Log!Add
  <2>1. RingInv'
    BY <1>2, RingStep
  <2>2. UNCHANGED <<logPoll, live, paused, frozen, asOf, filter>>
    BY <1>2 DEF Log!Add
  <2> QED
    BY <1>1, <2>1, <2>2 DEF ListsInv
<1>3. CASE ~Log!Add /\ UNCHANGED <<limit, entries, next, full, added>>
  <2>1. RingInv'
    BY <1>3 DEF RingInv, Slots, OlderSlots
  <2>2. ListsInv'
    <3>1. CASE Log!PollReads
      <4>1. /\ logPoll' = Log!Answer(Log!TailOf)
            /\ UNCHANGED <<live, paused, frozen, asOf, filter>>
        BY <3>1 DEF Log!PollReads
      <4>2. logPoll'.asOf = added /\ logPoll'.tail = Log!TailOf
        BY <4>1 DEF Log!Answer
      <4>3. added \in Nat /\ Log!Reverse(Log!TailOf) = Log!Newest(added)
        BY TailIsNewest DEF RingInv
      <4> QED
        BY <1>1, <4>1, <4>2, <4>3 DEF ListsInv
    <3>2. CASE Log!PollAnswers
      <4>1. /\ live' = logPoll.tail /\ logPoll' = Log!None
            /\ asOf' = [asOf EXCEPT !.live = logPoll.asOf] /\ logPoll # Log!None
            /\ UNCHANGED <<paused, frozen, filter>>
        BY <3>2 DEF Log!PollAnswers
      <4>2. /\ asOf' \in [live : Nat, frozen : Nat]
            /\ asOf'.live = logPoll.asOf /\ asOf'.frozen = asOf.frozen
        BY <4>1 DEF ListsInv
      <4> QED
        BY <1>1, <4>1, <4>2 DEF ListsInv
    <3>3. CASE Log!TogglePause
      <4>1. /\ paused' = ~paused /\ frozen' = IF paused THEN <<>> ELSE live
            /\ asOf' = [asOf EXCEPT !.frozen = asOf.live]
            /\ UNCHANGED <<logPoll, live, filter>>
        BY <3>3 DEF Log!TogglePause
      <4>2. /\ asOf' \in [live : Nat, frozen : Nat]
            /\ asOf'.live = asOf.live /\ asOf'.frozen = asOf.live
        BY <4>1 DEF ListsInv
      <4> QED
        BY <1>1, <4>1, <4>2 DEF ListsInv
    <3>4. CASE Log!SetFilter
      BY <1>1, <3>4 DEF Log!SetFilter, ListsInv
    <3> QED
      BY <1>3, <3>1, <3>2, <3>3, <3>4 DEF Log!Next
  <2> QED
    BY <2>1, <2>2
<1> QED
  BY <1>2, <1>3 DEF Log!Next, Log!PollReads, Log!PollAnswers, Log!TogglePause,
                    Log!SetFilter

(* The page lists the newest entries of one moment that have the button's  *)
(* level, newest first, none twice or missing: across the ring's wrap,     *)
(* under every limit, while it is paused and under every button, where     *)
(* "warn" lists none (Ring.Add and Tail, routes/logs).                     *)
THEOREM LogPageIsTheNewest == FairSpec => []PageIsTheNewest
<1>1. Init => LogInv
  <2> SUFFICES ASSUME Init PROVE LogInv
    OBVIOUS
  <2>1. /\ limit \in Limits /\ entries = [i \in 1..Size |-> 0] /\ next = 0
        /\ full = FALSE /\ added = 0 /\ logPoll = Log!None /\ live = <<>>
        /\ paused = FALSE /\ asOf = [live |-> 0, frozen |-> 0] /\ filter \in Log!Buttons
    BY DEF Init, Log!Init, Log!Free, Log!Buttons
  <2>2. RingInv
    <3>1. limit \in Nat
      BY <2>1, LogConstants
    <3>2. 0 \in 0..(Size - 1) /\ entries \in [1..Size -> Nat]
      BY <2>1, LogConstants
    <3>3. Slots
      BY <2>1 DEF Slots
    <3>4. ~full /\ added = next /\ next \in 0..(Size - 1) /\ added \in Nat /\ full \in BOOLEAN
      BY <2>1, <3>2
    <3> QED
      BY <3>1, <3>2, <3>3, <3>4, Zenon DEF RingInv
  <2>3. Log!Reverse(<<>>) = Log!Newest(0)
    BY <2>1, LogConstants DEF Log!Reverse, Log!Newest
  <2> QED
    BY <2>1, <2>2, <2>3 DEF LogInv, ListsInv
<1>2. LogInv /\ [Next]_vars => LogInv'
  <2>1. ASSUME LogInv, UNCHANGED log PROVE LogInv'
    <3>1. \A n : Log!Newest(n)' = Log!Newest(n)
      BY <2>1 DEF log, Log!Newest
    <3> QED
      BY <2>1, <3>1 DEF LogInv, RingInv, Slots, OlderSlots, ListsInv, log
  <2> QED
    BY <2>1, OnePart, LogStep
<1>3. LogInv => PageIsTheNewest
  <2> SUFFICES ASSUME LogInv PROVE PageIsTheNewest
    OBVIOUS
  <2>1. Log!Reverse(IF paused THEN frozen ELSE live)
          = Log!Newest(IF paused THEN asOf.frozen ELSE asOf.live)
    BY DEF LogInv, ListsInv
  <2>2. Log!Matches = Log!Asked
    <3> SUFFICES ASSUME NEW level \in Log!Levels
                 PROVE  Log!Matches[level] = Log!Asked[level]
      BY DEF Log!Matches, Log!Asked
    <3>1. filter \in Log!Buttons
      BY DEF LogInv, ListsInv
    <3> QED
      BY <3>1 DEF Log!Matches, Log!Asked, Log!Levels, Log!Buttons, Log!Lowered, Log!Names
  <2> QED
    BY <2>1, <2>2, Zenon DEF PageIsTheNewest, Log!PageIsTheNewest, Log!Shown
<1> QED
  BY <1>1, <1>2, <1>3, PTL DEF FairSpec
-----------------------------------------------------------------------------
(* Dashboard.                                                              *)

Mutations ==
  [view : Views \cup {"left"}, op : {"start", "stop"},
   at : {"calling", "performed", "refetch"}, undone : BOOLEAN]

(* What a mutation has done and nobody has undone is how the relay is, and *)
(* the fetch it waits for, once a status has been shown, will say so.      *)
DashInv ==
  /\ call \in [Calls -> [at : {"unused", "over"}] \cup Mutations]
  /\ running \in BOOLEAN
  /\ \A c \in Calls : call[c].at \in {"performed", "refetch"} /\ ~call[c].undone =>
       running = Dash!Wanted(call[c].op)
  /\ \A c \in Calls : call[c].at = "refetch" /\ ~call[c].undone /\ status # "unknown" =>
       statusPoll \in {"asked", IF Dash!Wanted(call[c].op) THEN "on" ELSE "off"}

(* A relay that goes up or down leaves undone what it contradicts.         *)
LEMMA UndoingMarks ==
  ASSUME DashInv, NEW on \in BOOLEAN
  PROVE  /\ Dash!Undoing(on) \in [Calls -> [at : {"unused", "over"}] \cup Mutations]
         /\ \A c \in Calls :
              /\ Dash!Undoing(on)[c].at = call[c].at
              /\ call[c] \in Mutations =>
                   /\ Dash!Undoing(on)[c] \in Mutations
                   /\ Dash!Undoing(on)[c].op = call[c].op
                   /\ ~Dash!Undoing(on)[c].undone => ~call[c].undone
                   /\ /\ call[c].at \in {"performed", "refetch"}
                      /\ ~Dash!Undoing(on)[c].undone
                      => on = Dash!Wanted(call[c].op)
<1>1. \A c \in Calls :
        Dash!Undoing(on)[c] =
          IF call[c].at \in {"performed", "refetch"} /\ Dash!Wanted(call[c].op) # on
            THEN [call[c] EXCEPT !.undone = TRUE] ELSE call[c]
  BY DEF Dash!Undoing
<1>2. ASSUME NEW c \in Calls
      PROVE  /\ Dash!Undoing(on)[c] \in [at : {"unused", "over"}] \cup Mutations
             /\ Dash!Undoing(on)[c].at = call[c].at
             /\ call[c] \in Mutations =>
                   /\ Dash!Undoing(on)[c] \in Mutations
                   /\ Dash!Undoing(on)[c].op = call[c].op
                   /\ ~Dash!Undoing(on)[c].undone => ~call[c].undone
                   /\ /\ call[c].at \in {"performed", "refetch"}
                      /\ ~Dash!Undoing(on)[c].undone
                      => on = Dash!Wanted(call[c].op)
  <2>1. CASE call[c] \in Mutations
    <3>1. /\ [call[c] EXCEPT !.undone = TRUE] \in Mutations
          /\ [call[c] EXCEPT !.undone = TRUE].at = call[c].at
          /\ [call[c] EXCEPT !.undone = TRUE].op = call[c].op
          /\ [call[c] EXCEPT !.undone = TRUE].undone = TRUE
      BY <2>1 DEF Mutations
    <3>2. call[c].op \in {"start", "stop"} /\ Dash!Wanted(call[c].op) \in BOOLEAN
      BY <2>1 DEF Mutations, Dash!Wanted
    <3> QED
      BY <1>1, <2>1, <3>1, <3>2
  <2>2. CASE call[c] \in [at : {"unused", "over"}] /\ call[c] \notin Mutations
    BY <1>1, <2>2
  <2> QED
    BY <2>1, <2>2 DEF DashInv
<1>3. Dash!Undoing(on) = [c \in Calls |-> Dash!Undoing(on)[c]]
  BY DEF Dash!Undoing
<1> QED
  BY <1>2, <1>3

LEMMA DashStep ==
  ASSUME DashInv, Dash!Next
  PROVE  DashInv'
<1> DEFINE Calling == [at : {"unused", "over"}] \cup Mutations
<1>1. /\ call \in [Calls -> Calling] /\ running \in BOOLEAN
      /\ Dash!Unused \in Calling /\ Dash!Over \in Calling
      /\ Dash!Unused.at = "unused" /\ Dash!Over.at = "over"
  BY DEF DashInv, Dash!Unused, Dash!Over
<1>2. ASSUME NEW v \in Views, Dash!Toggle(v) PROVE DashInv'
  <2>1. PICK c \in Calls :
          call' = [call EXCEPT ![c] =
            [view |-> v, op |-> Dash!Operation, at |-> "calling", undone |-> FALSE]]
    BY <1>2 DEF Dash!Toggle
  <2> DEFINE clicked ==
        [view |-> v, op |-> Dash!Operation, at |-> "calling", undone |-> FALSE]
  <2>2. clicked \in Calling /\ clicked.at = "calling"
    BY DEF Mutations, Dash!Operation
  <2> HIDE DEF clicked
  <2>3. /\ call' \in [Calls -> Calling]
        /\ \A d \in Calls : call'[d] = IF d = c THEN clicked ELSE call[d]
    BY <1>1, <2>1, <2>2 DEF clicked
  <2>4. UNCHANGED <<running, status, statusPoll>>
    BY <1>2 DEF Dash!Toggle
  <2> QED
    BY <2>2, <2>3, <2>4 DEF DashInv, Dash!Wanted
<1>3. CASE Dash!Reopen
  <2>1. /\ \A c \in Calls :
             call'[c] = IF Dash!UnderWay(c) /\ call[c].view = "home"
                          THEN [call[c] EXCEPT !.view = "left"] ELSE call[c]
        /\ UNCHANGED <<running, status, statusPoll>>
        /\ call' = [c \in Calls |-> call'[c]]
    BY <1>3 DEF Dash!Reopen
  <2>2. ASSUME NEW c \in Calls
        PROVE  /\ call'[c] \in Calling /\ call'[c].at = call[c].at
               /\ call[c] \in Mutations =>
                    call'[c].op = call[c].op /\ call'[c].undone = call[c].undone
    <3>1. CASE call[c] \in Mutations
      <4>1. LET left == [call[c] EXCEPT !.view = "left"]
            IN /\ left \in Mutations /\ left.at = call[c].at /\ left.op = call[c].op
               /\ left.undone = call[c].undone
        BY <3>1 DEF Mutations
      <4> QED
        BY <1>1, <2>1, <4>1
    <3>2. CASE call[c] \in [at : {"unused", "over"}]
      BY <1>1, <2>1, <3>2 DEF Dash!UnderWay
    <3> QED
      BY <1>1, <3>1, <3>2
  <2>3. \A c \in Calls : call[c].at \in {"performed", "refetch"} => call[c] \in Mutations
    BY <1>1
  <2> QED
    BY <1>1, <2>1, <2>2, <2>3 DEF DashInv, Dash!Wanted
<1>4. \A c \in Calls : call[c].at \in {"calling", "performed", "refetch"} => call[c] \in Mutations
  BY <1>1
<1>5. CASE Dash!Flip
  <2>1. running' \in BOOLEAN /\ call' = Dash!Undoing(running') /\ UNCHANGED <<status, statusPoll>>
    BY <1>1, <1>5 DEF Dash!Flip
  <2> QED
    BY <1>4, <2>1, UndoingMarks DEF DashInv, Dash!Wanted
<1>6. ASSUME NEW c \in Calls, Dash!Performed(c) PROVE DashInv'
  <2>1. call[c].at = "calling" /\ UNCHANGED <<status, statusPoll>>
    BY <1>6 DEF Dash!Performed
  <2>2. CASE running' = Dash!Wanted(call[c].op)
             /\ call' = [Dash!Undoing(running') EXCEPT ![c].at = "performed"]
    <3> DEFINE marked == Dash!Undoing(running')
               done == [marked[c] EXCEPT !.at = "performed"]
    <3>1. running' \in BOOLEAN
      BY <2>2 DEF Dash!Wanted
    <3>2. /\ marked \in [Calls -> Calling]
          /\ \A d \in Calls :
              /\ marked[d].at = call[d].at
              /\ call[d] \in Mutations =>
                   /\ marked[d] \in Mutations
                   /\ marked[d].op = call[d].op
                   /\ ~marked[d].undone => ~call[d].undone
                   /\ /\ call[d].at \in {"performed", "refetch"}
                      /\ ~marked[d].undone
                      => running' = Dash!Wanted(call[d].op)
      BY <3>1, UndoingMarks
    <3> HIDE DEF marked
    <3>3. /\ done \in Mutations /\ done.at = "performed" /\ done.op = call[c].op
      BY <1>4, <2>1, <3>2 DEF Mutations
    <3>4. /\ call' \in [Calls -> Calling]
          /\ \A d \in Calls : call'[d] = IF d = c THEN done ELSE marked[d]
      BY <2>2, <3>2, <3>3 DEF marked
    <3> HIDE DEF done
    <3>5. ASSUME NEW d \in Calls, call'[d].at \in {"performed", "refetch"}, ~call'[d].undone
          PROVE  /\ running' = Dash!Wanted(call'[d].op)
                 /\ call'[d].at = "refetch" =>
                      /\ call[d].at = "refetch" /\ ~call[d].undone
                      /\ call'[d].op = call[d].op
      <4>1. CASE d = c
        BY <2>2, <3>3, <3>4, <4>1 DEF Dash!Wanted
      <4>2. CASE d # c
        BY <1>4, <3>2, <3>4, <3>5, <4>2 DEF Dash!Wanted
      <4> QED
        BY <4>1, <4>2
    <3> QED
      BY <2>1, <3>1, <3>4, <3>5 DEF DashInv, Dash!Wanted
  <2>3. CASE call' = [call EXCEPT ![c] = Dash!Over] /\ UNCHANGED running
    <3>1. /\ call' \in [Calls -> Calling]
          /\ \A d \in Calls : call'[d] = IF d = c THEN Dash!Over ELSE call[d]
      BY <1>1, <2>3
    <3> QED
      BY <1>1, <2>1, <2>3, <3>1 DEF DashInv, Dash!Wanted
  <2> QED
    BY <1>6, <2>2, <2>3 DEF Dash!Performed
<1>7. ASSUME NEW c \in Calls, Dash!Returned(c) PROVE DashInv'
  <2> DEFINE waits == [call[c] EXCEPT !.at = "refetch"]
  <2>1. /\ call[c].at = "performed" /\ call' = [call EXCEPT ![c] = waits]
        /\ statusPoll' = Dash!Refetch /\ UNCHANGED <<running, status>>
    BY <1>7 DEF Dash!Returned
  <2>2. /\ waits \in Mutations /\ waits.at = "refetch" /\ waits.op = call[c].op
        /\ waits.undone = call[c].undone
    BY <1>4, <2>1 DEF Mutations
  <2> HIDE DEF waits
  <2>3. /\ call' \in [Calls -> Calling]
        /\ \A d \in Calls : call'[d] = IF d = c THEN waits ELSE call[d]
    BY <1>1, <2>1, <2>2
  <2>4. status' # "unknown" => statusPoll' = "asked"
    BY <2>1 DEF Dash!Refetch
  <2> QED
    BY <1>1, <2>1, <2>2, <2>3, <2>4 DEF DashInv, Dash!Wanted
<1>8. CASE Dash!Poll
  BY <1>8 DEF Dash!Poll, DashInv, Dash!Wanted
<1>9. CASE Dash!PollReads
  <2>1. /\ statusPoll' = (IF running THEN "on" ELSE "off")
        /\ UNCHANGED <<running, status, call>>
    BY <1>9 DEF Dash!PollReads
  <2> QED
    BY <2>1 DEF DashInv, Dash!Wanted
<1>10. CASE Dash!PollAnswers
  <2>1. /\ UNCHANGED running
        /\ call' = [c \in Calls |->
             IF call[c].at = "refetch" THEN Dash!Over ELSE call[c]]
    BY <1>10 DEF Dash!PollAnswers
  <2>2. /\ call' \in [Calls -> Calling]
        /\ \A c \in Calls :
             call'[c] = IF call[c].at = "refetch" THEN Dash!Over ELSE call[c]
    BY <1>1, <2>1
  <2>3. \A c \in Calls : call'[c].at # "refetch" /\ (call'[c].at = "performed" => call'[c] = call[c])
    BY <1>1, <2>2
  <2> QED
    BY <1>1, <2>1, <2>2, <2>3 DEF DashInv, Dash!Wanted
<1> QED
  BY <1>2, <1>3, <1>5, <1>6, <1>7, <1>8, <1>9, <1>10 DEF Dash!Next

(* A button never goes from connecting back to what it was: the refetch    *)
(* inside useRelayControl's mutations, whatever polls, flips and the other *)
(* button do meanwhile.                                                    *)
THEOREM NoButtonFlashes == FairSpec => NoFlash
<1>1. Init => DashInv
  BY DEF Init, Dash!Init, Dash!Unused, DashInv
<1>2. DashInv /\ [Next]_vars => DashInv'
  <2>1. ASSUME DashInv, UNCHANGED dash PROVE DashInv'
    BY <2>1 DEF DashInv, dash, Dash!Wanted
  <2> QED
    BY <2>1, OnePart, DashStep
<1>3. DashInv /\ [Next]_vars =>
        [\A c \in Calls :
           call[c].at = "refetch" /\ call'[c] = Dash!Over =>
             \/ status' = (IF Dash!Wanted(call[c].op) THEN "on" ELSE "off")
             \/ call[c].undone
             \/ status = "unknown"]_(Dash!vars)
  <2> SUFFICES ASSUME DashInv, [Next]_vars, NEW c \in Calls,
                      call[c].at = "refetch", call'[c] = Dash!Over,
                      ~call[c].undone, status # "unknown"
               PROVE  status' = (IF Dash!Wanted(call[c].op) THEN "on" ELSE "off")
    OBVIOUS
  <2>1. call'[c].at = "over"
    BY DEF Dash!Over
  <2>2. Dash!Next
    BY <2>1, OnePart DEF dash
  <2>3. statusPoll \in {"asked", IF Dash!Wanted(call[c].op) THEN "on" ELSE "off"}
    BY DEF DashInv
  <2>4. CASE Dash!PollAnswers
    BY <2>3, <2>4 DEF Dash!PollAnswers
  <2>5. CASE ~Dash!PollAnswers
    <3> SUFFICES FALSE
      OBVIOUS
    <3>1. /\ call \in [Calls -> [at : {"unused", "over"}] \cup Mutations]
          /\ call[c] \in Mutations
      BY DEF DashInv
    <3>2. ASSUME NEW v \in Views, Dash!Toggle(v) PROVE FALSE
      <4>1. PICK d \in Calls :
              /\ call[d] = [at |-> "unused"]
              /\ call' = [call EXCEPT ![d] =
                   [view |-> v, op |-> Dash!Operation, at |-> "calling", undone |-> FALSE]]
        BY <3>2 DEF Dash!Toggle, Dash!Unused
      <4>2. c # d
        BY <4>1
      <4>3. call'[c] = call[c]
        BY <3>1, <4>1, <4>2
      <4> QED
        BY <2>1, <4>3
    <3>3. CASE Dash!Reopen
      <4>1. call'[c] \in {call[c], [call[c] EXCEPT !.view = "left"]}
        BY <3>3 DEF Dash!Reopen
      <4>2. [call[c] EXCEPT !.view = "left"].at = call[c].at
        BY <3>1 DEF Mutations
      <4> QED
        BY <2>1, <4>1, <4>2
    <3>4. CASE Dash!Flip
      <4>1. running' \in BOOLEAN /\ call' = Dash!Undoing(running')
        BY <3>4 DEF Dash!Flip, DashInv
      <4> QED
        BY <2>1, <4>1, UndoingMarks
    <3>5. ASSUME NEW d \in Calls, Dash!Performed(d) PROVE FALSE
      <4>1. d # c
        BY <3>5 DEF Dash!Performed
      <4>2. CASE call' = [call EXCEPT ![d] = Dash!Over]
        BY <2>1, <3>1, <4>1, <4>2
      <4>3. CASE /\ running' = Dash!Wanted(call[d].op)
                 /\ call' = [Dash!Undoing(running') EXCEPT ![d].at = "performed"]
        <5>1. running' \in BOOLEAN
          BY <4>3 DEF Dash!Wanted
        <5>2. /\ Dash!Undoing(running') \in [Calls -> [at : {"unused", "over"}] \cup Mutations]
              /\ Dash!Undoing(running')[c].at = call[c].at
          BY <5>1, UndoingMarks
        <5>3. call'[c] = Dash!Undoing(running')[c]
          BY <4>1, <4>3, <5>2
        <5> QED
          BY <2>1, <5>2, <5>3
      <4> QED
        BY <3>5, <4>2, <4>3 DEF Dash!Performed
    <3>6. ASSUME NEW d \in Calls, Dash!Returned(d) PROVE FALSE
      <4>1. d # c /\ call' = [call EXCEPT ![d].at = "refetch"]
        BY <3>6 DEF Dash!Returned
      <4> QED
        BY <2>1, <3>1, <4>1
    <3>7. CASE Dash!Poll \/ Dash!PollReads
      BY <2>1, <3>7 DEF Dash!Poll, Dash!PollReads
    <3> QED
      BY <2>2, <2>5, <3>2, <3>3, <3>4, <3>5, <3>6, <3>7 DEF Dash!Next
  <2> QED
    BY <2>4, <2>5
<1> QED
  BY <1>1, <1>2, <1>3, PTL DEF FairSpec, NoFlash, Dash!NoFlash
-----------------------------------------------------------------------------
(* Metrics.                                                                *)

(* The sum of a table is the number of its units, counted one by one; in   *)
(* this form it needs no fold.                                             *)
Units(f, S) == {u \in S \X Nat : 1 <= u[2] /\ u[2] <= f[u[1]]}

LEMMA UnitsOfOneMore ==
  ASSUME NEW S, NEW f \in [S -> Nat], NEW s \in SUBSET S, NEW x \in s,
         IsFiniteSet(Units(f, s \ {x}))
  PROVE  /\ IsFiniteSet(Units(f, s))
         /\ Cardinality(Units(f, s)) = f[x] + Cardinality(Units(f, s \ {x}))
<1> DEFINE Own == {u \in {x} \X Nat : 1 <= u[2] /\ u[2] <= f[x]}
           g == [i \in 1..f[x] |-> <<x, i>>]
<1>1. f[x] \in Nat
  OBVIOUS
<1>2. IsFiniteSet(Own) /\ Cardinality(Own) = f[x]
  <2>1. g \in [1..f[x] -> Own]
    <3>1. \A i \in 1..f[x] : <<x, i>> \in Own
      BY <1>1
    <3> QED
      BY <3>1
  <2>2. \A u \in Own : \E i \in 1..f[x] : g[i] = u
    <3> SUFFICES ASSUME NEW u \in Own PROVE \E i \in 1..f[x] : g[i] = u
      OBVIOUS
    <3>1. u[2] \in 1..f[x] /\ u = <<x, u[2]>>
      BY <1>1
    <3> QED
      BY <3>1
  <2>3. \A i, j \in 1..f[x] : g[i] = g[j] => i = j
    OBVIOUS
  <2> HIDE DEF g, Own
  <2>4. g \in Bijection(1..f[x], Own)
    BY <2>1, <2>2, <2>3 DEF Bijection, Injection, Surjection, IsInjective
  <2>5. IsFiniteSet(1..f[x]) /\ Cardinality(1..f[x]) = f[x]
    BY <1>1, FS_Interval
  <2> QED
    BY <2>4, <2>5, FS_Bijection DEF ExistsBijection
<1>3. Units(f, s) = Own \cup Units(f, s \ {x})
  BY DEF Units
<1>4. Own \cap Units(f, s \ {x}) = {}
  BY DEF Units
<1> HIDE DEF Own
<1>5. Cardinality(Own \cap Units(f, s \ {x})) = 0
  BY <1>4, FS_EmptySet
<1>6. /\ IsFiniteSet(Own \cup Units(f, s \ {x}))
      /\ Cardinality(Own \cup Units(f, s \ {x}))
           = f[x] + Cardinality(Units(f, s \ {x})) - 0
  BY <1>2, <1>5, FS_Union
<1> QED
  BY <1>1, <1>3, <1>6, FS_CardinalityType

LEMMA UnitsAreFinite ==
  ASSUME NEW S, IsFiniteSet(S), NEW f \in [S -> Nat]
  PROVE  \A s \in SUBSET S : IsFiniteSet(Units(f, s)) /\ Cardinality(Units(f, s)) \in Nat
<1> DEFINE Sizes == {m \in Nat : \A s \in SUBSET S :
                       Cardinality(s) = m => IsFiniteSet(Units(f, s))}
<1>1. \A s \in SUBSET S : IsFiniteSet(s) /\ Cardinality(s) \in Nat
  BY FS_Subset, FS_CardinalityType
<1>2. 0 \in Sizes
  <2> SUFFICES ASSUME NEW s \in SUBSET S, Cardinality(s) = 0
               PROVE  IsFiniteSet(Units(f, s))
    OBVIOUS
  <2>1. s = {}
    BY <1>1, FS_EmptySet
  <2>2. Units(f, s) = {}
    BY <2>1 DEF Units
  <2> QED
    BY <2>2, FS_EmptySet
<1>3. ASSUME NEW m \in Nat, m \in Sizes PROVE m + 1 \in Sizes
  <2> SUFFICES ASSUME NEW s \in SUBSET S, Cardinality(s) = m + 1
               PROVE  IsFiniteSet(Units(f, s))
    OBVIOUS
  <2>1. PICK x : x \in s
    BY <1>1, FS_EmptySet
  <2>2. s \ {x} \in SUBSET S /\ Cardinality(s \ {x}) = m
    BY <1>1, <2>1, FS_RemoveElement
  <2> QED
    BY <1>3, <2>1, <2>2, UnitsOfOneMore
<1> HIDE DEF Sizes
<1>4. Nat \subseteq Sizes
  BY <1>2, <1>3, Induct
<1>5. ASSUME NEW s \in SUBSET S PROVE IsFiniteSet(Units(f, s))
  BY <1>1, <1>4 DEF Sizes
<1> QED
  BY <1>5, FS_CardinalityType

LEMMA SumIsCount ==
  ASSUME NEW S, IsFiniteSet(S), NEW f \in [S -> Nat]
  PROVE  Traffic!MapThenSumSet(LAMBDA h : f[h], S) = Cardinality(Units(f, S))
<1> DEFINE x(s) == CHOOSE y \in s : TRUE
           G == [s \in SUBSET S |-> Cardinality(Units(f, s))]
           Rec(t) == t = [s \in SUBSET S |->
                            IF s = {} THEN 0 ELSE f[x(s)] + t[s \ {x(s)}]]
           I == CHOOSE t : Rec(t)
<1>1. \A s \in SUBSET S : s # {} => x(s) \in s
  OBVIOUS
<1> HIDE DEF x
<1>2. \A s \in SUBSET S :
        G[s] = IF s = {} THEN 0 ELSE f[x(s)] + G[s \ {x(s)}]
  <2> SUFFICES ASSUME NEW s \in SUBSET S
               PROVE  G[s] = IF s = {} THEN 0 ELSE f[x(s)] + G[s \ {x(s)}]
    OBVIOUS
  <2>1. CASE s = {}
    <3>1. Units(f, s) = {}
      BY <2>1 DEF Units
    <3> QED
      BY <2>1, <3>1, FS_EmptySet
  <2>2. CASE s # {}
    <3>1. x(s) \in s /\ s \ {x(s)} \in SUBSET S
      BY <1>1, <2>2
    <3>2. IsFiniteSet(Units(f, s \ {x(s)}))
      BY <3>1, UnitsAreFinite
    <3>3. Cardinality(Units(f, s)) = f[x(s)] + Cardinality(Units(f, s \ {x(s)}))
      BY <3>1, <3>2, UnitsOfOneMore
    <3> QED
      BY <2>2, <3>1, <3>3
  <2> QED
    BY <2>1, <2>2
<1>3. Rec(G)
  <2>1. G = [s \in SUBSET S |-> G[s]]
    OBVIOUS
  <2> HIDE DEF G
  <2> QED
    BY <1>2, <2>1
<1>4. Rec(I)
  <2> HIDE DEF Rec
  <2> QED
    BY <1>3
<1> HIDE DEF I
<1>5. \A s \in SUBSET S : I[s] = IF s = {} THEN 0 ELSE f[x(s)] + I[s \ {x(s)}]
  BY <1>4
<1> HIDE DEF Rec, G
<1> DEFINE Sizes == {m \in Nat : \A s \in SUBSET S : Cardinality(s) = m => I[s] = G[s]}
<1>6. \A s \in SUBSET S : IsFiniteSet(s) /\ Cardinality(s) \in Nat
  BY FS_Subset, FS_CardinalityType
<1>7. 0 \in Sizes
  <2> SUFFICES ASSUME NEW s \in SUBSET S, Cardinality(s) = 0 PROVE I[s] = G[s]
    OBVIOUS
  <2>1. s = {}
    BY <1>6, FS_EmptySet
  <2> QED
    BY <1>2, <1>5, <2>1
<1>8. ASSUME NEW m \in Nat, m \in Sizes PROVE m + 1 \in Sizes
  <2> SUFFICES ASSUME NEW s \in SUBSET S, Cardinality(s) = m + 1 PROVE I[s] = G[s]
    OBVIOUS
  <2>1. s # {}
    BY <1>6, FS_EmptySet
  <2>2. s \ {x(s)} \in SUBSET S /\ Cardinality(s \ {x(s)}) = m
    <3>1. PICK y : y = x(s)
      OBVIOUS
    <3>2. y \in s
      BY <1>1, <2>1, <3>1
    <3>3. Cardinality(s \ {y}) = m
      <4>1. IsFiniteSet(s)
        BY <1>6
      <4>2. Cardinality(s \ {y}) = Cardinality(s) - 1
        BY <3>2, <4>1, FS_RemoveElement
      <4> QED
        BY <4>2
    <3> QED
      BY <3>1, <3>3
  <2>3. I[s \ {x(s)}] = G[s \ {x(s)}]
    BY <1>8, <2>2
  <2> QED
    BY <1>2, <1>5, <2>1, <2>3
<1> HIDE DEF Sizes
<1>9. Cardinality(S) \in Sizes
  BY <1>6, <1>7, <1>8, Induct
<1>10. I[S] = G[S]
  BY <1>9 DEF Sizes
<1>11. Traffic!MapThenSumSet(LAMBDA h : f[h], S) = I[S]
  BY DEF Traffic!MapThenSumSet, Traffic!MapThenFoldSet, I, Rec, x
<1> QED
  BY <1>10, <1>11 DEF G

LEMMA SameCount == \A S : Traffic!Cardinality(S) = Cardinality(S)
BY Zenon DEF Traffic!Cardinality, Cardinality

(* The maps have one domain, the hosts are ordered by when they were seen, *)
(* and the totals count every unit of the maps and more.                   *)
TrafficInv ==
  /\ maxHosts \in Nat \ {0} /\ recorded \in Nat /\ failed \in Nat
  /\ tick \in Nat /\ gone \in 0..tick
  /\ IsFiniteSet(Traffic!Known) /\ Cardinality(Traffic!Known) <= maxHosts
  /\ requests \in [Traffic!Known -> Nat \ {0}]
  /\ lastSeen \in [Traffic!Known -> 1..tick]
  /\ \A g, h \in Traffic!Known : lastSeen[g] = lastSeen[h] => g = h
  /\ \A h \in Traffic!Known : lastSeen[h] > gone
  /\ errors \in [DOMAIN errors -> Nat] /\ DOMAIN errors \subseteq Traffic!Known
  /\ \A h \in DOMAIN errors : errors[h] <= requests[h]
  /\ latest # Traffic!NoHost =>
       latest \in Traffic!Known /\ lastSeen[latest] = tick
  /\ Cardinality(Units(requests, Traffic!Known)) <= recorded
  /\ Cardinality(Units(errors, DOMAIN errors)) <= failed

(* A table of which some rows went and one unit at most was added.         *)
LEMMA OneUnitMore ==
  ASSUME NEW S, IsFiniteSet(S), NEW f \in [S -> Nat], NEW n \in Nat,
         Cardinality(Units(f, S)) <= n,
         NEW g, NEW D, NEW u, Units(g, D) \subseteq Units(f, S) \cup {u}
  PROVE  /\ Cardinality(Units(g, D)) <= n + 1
         /\ Units(g, D) \subseteq Units(f, S) => Cardinality(Units(g, D)) <= n
<1>1. IsFiniteSet(Units(f, S)) /\ Cardinality(Units(f, S)) \in Nat
  BY UnitsAreFinite
<1>2. /\ IsFiniteSet(Units(f, S) \cup {u})
      /\ Cardinality(Units(f, S) \cup {u}) <= Cardinality(Units(f, S)) + 1
  <2>1. ASSUME NEW U, IsFiniteSet(U), Cardinality(U) \in Nat
        PROVE  IsFiniteSet(U \cup {u}) /\ Cardinality(U \cup {u}) <= Cardinality(U) + 1
    <3>1. /\ IsFiniteSet(U \cup {u})
          /\ Cardinality(U \cup {u}) = IF u \in U THEN Cardinality(U) ELSE Cardinality(U) + 1
      BY <2>1, FS_AddElement
    <3> QED
      BY <2>1, <3>1
  <2> QED
    BY <1>1, <2>1
<1>3. /\ Cardinality(Units(g, D)) <= Cardinality(Units(f, S) \cup {u})
      /\ IsFiniteSet(Units(g, D))
  BY <1>2, FS_Subset
<1>4. Units(g, D) \subseteq Units(f, S) =>
        Cardinality(Units(g, D)) <= Cardinality(Units(f, S))
  BY <1>1, FS_Subset
<1>5. /\ Cardinality(Units(g, D)) \in Nat
      /\ Cardinality(Units(f, S) \cup {u}) \in Nat
  BY <1>2, <1>3, FS_CardinalityType
<1> QED
  BY <1>1, <1>2, <1>3, <1>4, <1>5

LEMMA OldestIsOldest ==
  ASSUME TrafficInv, Traffic!Known # {}
  PROVE  /\ Traffic!Oldest \in Traffic!Known
         /\ \A g \in Traffic!Known : lastSeen[Traffic!Oldest] <= lastSeen[g]
<1> DEFINE Times == {lastSeen[g] : g \in Traffic!Known}
<1>1. Times \in SUBSET Nat /\ Times # {}
  <2>1. \A g \in Traffic!Known : lastSeen[g] \in Nat
    BY DEF TrafficInv
  <2> QED
    BY <2>1
<1> HIDE DEF Times
<1>2. PICK t \in Times : \A y \in Times : t <= y
  BY <1>1, Least
<1>3. PICK h \in Traffic!Known : t = lastSeen[h]
  BY <1>2 DEF Times
<1>4. \A g \in Traffic!Known : lastSeen[h] <= lastSeen[g]
  BY <1>2, <1>3 DEF Times
<1> QED
  BY <1>4 DEF Traffic!Oldest

LEMMA RecordStep ==
  ASSUME TrafficInv, NEW h, NEW fails \in BOOLEAN, Traffic!Record(h, fails)
  PROVE  TrafficInv'
<1> DEFINE K == Traffic!Known
           E == DOMAIN errors
           evicts == h # Traffic!NoHost /\ h \notin K /\ Cardinality(K) >= maxHosts
           kept == IF evicts THEN K \ {Traffic!Oldest} ELSE K
<1>1. /\ recorded' = recorded + 1 /\ failed' = failed + (IF fails THEN 1 ELSE 0)
      /\ maxHosts' = maxHosts
  BY DEF Traffic!Record
<1>2. CASE h = Traffic!NoHost
  <2>1. UNCHANGED <<tick, requests, errors, lastSeen, latest, gone>>
    BY <1>2 DEF Traffic!Record
  <2>2. failed' \in Nat /\ failed' >= failed /\ recorded' \in Nat /\ recorded' >= recorded
    BY <1>1 DEF TrafficInv
  <2>3. /\ Cardinality(Units(requests, K)) \in Nat
        /\ Cardinality(Units(errors, E)) \in Nat
    BY UnitsAreFinite, FS_Subset DEF TrafficInv
  <2>4. /\ Cardinality(Units(requests, K)) <= recorded'
        /\ Cardinality(Units(errors, E)) <= failed'
    BY <2>2, <2>3 DEF TrafficInv
  <2>5. K' = K /\ E' = E
    BY <2>1 DEF Traffic!Known
  <2> QED
    BY <1>1, <2>1, <2>2, <2>4, <2>5 DEF TrafficInv, Traffic!NoHost, Units
<1>3. CASE h # Traffic!NoHost
  <2>1. /\ tick' = tick + 1 /\ latest' = h
        /\ gone' = IF evicts THEN lastSeen[Traffic!Oldest] ELSE gone
        /\ requests' = Traffic!Put(Traffic!Restrict(requests, kept), h,
                                   Traffic!Get(requests, h) + 1)
        /\ lastSeen' = Traffic!Put(Traffic!Restrict(lastSeen, kept), h, tick')
        /\ errors' = IF fails
             THEN Traffic!Put(Traffic!Restrict(errors, kept \cap E), h,
                              Traffic!Get(errors, h) + 1)
             ELSE Traffic!Restrict(errors, kept \cap E)
    BY <1>3, SameCount DEF Traffic!Record, Traffic!Crowded
  <2>2. /\ kept \subseteq K /\ (h \in K => h \in kept)
        /\ IsFiniteSet(kept \cup {h}) /\ Cardinality(kept \cup {h}) <= maxHosts
        /\ gone' \in 0..tick
        /\ \A g \in kept : lastSeen[g] > gone'
    <3>1. CASE evicts
      <4>1. K # {}
        BY <3>1, FS_EmptySet DEF TrafficInv
      <4>2. /\ Traffic!Oldest \in K
            /\ \A g \in K : lastSeen[Traffic!Oldest] <= lastSeen[g]
        BY <4>1, OldestIsOldest
      <4>3. \A g \in K \ {Traffic!Oldest} : lastSeen[g] > lastSeen[Traffic!Oldest]
        <5>1. \A g \in K : lastSeen[g] \in 1..tick
          BY DEF TrafficInv
        <5> QED
          BY <4>2, <5>1 DEF TrafficInv
      <4>4. /\ IsFiniteSet(K \ {Traffic!Oldest})
            /\ Cardinality(K \ {Traffic!Oldest}) = Cardinality(K) - 1
        BY <4>2, FS_RemoveElement DEF TrafficInv
      <4>5. /\ IsFiniteSet(kept \cup {h})
            /\ Cardinality(kept \cup {h}) = Cardinality(K)
        <5>1. PICK D : D = K \ {Traffic!Oldest}
          OBVIOUS
        <5>2. /\ IsFiniteSet(D \cup {h})
              /\ Cardinality(D \cup {h}) = Cardinality(D) + 1
          BY <3>1, <4>4, <5>1, FS_AddElement
        <5>3. Cardinality(K) \in Nat
          BY FS_CardinalityType DEF TrafficInv
        <5> QED
          BY <3>1, <4>4, <5>1, <5>2, <5>3
      <4>6. lastSeen[Traffic!Oldest] \in 0..tick
        BY <4>2 DEF TrafficInv
      <4> QED
        BY <2>1, <3>1, <4>3, <4>5, <4>6 DEF TrafficInv
    <3>2. CASE ~evicts
      <4>1. kept = K /\ gone' = gone
        BY <2>1, <3>2
      <4>2. IsFiniteSet(K) /\ Cardinality(K) \in Nat
        BY FS_CardinalityType DEF TrafficInv
      <4>3. IsFiniteSet(K \cup {h}) /\ Cardinality(K \cup {h}) <= maxHosts
        <5>1. PICK D : D = K
          OBVIOUS
        <5>2. /\ IsFiniteSet(D \cup {h})
              /\ Cardinality(D \cup {h}) = IF h \in D THEN Cardinality(D)
                                              ELSE Cardinality(D) + 1
          BY <4>2, <5>1, FS_AddElement
        <5>3. Cardinality(D) <= maxHosts /\ maxHosts \in Nat
          BY <5>1 DEF TrafficInv
        <5> QED
          BY <1>3, <3>2, <4>2, <5>1, <5>2, <5>3
      <4> QED
        BY <4>1, <4>3 DEF TrafficInv
    <3> QED
      BY <3>1, <3>2
  <2> HIDE DEF kept
  <2>3. /\ requests' = [g \in kept \cup {h} |->
                          IF g = h THEN Traffic!Get(requests, h) + 1 ELSE requests[g]]
        /\ lastSeen' = [g \in kept \cup {h} |-> IF g = h THEN tick + 1 ELSE lastSeen[g]]
    BY <2>1 DEF Traffic!Put, Traffic!Restrict
  <2>4. /\ E' = (kept \cap E) \cup (IF fails THEN {h} ELSE {})
        /\ errors' = [g \in E' |-> IF fails /\ g = h THEN Traffic!Get(errors, h) + 1
                                   ELSE errors[g]]
    <3>1. CASE fails
      BY <2>1, <3>1 DEF Traffic!Put, Traffic!Restrict
    <3>2. CASE ~fails
      BY <2>1, <3>2 DEF Traffic!Restrict
    <3> QED
      BY <3>1, <3>2
  <2>5. /\ Traffic!Get(requests, h) \in Nat /\ Traffic!Get(errors, h) \in Nat
        /\ Traffic!Get(errors, h) <= Traffic!Get(requests, h)
        /\ h \in K => Traffic!Get(requests, h) = requests[h]
        /\ h \notin K => Traffic!Get(requests, h) = 0
        /\ h \in E => Traffic!Get(errors, h) = errors[h]
        /\ h \notin E => Traffic!Get(errors, h) = 0
    <3>1. K = DOMAIN requests
      BY DEF Traffic!Known
    <3>2. CASE h \in E
      BY <3>1, <3>2 DEF TrafficInv, Traffic!Get
    <3>3. CASE h \notin E
      BY <3>1, <3>3 DEF TrafficInv, Traffic!Get
    <3> QED
      BY <3>2, <3>3
  <2>6. K' = kept \cup {h}
    BY <2>3 DEF Traffic!Known
  <2> HIDE DEF K, E
  <2>7. /\ \A g \in K : requests[g] \in Nat \ {0} /\ lastSeen[g] \in 1..tick
        /\ \A g \in E : errors[g] \in Nat /\ g \in K /\ errors[g] <= requests[g]
        /\ tick \in Nat
    BY DEF TrafficInv, K, E
  <2>8. requests' \in [K' -> Nat \ {0}]
    <3>1. \A g \in K' : (IF g = h THEN Traffic!Get(requests, h) + 1 ELSE requests[g])
                          \in Nat \ {0}
      BY <2>2, <2>5, <2>6, <2>7
    <3> QED
      BY <2>3, <2>6, <3>1
  <2>9. /\ lastSeen' \in [K' -> 1..tick']
        /\ \A g \in K' : lastSeen'[g] > gone'
        /\ lastSeen'[h] = tick'
    <3>1. \A g \in K' : /\ lastSeen'[g] = IF g = h THEN tick + 1 ELSE lastSeen[g]
                        /\ lastSeen'[g] \in 1..tick' /\ lastSeen'[g] > gone'
      BY <2>1, <2>2, <2>3, <2>6, <2>7
    <3> QED
      BY <2>1, <2>3, <2>6, <3>1
  <2>10. \A g, k \in K' : lastSeen'[g] = lastSeen'[k] => g = k
    <3>1. \A g \in K' : /\ lastSeen'[g] = IF g = h THEN tick + 1 ELSE lastSeen[g]
                        /\ g # h => g \in K /\ lastSeen[g] \in 1..tick
      BY <2>2, <2>3, <2>6, <2>7
    <3>2. \A g, k \in K : lastSeen[g] = lastSeen[k] => g = k
      BY DEF TrafficInv, K
    <3> QED
      BY <2>7, <3>1, <3>2
  <2>11. /\ errors' \in [E' -> Nat] /\ E' \subseteq K'
         /\ \A g \in E' : errors'[g] <= requests'[g]
    <3>1. ASSUME NEW g \in E'
          PROVE  /\ errors'[g] \in Nat /\ g \in K' /\ errors'[g] <= requests'[g]
      <4>1. CASE g # h
        <5>1. g \in kept /\ g \in E
          BY <2>4, <4>1
        <5>2. errors'[g] = errors[g] /\ requests'[g] = requests[g]
          BY <2>3, <2>4, <4>1, <5>1
        <5> QED
          BY <2>6, <2>7, <5>1, <5>2
      <4>2. CASE g = h /\ fails
        <5>1. /\ errors'[g] = Traffic!Get(errors, h) + 1
              /\ requests'[g] = Traffic!Get(requests, h) + 1
          BY <2>3, <2>4, <4>2
        <5> QED
          BY <2>5, <2>6, <4>2, <5>1
      <4>3. CASE g = h /\ ~fails
        <5>1. h \in E /\ h \in K
          BY <2>4, <2>7, <4>3
        <5>2. errors'[g] = errors[h] /\ requests'[g] = requests[h] + 1
          BY <2>3, <2>4, <2>5, <4>3, <5>1
        <5> QED
          BY <2>6, <2>7, <4>3, <5>1, <5>2
      <4> QED
        BY <4>1, <4>2, <4>3
    <3>2. errors' = [g \in E' |-> errors'[g]]
      BY <2>4
    <3> QED
      BY <3>1, <3>2
  <2>12. /\ Cardinality(Units(requests', K')) <= recorded'
         /\ recorded' \in Nat
    <3> DEFINE u == <<h, Traffic!Get(requests, h) + 1>>
    <3>1. Units(requests', K') \subseteq Units(requests, K) \cup {u}
      <4> SUFFICES ASSUME NEW p \in Units(requests', K'), p # u
                   PROVE  p \in Units(requests, K)
        OBVIOUS
      <4>1. PICK g \in K', n \in Nat : p = <<g, n>> /\ 1 <= n /\ n <= requests'[g]
        BY DEF Units
      <4>2. CASE g = h
        <5>1. n <= Traffic!Get(requests, h) + 1 /\ n # Traffic!Get(requests, h) + 1
          BY <2>3, <4>1, <4>2
        <5>2. n <= Traffic!Get(requests, h)
          BY <2>5, <5>1
        <5>3. h \in K /\ n <= requests[h]
          BY <2>5, <4>1, <5>2
        <5> QED
          BY <4>1, <4>2, <5>3 DEF Units
      <4>3. CASE g # h
        <5>1. g \in K /\ requests'[g] = requests[g]
          BY <2>2, <2>3, <2>6, <4>3
        <5> QED
          BY <4>1, <5>1 DEF Units
      <4> QED
        BY <4>2, <4>3
    <3>2. requests \in [K -> Nat] /\ IsFiniteSet(K)
      BY DEF TrafficInv, K
    <3>3. recorded \in Nat /\ Cardinality(Units(requests, K)) <= recorded
      BY DEF TrafficInv, K
    <3> HIDE DEF u
    <3>4. Cardinality(Units(requests', K')) <= recorded + 1
      BY <3>1, <3>2, <3>3, OneUnitMore
    <3> QED
      BY <1>1, <3>3, <3>4
  <2>13. /\ Cardinality(Units(errors', E')) <= failed'
         /\ failed' \in Nat
    <3> DEFINE u == <<h, Traffic!Get(errors, h) + 1>>
    <3>1. /\ Units(errors', E') \subseteq Units(errors, E) \cup {u}
          /\ ~fails => Units(errors', E') \subseteq Units(errors, E)
      <4> SUFFICES ASSUME NEW p \in Units(errors', E'), p # u \/ ~fails
                   PROVE  p \in Units(errors, E)
        OBVIOUS
      <4>1. PICK g \in E', n \in Nat : p = <<g, n>> /\ 1 <= n /\ n <= errors'[g]
        BY DEF Units
      <4>2. CASE g = h /\ fails
        <5>1. n <= Traffic!Get(errors, h) + 1 /\ n # Traffic!Get(errors, h) + 1
          BY <2>4, <4>1, <4>2
        <5>2. n <= Traffic!Get(errors, h)
          BY <2>5, <5>1
        <5>3. h \in E /\ n <= errors[h]
          BY <2>5, <4>1, <5>2
        <5> QED
          BY <4>1, <4>2, <5>3 DEF Units
      <4>3. CASE ~(g = h /\ fails)
        <5>1. g \in E /\ errors'[g] = errors[g]
          BY <2>4, <4>3
        <5> QED
          BY <4>1, <5>1 DEF Units
      <4> QED
        BY <4>2, <4>3
    <3>2. errors \in [E -> Nat] /\ IsFiniteSet(E)
      BY FS_Subset DEF TrafficInv, E
    <3>3. failed \in Nat /\ Cardinality(Units(errors, E)) <= failed
      BY DEF TrafficInv, E
    <3> HIDE DEF u
    <3>4. /\ Cardinality(Units(errors', E')) <= failed + 1
          /\ ~fails => Cardinality(Units(errors', E')) <= failed
      BY <3>1, <3>2, <3>3, OneUnitMore
    <3> QED
      BY <1>1, <3>3, <3>4
  <2>14. tick' \in Nat /\ gone' \in 0..tick'
    BY <2>1, <2>2, <2>7
  <2>15. /\ maxHosts' \in Nat \ {0}
         /\ IsFiniteSet(K') /\ Cardinality(K') <= maxHosts'
    BY <1>1, <2>2, <2>6 DEF TrafficInv
  <2> QED
    BY <2>1, <2>6, <2>8, <2>9, <2>10, <2>11, <2>12, <2>13, <2>14, <2>15
    DEF TrafficInv, K, E
<1> QED
  BY <1>2, <1>3

(* SetCap keeps as many as the cap: the one of them seen longest ago has   *)
(* all others after it.                                                    *)
LEMMA SetCapStep ==
  ASSUME TrafficInv, NEW c \in Caps, Traffic!SetCap(c)
  PROVE  TrafficInv'
<1> DEFINE K == Traffic!Known
           E == DOMAIN errors
           Above(h) == {g \in K : lastSeen[g] > lastSeen[h]}
           kept == {h \in K : Cardinality(Above(h)) < c}
           dropped == K \ kept
           Times == {lastSeen[h] : h \in dropped}
<1>1. c \in Nat \ {0}
  BY PartsAssumption DEF Traffic!MetricsAssumption, Traffic!SetCap
<1>2. /\ maxHosts' = c
      /\ requests' = [g \in kept |-> requests[g]]
      /\ errors' = [g \in kept \cap E |-> errors[g]]
      /\ lastSeen' = [g \in kept |-> lastSeen[g]]
      /\ gone' = IF dropped = {} THEN gone ELSE Traffic!Max(Times)
      /\ UNCHANGED <<tick, recorded, failed, latest>>
  BY SameCount DEF Traffic!SetCap, Traffic!Restrict
<1>3. /\ IsFiniteSet(K) /\ tick \in Nat
      /\ \A g \in K : requests[g] \in Nat \ {0} /\ lastSeen[g] \in 1..tick
      /\ \A g, h \in K : lastSeen[g] = lastSeen[h] => g = h
      /\ \A g \in E : errors[g] \in Nat /\ g \in K /\ errors[g] <= requests[g]
  BY DEF TrafficInv
<1>4. K' = kept /\ E' = kept \cap E
  <2> HIDE DEF kept
  <2> QED
    BY <1>2 DEF Traffic!Known
<1>5. \A h \in K : IsFiniteSet(Above(h)) /\ Cardinality(Above(h)) \in Nat
  <2> SUFFICES ASSUME NEW h \in K
               PROVE  IsFiniteSet(Above(h)) /\ Cardinality(Above(h)) \in Nat
    OBVIOUS
  <2>1. IsFiniteSet(Above(h))
    <3>1. Above(h) \in SUBSET K
      OBVIOUS
    <3> QED
      BY <1>3, <3>1, FS_Subset
  <2> QED
    BY <2>1, FS_CardinalityType
<1>6. kept \subseteq K /\ dropped \subseteq K
  OBVIOUS
<1>7. \A h \in kept, d \in dropped : lastSeen[h] > lastSeen[d]
  <2> SUFFICES ASSUME NEW h \in kept, NEW d \in dropped, ~(lastSeen[h] > lastSeen[d])
               PROVE  FALSE
    OBVIOUS
  <2>1. \A g \in K : lastSeen[g] > lastSeen[d] => lastSeen[g] > lastSeen[h]
    BY <1>3, <1>6
  <2>2. Above(d) \in SUBSET Above(h) /\ IsFiniteSet(Above(h))
    BY <1>5, <1>6, <2>1
  <2>3. Cardinality(Above(d)) <= Cardinality(Above(h))
    <3> HIDE DEF Above
    <3> QED
      BY <2>2, FS_Subset
  <2>4. Cardinality(Above(h)) < c /\ ~(Cardinality(Above(d)) < c)
    OBVIOUS
  <2>5. Cardinality(Above(h)) \in Nat /\ Cardinality(Above(d)) \in Nat
    BY <1>5, <1>6
  <2> QED
    BY <1>1, <2>3, <2>4, <2>5
<1>8. IsFiniteSet(kept) /\ Cardinality(kept) <= c
  <2>1. IsFiniteSet(kept)
    BY <1>3, <1>6, FS_Subset
  <2>2. CASE kept = {}
    <3> HIDE DEF kept
    <3> QED
      BY <1>1, <2>1, <2>2, FS_EmptySet
  <2>3. CASE kept # {}
    <3> DEFINE Seen == {lastSeen[h] : h \in kept}
    <3>1. Seen \in SUBSET Nat /\ Seen # {}
      <4>1. \A h \in kept : lastSeen[h] \in Nat
        BY <1>3, <1>6
      <4> HIDE DEF kept
      <4> QED
        BY <2>3, <4>1
    <3> HIDE DEF Seen
    <3>2. PICK t \in Seen : \A y \in Seen : t <= y
      BY <3>1, Least
    <3>3. PICK x \in kept : t = lastSeen[x]
      BY <3>2 DEF Seen
    <3>4. \A h \in kept : lastSeen[x] <= lastSeen[h]
      BY <3>2, <3>3 DEF Seen
    <3>5. kept \ {x} \in SUBSET Above(x)
      <4>1. \A h \in kept : h # x => lastSeen[h] > lastSeen[x] /\ h \in K
        BY <1>3, <1>6, <3>3, <3>4
      <4> HIDE DEF kept
      <4> QED
        BY <4>1
    <3>6. /\ Cardinality(Above(x)) < c
          /\ IsFiniteSet(Above(x)) /\ Cardinality(Above(x)) \in Nat
      BY <1>5, <1>6
    <3> HIDE DEF Above, kept
    <3>7. Cardinality(kept \ {x}) <= Cardinality(Above(x))
      BY <3>5, <3>6, FS_Subset
    <3>8. Cardinality(kept \ {x}) = Cardinality(kept) - 1 /\ Cardinality(kept) \in Nat
      BY <2>1, <3>3, FS_RemoveElement, FS_CardinalityType
    <3> QED
      BY <1>1, <2>1, <3>6, <3>7, <3>8
  <2> QED
    BY <2>1, <2>2, <2>3
<1>9. gone' \in 0..tick /\ \A h \in kept : lastSeen[h] > gone'
  <2>1. CASE dropped = {}
    <3>1. gone' = gone
      BY <1>2, <2>1
    <3> QED
      BY <1>6, <3>1 DEF TrafficInv
  <2>2. CASE dropped # {}
    <3>1. \A h \in dropped : lastSeen[h] \in 0..tick
      BY <1>3, <1>6
    <3> HIDE DEF dropped
    <3>2. Times \in SUBSET (0..tick) /\ Times # {}
      BY <2>2, <3>1
    <3>3. gone' = Traffic!Max(Times)
      BY <1>2, <2>2
    <3> HIDE DEF Times
    <3>4. PICK m \in Times : \A y \in Times : y <= m
      BY <1>3, <3>2, Greatest
    <3>5. \A y \in Times : m >= y
      BY <1>3, <3>2, <3>4
    <3>6. Traffic!Max(Times) \in Times
      BY <3>5 DEF Traffic!Max
    <3>7. PICK d \in dropped : gone' = lastSeen[d]
      BY <3>3, <3>6 DEF Times
    <3> QED
      BY <1>7, <3>1, <3>7
  <2> QED
    BY <2>1, <2>2
<1>10. latest # Traffic!NoHost => latest \in kept /\ lastSeen[latest] = tick
  <2> SUFFICES ASSUME latest # Traffic!NoHost
               PROVE  latest \in kept /\ lastSeen[latest] = tick
    OBVIOUS
  <2>1. latest \in K /\ lastSeen[latest] = tick
    BY DEF TrafficInv
  <2>2. Above(latest) = {}
    <3>1. \A g \in K : ~(lastSeen[g] > lastSeen[latest])
      BY <1>3, <2>1
    <3> QED
      BY <3>1
  <2>3. Cardinality(Above(latest)) = 0
    BY <2>2, FS_EmptySet
  <2> QED
    BY <1>1, <2>1, <2>3
<1> HIDE DEF kept, dropped, Times, Above
<1>11. /\ Cardinality(Units(requests', K')) <= recorded
       /\ Cardinality(Units(errors', E')) <= failed
  <2>1. Units(requests', K') \subseteq Units(requests, K) \cup {0}
    BY <1>2, <1>4, <1>6 DEF Units
  <2>2. Units(requests', K') \subseteq Units(requests, K)
    BY <1>2, <1>4, <1>6 DEF Units
  <2>3. Units(errors', E') \subseteq Units(errors, E) \cup {0}
    BY <1>2, <1>4 DEF Units
  <2>4. Units(errors', E') \subseteq Units(errors, E)
    BY <1>2, <1>4 DEF Units
  <2>5. /\ requests \in [K -> Nat] /\ IsFiniteSet(K)
        /\ errors \in [E -> Nat] /\ IsFiniteSet(E)
    BY FS_Subset DEF TrafficInv
  <2>6. /\ recorded \in Nat /\ Cardinality(Units(requests, K)) <= recorded
        /\ failed \in Nat /\ Cardinality(Units(errors, E)) <= failed
    BY DEF TrafficInv
  <2> HIDE DEF K, E
  <2>7. Cardinality(Units(requests', K')) <= recorded
    BY <2>1, <2>2, <2>5, <2>6, OneUnitMore
  <2>8. Cardinality(Units(errors', E')) <= failed
    BY <2>3, <2>4, <2>5, <2>6, OneUnitMore
  <2> QED
    BY <2>7, <2>8
<1>12. /\ requests' \in [K' -> Nat \ {0}] /\ lastSeen' \in [K' -> 1..tick]
       /\ errors' \in [E' -> Nat] /\ E' \subseteq K'
  <2> HIDE DEF K, E
  <2> QED
    BY <1>2, <1>3, <1>4, <1>6
<1>13. /\ \A g, h \in K' : lastSeen'[g] = lastSeen'[h] => g = h
       /\ \A h \in K' : lastSeen'[h] > gone'
       /\ \A h \in E' : errors'[h] <= requests'[h]
       /\ latest # Traffic!NoHost => latest \in K' /\ lastSeen'[latest] = tick
  <2> HIDE DEF K, E
  <2> QED
    BY <1>2, <1>3, <1>4, <1>6, <1>9, <1>10
<1>14. /\ maxHosts' \in Nat \ {0} /\ recorded' \in Nat /\ failed' \in Nat
       /\ tick' \in Nat /\ gone' \in 0..tick'
       /\ IsFiniteSet(K') /\ Cardinality(K') <= maxHosts'
  BY <1>1, <1>2, <1>4, <1>8, <1>9 DEF TrafficInv
<1> QED
  BY <1>2, <1>11, <1>12, <1>13, <1>14 DEF TrafficInv, Traffic!NoHost

LEMMA TrafficStep ==
  ASSUME TrafficInv, [Next]_vars
  PROVE  TrafficInv'
<1>1. CASE UNCHANGED traffic
  BY <1>1 DEF traffic, TrafficInv, Traffic!Known, Traffic!NoHost, Units
<1>2. CASE Traffic!Next
  BY <1>2, RecordStep, SetCapStep DEF Traffic!Next
<1> QED
  BY <1>1, <1>2 DEF Next, vars

(* The bar is full just for the busiest: m is the largest count, r one.    *)
LEMMA FullBar ==
  ASSUME NEW m \in Nat \ {0}, NEW r \in Nat, r <= m
  PROVE  Traffic!Min({100, (100 * r) \div m}) = 100 <=> r = m
<1> DEFINE q == (100 * r) \div m
<1>1. q \in Nat /\ q * m <= 100 * r /\ 100 * r < q * m + m
  OBVIOUS
<1> HIDE DEF q
<1>2. q >= 100 <=> r = m
  <2>1. ASSUME q >= 100 PROVE r = m
    <3>1. (q - 100) * m >= 0
      BY <1>1, <2>1
    <3>2. (q - 100) * m = q * m - 100 * m
      BY <1>1
    <3> QED
      BY <1>1, <3>1, <3>2
  <2>2. ASSUME r = m, q <= 99 PROVE FALSE
    <3>1. (99 - q) * m >= 0
      BY <1>1, <2>2
    <3>2. (99 - q) * m = 99 * m - q * m
      BY <1>1
    <3> QED
      BY <1>1, <2>2, <3>1, <3>2
  <2> QED
    BY <1>1, <2>1, <2>2
<1>3. Traffic!Min({100, q}) = IF q < 100 THEN q ELSE 100
  <2>1. PICK k \in {100, q} : k = IF q < 100 THEN q ELSE 100
    OBVIOUS
  <2>2. \A y \in {100, q} : k <= y
    BY <1>1, <2>1
  <2>3. \A x \in {100, q} : (\A y \in {100, q} : x <= y) => x = k
    BY <1>1, <2>1, <2>2
  <2> QED
    BY <2>1, <2>2, <2>3 DEF Traffic!Min
<1>4. Traffic!Min({100, q}) = 100 <=> r = m
  BY <1>1, <1>2, <1>3
<1> QED
  BY <1>4 DEF q

LEMMA BusiestBar ==
  ASSUME TrafficInv, NEW h \in Traffic!Known
  PROVE  (\A g \in Traffic!Known : requests[g] <= requests[h]) <=> Traffic!Bar(h) = 100
<1> DEFINE K == Traffic!Known
           Counts == {requests[g] : g \in K} \cup {1}
           m == Traffic!Max(Counts)
<1>1. \A g \in K : requests[g] \in Nat \ {0}
  BY DEF TrafficInv
<1>2. \A g \in K : requests[g] <= recorded
  <2> SUFFICES ASSUME NEW g \in K PROVE requests[g] <= recorded
    OBVIOUS
  <2>1. /\ IsFiniteSet(K) /\ requests \in [K -> Nat] /\ recorded \in Nat
        /\ Cardinality(Units(requests, K)) <= recorded
    BY DEF TrafficInv
  <2> HIDE DEF K
  <2>2. /\ IsFiniteSet(Units(requests, K \ {g}))
        /\ Cardinality(Units(requests, K \ {g})) \in Nat
    BY <2>1, UnitsAreFinite
  <2>3. Cardinality(Units(requests, K)) = requests[g] + Cardinality(Units(requests, K \ {g}))
    BY <2>1, <2>2, UnitsOfOneMore
  <2> QED
    BY <1>1, <2>1, <2>2, <2>3
<1>3. recorded \in Nat
  BY DEF TrafficInv
<1> HIDE DEF K
<1>4. Counts \in SUBSET (0..(recorded + 1)) /\ Counts # {}
  BY <1>1, <1>2, <1>3
<1>5. PICK x \in Counts : \A y \in Counts : y <= x
  <2> HIDE DEF Counts
  <2>1. recorded + 1 \in Nat
    BY <1>3
  <2> QED
    BY <1>4, <2>1, Greatest
<1>6. m \in Counts /\ \A y \in Counts : m >= y
  <2>1. \A y \in Counts : x >= y
    BY <1>3, <1>4, <1>5
  <2> HIDE DEF Counts
  <2> QED
    BY <2>1 DEF Traffic!Max
<1>7. Traffic!Bar(h) = Traffic!Min({100, (100 * requests[h]) \div m})
  BY DEF Traffic!Bar, K
<1> HIDE DEF m
<1>8. /\ m \in Nat \ {0} /\ requests[h] \in Nat /\ h \in K
      /\ \A g \in K : requests[g] <= m
      /\ m = 1 \/ \E g \in K : m = requests[g]
  BY <1>1, <1>3, <1>4, <1>6 DEF K
<1>9. Traffic!Bar(h) = 100 <=> requests[h] = m
  <2>1. PICK r : r = requests[h]
    OBVIOUS
  <2>2. r \in Nat /\ r <= m
    BY <1>8, <2>1
  <2>3. Traffic!Min({100, (100 * r) \div m}) = 100 <=> r = m
    BY <1>8, <2>2, FullBar
  <2> QED
    BY <1>7, <2>1, <2>3
<1>10. requests[h] = m <=> \A g \in K : requests[g] <= requests[h]
  BY <1>1, <1>8
<1> QED
  BY <1>9, <1>10 DEF K

(* The table of the home page is bounded by the cap, has the hosts seen    *)
(* latest and counts no more than the totals: Record, evictLRULocked and   *)
(* SetCap, for any number of hosts, caps and requests.                     *)
THEOREM TableStaysTheLatest == FairSpec => []TableIsTheLatest
<1>1. Init => TrafficInv
  <2> SUFFICES ASSUME Init PROVE TrafficInv
    OBVIOUS
  <2>1. /\ maxHosts \in Nat \ {0} /\ tick = 0 /\ recorded = 0 /\ failed = 0
        /\ gone = 0 /\ latest = Traffic!NoHost
        /\ requests = [h \in {} |-> 0] /\ errors = [h \in {} |-> 0]
        /\ lastSeen = [h \in {} |-> 0]
    BY PartsAssumption DEF Traffic!MetricsAssumption, Init, Traffic!Init, Traffic!Empty
  <2>2. Traffic!Known = {} /\ DOMAIN errors = {}
    BY <2>1 DEF Traffic!Known
  <2>3. Units(requests, {}) = {} /\ Units(errors, {}) = {}
    BY DEF Units
  <2> QED
    BY <2>1, <2>2, <2>3, FS_EmptySet DEF TrafficInv
<1>2. TrafficInv /\ [Next]_vars => TrafficInv'
  BY TrafficStep
<1>3. TrafficInv => TableIsTheLatest
  <2> SUFFICES ASSUME TrafficInv PROVE TableIsTheLatest
    OBVIOUS
  <2> DEFINE K == Traffic!Known
             E == DOMAIN errors
  <2>1. Traffic!Cardinality(K) <= maxHosts
    BY SameCount DEF TrafficInv
  <2>2. /\ IsFiniteSet(K) /\ requests \in [K -> Nat]
        /\ IsFiniteSet(E) /\ errors \in [E -> Nat]
    BY FS_Subset DEF TrafficInv
  <2>3. Traffic!MapThenSumSet(LAMBDA h : requests[h], K) <= recorded
    <3>1. Traffic!MapThenSumSet(LAMBDA h : requests[h], K)
            = Cardinality(Units(requests, K))
      BY <2>2, SumIsCount
    <3> QED
      BY <3>1 DEF TrafficInv
  <2>4. Traffic!MapThenSumSet(LAMBDA h : errors[h], E) <= failed
    <3>1. Traffic!MapThenSumSet(LAMBDA h : errors[h], E) = Cardinality(Units(errors, E))
      BY <2>2, SumIsCount
    <3> QED
      BY <3>1 DEF TrafficInv
  <2>5. \A h \in K : (\A g \in K : requests[g] <= requests[h]) <=> Traffic!Bar(h) = 100
    BY BusiestBar
  <2>6. /\ DOMAIN lastSeen = K /\ E \subseteq K
        /\ \A h \in K : lastSeen[h] > gone /\ Traffic!Get(errors, h) <= requests[h]
        /\ latest # Traffic!NoHost => latest \in K
    BY DEF TrafficInv, Traffic!Get
  <2> QED
    BY <2>1, <2>3, <2>4, <2>5, <2>6 DEF TableIsTheLatest, Traffic!TableIsTheLatest
<1> QED
  BY <1>1, <1>2, <1>3, PTL DEF FairSpec
-----------------------------------------------------------------------------
(* Figures.                                                                *)

(* What fmtUptime shows has been cut to the minute or the hour.            *)
ToMinute(n) == n - (n % 60)
ToHour(n) == n - (n % 3600)
ShowsMinutes(n) == n < 86400 \/ (n % 86400) \div 3600 = 0

LEMMA UptimeCuts ==
  ASSUME NEW c \in Nat
  PROVE  /\ c < 3600 => Home!Uptime(c) = c
         /\ c >= 3600 => Home!Uptime(c) = IF ShowsMinutes(c) THEN ToMinute(c) ELSE ToHour(c)
<1> DEFINE d == c \div 86400
           h == (c % 86400) \div 3600
           m == (c % 3600) \div 60
           s == c % 60
<1>1. /\ d \in Nat /\ h \in 0..23 /\ m \in 0..59 /\ s \in 0..59
      /\ c = 86400 * d + 3600 * h + 60 * m + s
      /\ c % 3600 = 60 * m + s
  OBVIOUS
<1>2. /\ Home!Amount(86400, c) = d /\ Home!Amount(3600, c) = h
      /\ Home!Amount(60, c) = m /\ Home!Amount(1, c) = s
  BY DEF Home!Amount, Home!Day, Home!Hour, Home!Minute
<1> HIDE DEF d, h, m, s
<1> DEFINE parts == Home!UptimeParts(c)
           pushed == {u \in parts : ~ \E a, b \in parts : a > b /\ b > u}
           worth(u) == IF u \in pushed THEN u * Home!Amount(u, c) ELSE 0
<1>3. Home!Uptime(c) = worth(86400) + worth(3600) + worth(60) + worth(1)
  BY DEF Home!Uptime, Home!Day, Home!Hour, Home!Minute
<1>4. /\ parts \subseteq {86400, 3600, 60, 1}
      /\ 86400 \in parts <=> d > 0
      /\ 3600 \in parts <=> h > 0
      /\ 60 \in parts <=> m > 0 \/ c >= 3600
      /\ 1 \in parts
  BY <1>2 DEF Home!UptimeParts, Home!Units, Home!Day, Home!Hour, Home!Minute
<1> HIDE DEF parts
<1>5. /\ worth(86400) = 86400 * d
      /\ worth(3600) = 3600 * h
      /\ worth(60) = IF d > 0 /\ h > 0 THEN 0 ELSE 60 * m
      /\ worth(1) = IF c >= 3600 THEN 0 ELSE s
  <2>1. 86400 \in pushed <=> d > 0
    BY <1>4
  <2>2. 3600 \in pushed <=> h > 0
    BY <1>4
  <2>3. 60 \in pushed <=> (m > 0 \/ c >= 3600) /\ ~(d > 0 /\ h > 0)
    BY <1>4
  <2>4. 1 \in pushed <=> ~(c >= 3600)
    <3>1. c >= 3600 <=> d > 0 \/ h > 0
      BY <1>1
    <3> QED
      BY <1>1, <1>4, <3>1
  <2> HIDE DEF pushed
  <2> QED
    BY <1>1, <1>2, <2>1, <2>2, <2>3, <2>4
<1> HIDE DEF worth
<1>6. /\ c < 3600 <=> d = 0 /\ h = 0
      /\ c < 86400 <=> d = 0
  BY <1>1
<1>7. ToMinute(c) = 86400 * d + 3600 * h + 60 * m /\ ToHour(c) = 86400 * d + 3600 * h
  BY <1>1 DEF s, ToMinute, ToHour
<1>8. ShowsMinutes(c) <=> d = 0 \/ h = 0
  BY <1>6 DEF ShowsMinutes, h
<1> QED
  BY <1>1, <1>3, <1>5, <1>6, <1>7, <1>8

LEMMA UptimeGrows ==
  ASSUME NEW c \in Nat, NEW e \in Nat, c <= e
  PROVE  Home!Uptime(c) <= Home!Uptime(e) /\ Home!Uptime(e) <= e
<1>1. ASSUME NEW n \in Nat
      PROVE  /\ ToMinute(n) \in Int /\ ToHour(n) \in Int
             /\ ToHour(n) <= ToMinute(n) /\ ToMinute(n) <= n
  BY DEF ToMinute, ToHour
<1>2. ToMinute(c) <= ToMinute(e) /\ ToHour(c) <= ToHour(e)
  BY DEF ToMinute, ToHour
<1>3. ASSUME ~ShowsMinutes(e), ShowsMinutes(c)
      PROVE  ToMinute(c) <= ToHour(e)
  <2>1. /\ ToHour(e) = 86400 * (e \div 86400) + 3600 * ((e % 86400) \div 3600)
        /\ ToMinute(c) <= c
    BY DEF ToMinute, ToHour
  <2>2. (e % 86400) \div 3600 >= 1 /\ e >= 86400
    BY <1>3 DEF ShowsMinutes
  <2>3. CASE c < 86400
    <3>1. e \div 86400 >= 1 /\ e \div 86400 \in Nat
      BY <2>2
    <3>2. /\ (e % 86400) \div 3600 \in Nat
          /\ ToMinute(c) \in Int /\ ToHour(e) \in Int
      BY <1>1
    <3> QED
      BY <2>1, <2>2, <2>3, <3>1, <3>2
  <2>4. CASE (c % 86400) \div 3600 = 0
    <3>1. c < 86400 * (c \div 86400) + 3600 /\ c \div 86400 <= e \div 86400
      BY <2>4
    <3>2. /\ c \div 86400 \in Nat /\ e \div 86400 \in Nat
          /\ (e % 86400) \div 3600 \in Nat /\ ToMinute(c) \in Int /\ ToHour(e) \in Int
      BY <1>1
    <3> QED
      BY <2>1, <2>2, <3>1, <3>2
  <2> QED
    BY <1>3, <2>3, <2>4 DEF ShowsMinutes
<1>4. CASE c < 3600 /\ e >= 3600
  <2>1. c <= ToHour(e)
    BY <1>4 DEF ToHour
  <2> QED
    BY <1>1, <1>4, <2>1, UptimeCuts
<1>5. CASE e < 3600
  BY <1>5, UptimeCuts
<1>6. CASE c >= 3600
  <2>1. e >= 3600
    BY <1>6
  <2> QED
    BY <1>1, <1>2, <1>3, <1>6, <2>1, UptimeCuts
<1> QED
  BY <1>4, <1>5, <1>6

LEMMA Rounding ==
  ASSUME NEW n \in Nat, NEW d \in Nat \ {0}
  PROVE  LET q == Home!Rounded(n, d)
         IN q \in Nat /\ q * (2 * d) <= 2 * n + d /\ 2 * n + d < q * (2 * d) + 2 * d
<1> DEFINE x == 2 * n + d
           y == 2 * d
           q == x \div y
<1>1. x \in Nat /\ y \in Nat \ {0}
  OBVIOUS
<1> HIDE DEF x, y
<1>2. q \in Nat /\ y * q <= x /\ x < y * q + y
  BY <1>1
<1>3. Home!Rounded(n, d) = q
  BY DEF Home!Rounded, x, y
<1> HIDE DEF q
<1>4. y * q = q * y
  BY <1>1, <1>2
<1>5. q \in Nat /\ q * y <= x /\ x < q * y + y
  BY <1>2, <1>4
<1> QED
  BY <1>3, <1>5 DEF x, y

(* A quotient that is no smaller is rounded to one that is no smaller.     *)
LEMMA RoundingGrows ==
  ASSUME NEW n \in Nat, NEW d \in Nat \ {0}, NEW m \in Nat, NEW e \in Nat \ {0},
         n * e <= m * d
  PROVE  Home!Rounded(n, d) <= Home!Rounded(m, e)
<1> DEFINE q == Home!Rounded(n, d)
           r == Home!Rounded(m, e)
<1>1. /\ q \in Nat /\ q * (2 * d) <= 2 * n + d
      /\ r \in Nat /\ 2 * m + e < r * (2 * e) + 2 * e
  BY Rounding
<1> HIDE DEF q, r
<1> SUFFICES ASSUME q - r - 1 \in Nat PROVE FALSE
  BY <1>1 DEF q, r
<1>2. (q * (2 * d)) * e <= (2 * n + d) * e
  <2> DEFINE a == q * (2 * d)
             b == 2 * n + d
  <2>1. a \in Nat /\ b \in Nat /\ a <= b
    BY <1>1
  <2> HIDE DEF a, b
  <2>2. (b - a) * e >= 0 /\ (b - a) * e = b * e - a * e
    BY <2>1
  <2>3. a * e \in Nat /\ b * e \in Nat
    BY <2>1
  <2>4. a * e <= b * e
    BY <2>2, <2>3
  <2> QED
    BY <2>4 DEF a, b
<1>3. (2 * m + e) * d < (r * (2 * e) + 2 * e) * d
  <2> DEFINE a == 2 * m + e
             b == r * (2 * e) + 2 * e
  <2>1. a \in Nat /\ b \in Nat /\ a < b
    BY <1>1
  <2> HIDE DEF a, b
  <2>2. (b - a - 1) * d >= 0 /\ (b - a - 1) * d = b * d - a * d - d
    BY <2>1
  <2>3. a * d \in Nat /\ b * d \in Nat
    BY <2>1
  <2>4. a * d < b * d
    BY <2>2, <2>3
  <2> QED
    BY <2>4 DEF a, b
<1> DEFINE z == d * e
           qz == q * z
           rz == r * z
           ne == n * e
           md == m * d
<1>4. /\ z \in Nat \ {0} /\ qz \in Nat /\ rz \in Nat /\ ne \in Nat /\ md \in Nat
      /\ (q * (2 * d)) * e = 2 * qz
      /\ (2 * n + d) * e = 2 * ne + z
      /\ (2 * m + e) * d = 2 * md + z
      /\ (r * (2 * e) + 2 * e) * d = 2 * rz + 2 * z
      /\ (q - r - 1) * z >= 0 /\ (q - r - 1) * z = qz - rz - z
      /\ ne <= md
  BY <1>1
<1> HIDE DEF z, qz, rz, ne, md
<1> QED
  BY <1>2, <1>3, <1>4

LEMMA Multiplied ==
  ASSUME NEW q \in Nat, NEW r \in Nat, NEW u \in Nat, q <= r
  PROVE  q * u <= r * u
<1>1. (r - q) * u >= 0 /\ (r - q) * u = r * u - q * u
  OBVIOUS
<1>2. q * u \in Nat /\ r * u \in Nat
  OBVIOUS
<1> QED
  BY <1>1, <1>2

(* A counter rounded to t parts of a unit.                                 *)
InParts(x, t, u) == Home!Rounded(x * t, u) * u

LEMMA PartsGrow ==
  ASSUME NEW v \in Nat, NEW w \in Nat, NEW u \in Nat \ {0}, NEW t \in Nat, v <= w
  PROVE  /\ InParts(v, t, u) \in Nat /\ InParts(w, t, u) \in Nat
         /\ InParts(v, t, u) <= InParts(w, t, u)
<1>1. /\ v * t \in Nat /\ w * t \in Nat
      /\ Home!Rounded(v * t, u) \in Nat /\ Home!Rounded(w * t, u) \in Nat
  <2>1. v * t \in Nat /\ w * t \in Nat
    OBVIOUS
  <2> QED
    BY <2>1, Rounding
<1>2. Home!Rounded(v * t, u) <= Home!Rounded(w * t, u)
  <2>1. v * t <= w * t
    BY Multiplied
  <2>2. (v * t) * u <= (w * t) * u
    BY <1>1, <2>1, Multiplied
  <2> QED
    BY <1>1, <2>2, RoundingGrows
<1> QED
  BY <1>1, <1>2, Multiplied DEF InParts

(* A unit shows at least what it stands for, and at most what the next one *)
(* begins with.                                                            *)
LEMMA PartsWithin ==
  ASSUME NEW v \in Nat, NEW u \in Nat \ {0}, NEW t \in Nat, NEW n \in Nat,
         NEW m \in Nat, m = n * t
  PROVE  /\ n * u <= v => m * u <= InParts(v, t, u)
         /\ v <= n * u => InParts(v, t, u) <= m * u
<1>1. /\ n * t \in Nat /\ n * u \in Nat /\ Home!Rounded(n * t, 1) = n * t
      /\ v * t \in Nat
  BY DEF Home!Rounded
<1>2. Home!Rounded(v * t, u) \in Nat
  <2>1. v * t \in Nat
    OBVIOUS
  <2> QED
    BY <2>1, Rounding
<1>3. (n * u) * t = (n * t) * u
  OBVIOUS
<1>4. ASSUME n * u <= v PROVE (n * t) * u <= InParts(v, t, u)
  <2>1. (n * t) * u <= (v * t) * 1
    BY <1>1, <1>3, <1>4, Multiplied
  <2>2. n * t <= Home!Rounded(v * t, u)
    BY <1>1, <2>1, RoundingGrows
  <2> QED
    BY <1>1, <1>2, <2>2, Multiplied DEF InParts
<1>5. ASSUME v <= n * u PROVE InParts(v, t, u) <= (n * t) * u
  <2>1. (v * t) * 1 <= (n * t) * u
    BY <1>1, <1>3, <1>5, Multiplied
  <2>2. Home!Rounded(v * t, u) <= n * t
    BY <1>1, <2>1, RoundingGrows
  <2> QED
    BY <1>1, <1>2, <2>2, Multiplied DEF InParts
<1> QED
  BY <1>4, <1>5

LEMMA ThreeDigitsGrow ==
  ASSUME NEW v \in Nat, NEW w \in Nat, NEW u \in Nat \ {0}, u <= v, v <= w
  PROVE  /\ Home!ThreeDigits(v, u) \in Nat /\ Home!ThreeDigits(w, u) \in Nat
         /\ Home!ThreeDigits(v, u) <= Home!ThreeDigits(w, u)
         /\ 100 * u <= Home!ThreeDigits(v, u)
         /\ v < 1024 * u => Home!ThreeDigits(v, u) <= 102400 * u
<1>1. ASSUME NEW x \in Nat
      PROVE  Home!ThreeDigits(x, u) =
               IF x >= 100 * u THEN InParts(x, 1, u) * 100
               ELSE IF x >= 10 * u THEN InParts(x, 10, u) * 10 ELSE InParts(x, 100, u) * 1
  <2>1. 100 \div 1 = 100 /\ 100 \div 10 = 10 /\ 100 \div 100 = 1
    OBVIOUS
  <2> QED
    BY <2>1 DEF Home!ThreeDigits, InParts
<1>2. ASSUME NEW x \in Nat
      PROVE  /\ 100 * u <= x => 100 * u <= InParts(x, 1, u)
             /\ x <= 1024 * u => InParts(x, 1, u) <= 1024 * u
             /\ 10 * u <= x => 100 * u <= InParts(x, 10, u)
             /\ x <= 100 * u => InParts(x, 10, u) <= 1000 * u
             /\ 1 * u <= x => 100 * u <= InParts(x, 100, u)
             /\ x <= 10 * u => InParts(x, 100, u) <= 1000 * u
  <2>1. 100 = 100 * 1 /\ 1024 = 1024 * 1 /\ 100 = 10 * 10 /\ 1000 = 100 * 10
        /\ 100 = 1 * 100 /\ 1000 = 10 * 100
    OBVIOUS
  <2>2. 100 * u <= x => 100 * u <= InParts(x, 1, u)
    BY <2>1, PartsWithin
  <2>3. x <= 1024 * u => InParts(x, 1, u) <= 1024 * u
    BY <2>1, PartsWithin
  <2>4. 10 * u <= x => 100 * u <= InParts(x, 10, u)
    BY <2>1, PartsWithin
  <2>5. x <= 100 * u => InParts(x, 10, u) <= 1000 * u
    BY <2>1, PartsWithin
  <2>6. 1 * u <= x => 100 * u <= InParts(x, 100, u)
    BY <2>1, PartsWithin
  <2>7. x <= 10 * u => InParts(x, 100, u) <= 1000 * u
    <3>1. \A n, t, m \in Nat : m = n * t /\ x <= n * u => InParts(x, t, u) <= m * u
      BY PartsWithin
    <3>2. PICK n \in Nat : n = 10
      OBVIOUS
    <3>3. PICK t \in Nat : t = 100
      OBVIOUS
    <3>4. PICK m \in Nat : m = 1000
      OBVIOUS
    <3>5. m = n * t
      BY <3>2, <3>3, <3>4
    <3>6. x <= n * u => InParts(x, t, u) <= m * u
      BY <3>1, <3>5, Zenon
    <3> QED
      BY <3>2, <3>3, <3>4, <3>6
  <2> QED
    BY <2>2, <2>3, <2>4, <2>5, <2>6, <2>7
<1>3. /\ InParts(v, 1, u) \in Nat /\ InParts(w, 1, u) \in Nat
      /\ InParts(v, 1, u) <= InParts(w, 1, u)
  BY PartsGrow
<1>4. /\ InParts(v, 10, u) \in Nat /\ InParts(w, 10, u) \in Nat
      /\ InParts(v, 10, u) <= InParts(w, 10, u)
  BY PartsGrow
<1>5. /\ InParts(v, 100, u) \in Nat /\ InParts(w, 100, u) \in Nat
      /\ InParts(v, 100, u) <= InParts(w, 100, u)
  BY PartsGrow
<1> QED
  BY <1>1, <1>2, <1>3, <1>4, <1>5

LEMMA OneDigitGrows ==
  ASSUME NEW v \in Nat, NEW w \in Nat, NEW u \in Nat \ {0}, v <= w
  PROVE  /\ Home!OneDigit(v, u) \in Nat /\ Home!OneDigit(w, u) \in Nat
         /\ Home!OneDigit(v, u) <= Home!OneDigit(w, u)
         /\ u <= v => 100 * u <= Home!OneDigit(v, u)
<1>1. /\ Home!OneDigit(v, u) = InParts(v, 10, u) * 10
      /\ Home!OneDigit(w, u) = InParts(w, 10, u) * 10
  BY DEF Home!OneDigit, InParts
<1>2. 1 * u <= v => 10 * u <= InParts(v, 10, u)
  <2>1. 10 = 1 * 10
    OBVIOUS
  <2> QED
    BY <2>1, PartsWithin
<1>3. /\ InParts(v, 10, u) \in Nat /\ InParts(w, 10, u) \in Nat
      /\ InParts(v, 10, u) <= InParts(w, 10, u)
      /\ u <= v => 10 * u <= InParts(v, 10, u)
  BY <1>2, PartsGrow
<1> QED
  BY <1>1, <1>3

LEMMA Powers ==
  /\ \A e \in 0 .. 6 : Home!Power(e) \in Nat \ {0}
  /\ \A e \in 0 .. 5 : Home!Power(e + 1) = 1024 * Home!Power(e)
  /\ \A e, f \in 0 .. 6 : e <= f => Home!Power(e) <= Home!Power(f)
BY DEF Home!Power

(* The unit the loop of fmtBytes stops at.                                 *)
LEMMA Exponents ==
  ASSUME NEW k \in 0 .. 6, NEW v \in Nat
  PROVE  /\ Home!Exponent(v, k) \in 0 .. 6 - k
         /\ k + Home!Exponent(v, k) = 6 \/ v < Home!Power(Home!Exponent(v, k) + 1)
         /\ Home!Exponent(v, k) = 0 \/ Home!Power(Home!Exponent(v, k)) <= v
<1> DEFINE Stops(e) == /\ k + e = 6 \/ v < Home!Power(e + 1)
                       /\ e = 0 \/ Home!Power(e) <= v
           large == IF v < Home!Power(1) THEN 0 ELSE IF v < Home!Power(2) THEN 1
                    ELSE IF v < Home!Power(3) THEN 2 ELSE IF v < Home!Power(4) THEN 3
                    ELSE IF v < Home!Power(5) THEN 4 ELSE IF v < Home!Power(6) THEN 5 ELSE 6
<1>1. \E e \in 0 .. 6 - k : Stops(e)
  <2>1. large \in 0 .. 6 /\ (large = 0 \/ Home!Power(large) <= v)
        /\ (large = 6 \/ v < Home!Power(large + 1))
    BY DEF Home!Power
  <2> HIDE DEF large
  <2>2. CASE large <= 6 - k
    BY <2>1, <2>2
  <2>3. CASE large > 6 - k
    <3>1. 6 - k \in 0 .. 6 - k /\ k + (6 - k) = 6 /\ Home!Power(6 - k) <= Home!Power(large)
      BY <2>1, <2>3, Powers
    <3>2. Home!Power(6 - k) \in Nat /\ Home!Power(large) \in Nat /\ Home!Power(large) <= v
      BY <2>1, <2>3, Powers
    <3>3. Stops(6 - k)
      BY <3>1, <3>2
    <3> QED
      BY <3>1, <3>3
  <2> QED
    BY <2>1, <2>2, <2>3
<1>2. Home!Exponent(v, k) = CHOOSE e \in 0 .. 6 - k : Stops(e)
  BY DEF Home!Exponent, Home!EB
<1> HIDE DEF Stops
<1>3. Home!Exponent(v, k) \in 0 .. 6 - k /\ Stops(Home!Exponent(v, k))
  BY <1>1, <1>2
<1> QED
  BY <1>3 DEF Stops

LEMMA BytesGrow ==
  ASSUME NEW k \in 0 .. 6, NEW v \in Nat, NEW w \in Nat, v <= w
  PROVE  Home!Bytes(v, k) <= Home!Bytes(w, k)
<1> DEFINE e == Home!Exponent(v, k)
           f == Home!Exponent(w, k)
<1>1. /\ e \in 0 .. 6 - k /\ (k + e = 6 \/ v < Home!Power(e + 1)) /\ (e = 0 \/ Home!Power(e) <= v)
      /\ f \in 0 .. 6 - k /\ (k + f = 6 \/ w < Home!Power(f + 1)) /\ (f = 0 \/ Home!Power(f) <= w)
  BY Exponents
<1>2. /\ Home!Bytes(v, k) = IF k + e = 0 THEN 100 * v
                            ELSE IF k + e = 6 THEN Home!OneDigit(v, Home!Power(e))
                            ELSE Home!ThreeDigits(v, Home!Power(e))
      /\ Home!Bytes(w, k) = IF k + f = 0 THEN 100 * w
                            ELSE IF k + f = 6 THEN Home!OneDigit(w, Home!Power(f))
                            ELSE Home!ThreeDigits(w, Home!Power(f))
  <2>1. k + e \in 0 .. 6 /\ k + f \in 0 .. 6
    BY <1>1
  <2> HIDE DEF e, f
  <2> QED
    BY <2>1 DEF Home!Bytes, Home!EB, e, f
<1> HIDE DEF e, f
<1>3. e <= f
  <2> SUFFICES ASSUME f < e PROVE FALSE
    BY <1>1
  <2>1. k + f # 6 /\ e # 0 /\ f + 1 \in 0 .. 6 /\ e \in 0 .. 6 /\ f + 1 <= e
    BY <1>1
  <2>2. /\ Home!Power(f + 1) \in Nat /\ Home!Power(e) \in Nat
        /\ Home!Power(f + 1) <= Home!Power(e)
    BY <2>1, Powers
  <2> QED
    BY <1>1, <2>1, <2>2
<1>4. CASE e = f
  <2>1. CASE k + e = 0
    BY <1>2, <1>4, <2>1
  <2>2. CASE k + e = 6
    <3>1. Home!Power(e) \in Nat \ {0}
      BY <1>1, Powers
    <3> QED
      BY <1>2, <1>4, <2>2, <3>1, OneDigitGrows
  <2>3. CASE k + e # 0 /\ k + e # 6 /\ Home!Power(e) <= v
    <3>1. Home!Power(e) \in Nat \ {0}
      BY <1>1, Powers
    <3> QED
      BY <1>2, <1>4, <2>3, <3>1, ThreeDigitsGrow
  <2>4. CASE k + e # 0 /\ k + e # 6 /\ ~(Home!Power(e) <= v)
    <3>1. e = 0 /\ v = 0 /\ Home!Power(e) = 1
      BY <1>1, <2>4 DEF Home!Power
    <3>2. Home!ThreeDigits(v, 1) = 0
      BY <3>1 DEF Home!ThreeDigits, Home!Rounded
    <3>3. Home!ThreeDigits(w, 1) >= 0
      <4>1. CASE w = 0
        BY <4>1 DEF Home!ThreeDigits, Home!Rounded
      <4>2. CASE w >= 1
        <5>1. Home!ThreeDigits(w, 1) \in Nat
          BY <4>2, ThreeDigitsGrow
        <5> QED
          BY <5>1
      <4> QED
        BY <4>1, <4>2
    <3> QED
      BY <1>2, <1>4, <2>4, <3>1, <3>2, <3>3
  <2> QED
    BY <2>1, <2>2, <2>3, <2>4
<1>5. CASE e < f
  <2>1. /\ e \in 0 .. 5 /\ f \in 1 .. 6 /\ e + 1 <= f
        /\ k + e # 6 /\ k + f # 0 /\ v < Home!Power(e + 1) /\ Home!Power(f) <= w
    BY <1>1, <1>5
  <2>2. /\ Home!Power(e) \in Nat \ {0} /\ Home!Power(f) \in Nat \ {0}
        /\ 1024 * Home!Power(e) <= Home!Power(f)
        /\ v < 1024 * Home!Power(e)
    <3>1. e + 1 \in 0 .. 6 /\ f \in 0 .. 6 /\ e \in 0 .. 6
      BY <2>1
    <3> QED
      BY <2>1, <3>1, Powers
  <2>3. Home!Bytes(v, k) <= 102400 * Home!Power(e)
    <3>1. CASE k + e = 0
      <4>1. e = 0 /\ Home!Power(e) = 1
        BY <2>1, <3>1, <1>1 DEF Home!Power
      <4> QED
        BY <1>2, <2>2, <3>1, <4>1
    <3>2. CASE k + e # 0 /\ Home!Power(e) <= v
      BY <1>2, <2>1, <2>2, <3>2, ThreeDigitsGrow
    <3>3. CASE k + e # 0 /\ ~(Home!Power(e) <= v)
      <4>1. e = 0 /\ v = 0 /\ Home!Power(e) = 1
        BY <1>1, <3>3 DEF Home!Power
      <4>2. Home!ThreeDigits(v, 1) = 0
        BY <4>1 DEF Home!ThreeDigits, Home!Rounded
      <4> QED
        BY <1>2, <2>1, <3>3, <4>1, <4>2
    <3> QED
      BY <3>1, <3>2, <3>3
  <2>4. Home!Bytes(w, k) >= 100 * Home!Power(f) /\ Home!Bytes(w, k) \in Nat
    <3>1. CASE k + f = 6
      BY <1>2, <2>1, <2>2, <3>1, OneDigitGrows
    <3>2. CASE k + f # 6
      BY <1>2, <2>1, <2>2, <3>2, ThreeDigitsGrow
    <3> QED
      BY <3>1, <3>2
  <2>5. Home!Bytes(v, k) \in Nat
    <3>1. CASE k + e = 0
      BY <1>2, <3>1
    <3>2. CASE k + e # 0 /\ Home!Power(e) <= v
      BY <1>2, <2>1, <2>2, <3>2, ThreeDigitsGrow
    <3>3. CASE k + e # 0 /\ ~(Home!Power(e) <= v)
      <4>1. e = 0 /\ v = 0 /\ Home!Power(e) = 1
        BY <1>1, <3>3 DEF Home!Power
      <4> QED
        BY <1>2, <2>1, <3>3, <4>1 DEF Home!ThreeDigits, Home!Rounded
    <3> QED
      BY <3>1, <3>2, <3>3
  <2> QED
    BY <2>2, <2>3, <2>4, <2>5
<1> QED
  BY <1>1, <1>3, <1>4, <1>5

LEMMA LatencyGrows ==
  ASSUME NEW v \in Nat, NEW w \in Nat, v <= w
  PROVE  Home!Latency(v) <= Home!Latency(w)
BY DEF Home!Latency, Home!Rounded

LEMMA PercentagesGrow ==
  ASSUME NEW c \in Nat, NEW e \in Nat, NEW of0 \in Nat, c <= e
  PROVE  /\ Home!Download(c, of0) <= Home!Download(e, of0) /\ Home!Download(e, of0) <= 100
         /\ Home!Quota(c, of0) <= Home!Quota(e, of0)
         /\ Home!Success(c, of0) <= Home!Success(e, of0) /\ Home!Success(e, of0) <= 100
<1>1. ASSUME NEW n \in Nat, NEW d \in Nat \ {0}, n <= d
      PROVE  Home!Rounded(100 * n, d) <= 100
  <2>1. Home!Rounded(100 * n, d) <= Home!Rounded(100, 1)
    <3>1. (100 * n) * 1 <= 100 * d /\ 100 * n \in Nat
      BY <1>1
    <3> QED
      BY <3>1, RoundingGrows
  <2> QED
    BY <2>1 DEF Home!Rounded
<1>2. ASSUME NEW n \in Nat, NEW m \in Nat, NEW d \in Nat \ {0}, n <= m
      PROVE  Home!Rounded(100 * n, d) <= Home!Rounded(100 * m, d)
  <2>1. (100 * n) * d <= (100 * m) * d
    <3>1. (m - n) * d >= 0 /\ (m - n) * d = m * d - n * d
      BY <1>2
    <3>2. (100 * n) * d = 100 * (n * d) /\ (100 * m) * d = 100 * (m * d)
      OBVIOUS
    <3>3. n * d \in Nat /\ m * d \in Nat
      OBVIOUS
    <3> QED
      BY <3>1, <3>2, <3>3
  <2>2. 100 * n \in Nat /\ 100 * m \in Nat
    OBVIOUS
  <2> QED
    BY <2>1, <2>2, RoundingGrows
<1>3. Home!Download(c, of0) <= Home!Download(e, of0) /\ Home!Download(e, of0) <= 100
  <2>1. CASE of0 = 0
    BY <2>1 DEF Home!Download
  <2>2. CASE of0 # 0
    <3> DEFINE capped(n) == IF n < of0 THEN n ELSE of0
    <3>1. /\ capped(c) \in Nat /\ capped(e) \in Nat /\ capped(c) <= capped(e) /\ capped(e) <= of0
          /\ of0 \in Nat \ {0}
      BY <2>2
    <3>2. /\ Home!Download(c, of0) = Home!Rounded(100 * capped(c), of0)
          /\ Home!Download(e, of0) = Home!Rounded(100 * capped(e), of0)
      BY <2>2 DEF Home!Download
    <3> HIDE DEF capped
    <3> QED
      BY <1>1, <1>2, <3>1, <3>2
  <2> QED
    BY <2>1, <2>2
<1>4. Home!Quota(c, of0) <= Home!Quota(e, of0)
  <2>1. CASE of0 = 0
    BY <2>1 DEF Home!Quota
  <2>2. CASE of0 # 0
    BY <1>2, <2>2 DEF Home!Quota
  <2> QED
    BY <2>1, <2>2
<1>5. Home!Success(c, of0) <= Home!Success(e, of0) /\ Home!Success(e, of0) <= 100
  <2>1. CASE e + of0 = 0
    <3>1. c + of0 = 0
      BY <2>1
    <3> QED
      BY <2>1, <3>1 DEF Home!Success
  <2>2. CASE e + of0 # 0 /\ c + of0 # 0
    <3>1. /\ c + of0 \in Nat \ {0} /\ e + of0 \in Nat \ {0}
          /\ 100 * c \in Nat /\ 100 * e \in Nat
      BY <2>2
    <3>2. (100 * c) * (e + of0) <= (100 * e) * (c + of0)
      <4>1. (e - c) * of0 >= 0 /\ (e - c) * of0 = e * of0 - c * of0
        OBVIOUS
      <4>2. /\ (100 * c) * (e + of0) = 100 * (c * e) + 100 * (c * of0)
            /\ (100 * e) * (c + of0) = 100 * (c * e) + 100 * (e * of0)
        OBVIOUS
      <4>3. c * e \in Nat /\ c * of0 \in Nat /\ e * of0 \in Nat
        OBVIOUS
      <4> QED
        BY <4>1, <4>2, <4>3
    <3>3. Home!Rounded(100 * c, c + of0) <= Home!Rounded(100 * e, e + of0)
      BY <3>1, <3>2, RoundingGrows
    <3>4. Home!Rounded(100 * e, e + of0) <= 100
      BY <1>1, <3>1
    <3> QED
      BY <2>2, <3>3, <3>4 DEF Home!Success
  <2>3. CASE e + of0 # 0 /\ c + of0 = 0
    <3>1. c = 0 /\ of0 = 0 /\ e \in Nat \ {0}
      BY <2>3
    <3>2. Home!Success(c, of0) = 100 /\ Home!Success(e, of0) = Home!Rounded(100 * e, e)
      BY <3>1 DEF Home!Success
    <3>3. Home!Rounded(100, 1) <= Home!Rounded(100 * e, e)
      BY <3>1, RoundingGrows
    <3>4. Home!Rounded(100, 1) = 100
      BY DEF Home!Rounded
    <3> QED
      BY <1>1, <3>1, <3>2, <3>3, <3>4
  <2> QED
    BY <2>1, <2>2, <2>3
<1> QED
  BY <1>3, <1>4, <1>5

FiguresInv ==
  /\ figure \in {"uptime", "bytes", "latency", "download", "quota", "success"}
  /\ count \in Nat /\ of \in Nat
  /\ figure = "bytes" => of \in 0 .. 6

LEMMA FiguresStart == Init => FiguresInv
<1> SUFFICES ASSUME Init PROVE FiguresInv
  OBVIOUS
<1>1. CASE part # "home"
  BY <1>1 DEF Init, FiguresInv
<1>2. CASE part = "home"
  <2>1. Home!Init
    BY <1>2 DEF Init
  <2>2. CASE figure \in Home!Sizes /\ of \in (IF figure = "bytes" THEN 0 .. 5 ELSE {0})
    <3>1. PICK b \in Home!Changes[figure] : count \in (b - Near)..(b + Near) /\ count >= 0
      BY <2>1, <2>2 DEF Home!Init, Home!Percentages, Home!Sizes
    <3>2. count \in Nat
      BY <3>1
    <3> QED
      BY <2>2, <3>2 DEF FiguresInv, Home!Sizes
  <2>3. CASE figure \in Home!Percentages /\ of \in {0, 1, 3, 40} /\ count = 0
    BY <2>3 DEF FiguresInv, Home!Percentages
  <2> QED
    BY <2>1, <2>2, <2>3 DEF Home!Init, Home!EB
<1> QED
  BY <1>1, <1>2

LEMMA FiguresStep ==
  ASSUME FiguresInv, [Next]_vars
  PROVE  /\ FiguresInv'
         /\ figure' = figure /\ of' = of /\ count \in Nat /\ count' \in Nat /\ count <= count'
<1>1. CASE UNCHANGED home
  BY <1>1 DEF home, FiguresInv
<1>2. CASE Home!Next
  <2>1. Near \in Nat
    BY PartsAssumption DEF Home!FiguresAssumption
  <2>2. PICK n \in {1, 7, Near} : count' = count + n
    BY <1>2 DEF Home!Next, Home!Grow
  <2>3. figure' = figure /\ of' = of
    BY <1>2 DEF Home!Next, Home!Grow
  <2>4. count' \in Nat /\ count <= count'
    BY <2>1, <2>2 DEF FiguresInv
  <2> QED
    BY <2>3, <2>4 DEF FiguresInv
<1> QED
  BY <1>1, <1>2 DEF Next, vars

(* No figure of the home page goes back while its counter grows, and none  *)
(* runs ahead of it: fmtUptime, fmtBytes, fmtLatency and the percentages,  *)
(* for every value of the counters.                                        *)
THEOREM FiguresNeverGoBack == FairSpec => NoFigureGoesBack
<1> DEFINE Onward == /\ Home!Shown(count) <= Home!Shown(count')
                     /\ figure = "uptime" => Home!Shown(count') <= count'
                     /\ figure \in {"download", "success"} => Home!Shown(count') <= 100
<1>1. FiguresInv /\ [Next]_vars => FiguresInv' /\ Onward
  <2> SUFFICES ASSUME FiguresInv, [Next]_vars PROVE FiguresInv' /\ Onward
    OBVIOUS
  <2>1. /\ FiguresInv'
        /\ figure' = figure /\ of' = of /\ count \in Nat /\ count' \in Nat /\ count <= count'
    BY FiguresStep
  <2>2. of \in Nat
    BY DEF FiguresInv
  <2>3. CASE figure = "uptime"
    BY <2>1, <2>3, UptimeGrows DEF Home!Shown
  <2>4. CASE figure = "bytes"
    <3>1. of \in 0 .. 6
      BY <2>4 DEF FiguresInv
    <3> QED
      BY <2>1, <2>4, <3>1, BytesGrow DEF Home!Shown
  <2>5. CASE figure = "latency"
    BY <2>1, <2>5, LatencyGrows DEF Home!Shown
  <2>6. CASE figure = "download"
    BY <2>1, <2>2, <2>6, PercentagesGrow DEF Home!Shown
  <2>7. CASE figure = "quota"
    BY <2>1, <2>2, <2>7, PercentagesGrow DEF Home!Shown
  <2>8. CASE figure = "success"
    BY <2>1, <2>2, <2>8, PercentagesGrow DEF Home!Shown
  <2> HIDE DEF Onward
  <2> QED
    BY <2>1, <2>3, <2>4, <2>5, <2>6, <2>7, <2>8 DEF FiguresInv
<1> QED
  BY <1>1, FiguresStart, PTL DEF FairSpec, NoFigureGoesBack, Home!NoFigureGoesBack, home
=============================================================================
