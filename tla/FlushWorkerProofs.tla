------------------------- MODULE FlushWorkerProofs -------------------------
(***************************************************************************)
(* The safety properties of FlushWorker for every set of callers, whatever *)
(* they weigh, and every budget, headroom and number of writer slots: the  *)
(* books of the weight and of the slots balance.                           *)
(***************************************************************************)
EXTENDS FlushWorker, FiniteSetTheorems, SequenceTheorems, WellFoundedInduction, TLAPS

Phases == {"idle", "parked", "aborted", "held", "queued", "preparing", "ready", "running"}
InPhase(ph, P) == {c \in Callers : ph[c] \in P}
Waits == {"parked", "aborted"}

\* A line holds each of a set of callers, once.
LineOf(line, S) ==
  /\ line \in Seq(Callers)
  /\ \A i, j \in 1..Len(line) : line[i] = line[j] => i = j
  /\ \A i \in 1..Len(line) : line[i] \in S
  /\ \A c \in S : \E i \in 1..Len(line) : line[i] = c

-----------------------------------------------------------------------------
(* Lines                                                                    *)

LEMMA LineGrows ==
  ASSUME NEW line, NEW S, LineOf(line, S), NEW c \in Callers, c \notin S
  PROVE  LineOf(Append(line, c), S \cup {c})
<1> DEFINE new == Append(line, c)
<1>1. line \in Seq(Callers) /\ Len(line) \in Nat
  BY LenProperties DEF LineOf
<1>2. new \in Seq(Callers) /\ Len(new) = Len(line) + 1
  BY <1>1, AppendProperties
<1>3. \A i \in 1..Len(line) : new[i] = line[i]
  BY <1>1, AppendProperties
<1>4. new[Len(line) + 1] = c
  BY <1>1, AppendProperties
<1> HIDE DEF new
<1>5. \A i \in 1..Len(new) : i \in 1..Len(line) \/ i = Len(line) + 1
  BY <1>1, <1>2
<1>6. Len(line) + 1 \in 1..Len(new) /\ \A i \in 1..Len(line) : i \in 1..Len(new)
  BY <1>1, <1>2
<1> QED
  BY <1>2, <1>3, <1>4, <1>5, <1>6 DEF LineOf

LEMMA LineRests ==
  ASSUME NEW line, NEW S, LineOf(line, S), NEW n \in 0..Len(line)
  PROVE  /\ LineOf(SubSeq(line, n + 1, Len(line)), S \ {line[i] : i \in 1..n})
         /\ Len(SubSeq(line, n + 1, Len(line))) = Len(line) - n
         /\ n < Len(line) => SubSeq(line, n + 1, Len(line))[1] = line[n + 1]
<1> DEFINE new == SubSeq(line, n + 1, Len(line))
<1>1. line \in Seq(Callers) /\ Len(line) \in Nat /\ \A i \in 1..Len(line) : line[i] \in Callers
  BY LenProperties, ElementOfSeq DEF LineOf
<1>2. /\ new \in Seq(Callers)
      /\ Len(new) = IF n + 1 <= Len(line) THEN Len(line) - (n + 1) + 1 ELSE 0
      /\ \A i \in 1..Len(line) - (n + 1) + 1 : new[i] = line[(n + 1) + i - 1]
  <2>1. \A i \in n + 1..Len(line) : line[i] \in Callers
    BY <1>1
  <2>2. n + 1 \in Int /\ Len(line) \in Int
    BY <1>1
  <2> QED
    BY <2>1, <2>2, SubSeqProperties
<1>3. Len(new) = Len(line) - n /\ Len(line) - (n + 1) + 1 = Len(line) - n
  BY <1>1, <1>2
<1> HIDE DEF new
<1>4. ASSUME NEW i \in 1..Len(new) PROVE new[i] = line[n + i] /\ n + i \in 1..Len(line)
  <2>1. i \in 1..Len(line) - (n + 1) + 1 /\ (n + 1) + i - 1 = n + i
    BY <1>1, <1>3
  <2> QED
    BY <1>1, <1>2, <1>3, <2>1
<1>5. \A j \in 1..Len(line) : j \in 1..n \/ (j - n \in 1..Len(new) /\ n + (j - n) = j)
  BY <1>1, <1>3
<1>6. \A i \in 1..Len(new) : new[i] \in S \ {line[k] : k \in 1..n}
  <2> TAKE i \in 1..Len(new)
  <2>1. new[i] = line[n + i] /\ n + i \in 1..Len(line)
    BY <1>4
  <2>2. \A k \in 1..n : k # n + i /\ k \in 1..Len(line)
    BY <1>1, <1>3
  <2> QED
    BY <2>1, <2>2 DEF LineOf
<1>7. \A c \in S \ {line[k] : k \in 1..n} : \E i \in 1..Len(new) : new[i] = c
  <2> TAKE c \in S \ {line[k] : k \in 1..n}
  <2>1. PICK j \in 1..Len(line) : line[j] = c
    BY DEF LineOf
  <2>2. j - n \in 1..Len(new) /\ n + (j - n) = j
    BY <1>5, <2>1
  <2> QED
    BY <1>4, <2>1, <2>2
<1>8. \A i, j \in 1..Len(new) : new[i] = new[j] => i = j
  <2> TAKE i, j \in 1..Len(new)
  <2>1. new[i] = line[n + i] /\ n + i \in 1..Len(line) /\ new[j] = line[n + j] /\ n + j \in 1..Len(line)
    BY <1>4
  <2>2. n + i = n + j => i = j
    BY <1>1
  <2> QED
    BY <2>1, <2>2 DEF LineOf
<1>9. n < Len(line) => new[1] = line[n + 1]
  BY <1>1, <1>3, <1>4
<1> QED
  BY <1>2, <1>3, <1>6, <1>7, <1>8, <1>9 DEF LineOf, new

LEMMA LineTails ==
  ASSUME NEW line, NEW S, LineOf(line, S), line # <<>>
  PROVE  Head(line) \in S /\ LineOf(Tail(line), S \ {Head(line)})
<1>1. line \in Seq(Callers) /\ Len(line) \in Nat \ {0} /\ Head(line) = line[1]
  BY LenProperties, EmptySeq, HeadTailProperties DEF LineOf
<1>2. Tail(line) = SubSeq(line, 2, Len(line))
  BY <1>1, TailIsSubSeq
<1>3. 1 \in 0..Len(line) /\ {line[i] : i \in 1..1} = {line[1]} /\ 1 \in 1..Len(line)
  BY <1>1
<1>4. LineOf(SubSeq(line, 1 + 1, Len(line)), S \ {line[i] : i \in 1..1})
  BY <1>3, LineRests
<1> QED
  BY <1>1, <1>2, <1>3, <1>4 DEF LineOf

-----------------------------------------------------------------------------
(* Weights                                                                  *)

Units(S) == UNION {{c} \X (1..Clamped(c)) : c \in S}

LEMMA WeightOfCallers ==
  /\ \A c \in Callers : Clamped(c) \in 1..Budget /\ WeightOf({c}) = Clamped(c)
  /\ WeightOf({}) = 0
  /\ \A S \in SUBSET Callers : IsFiniteSet(Units(S)) /\ WeightOf(S) \in Nat
<1>1. \A c \in Callers : Clamped(c) \in 1..Budget
  BY FlushWorkerAssumption DEF Clamped
<1>2. ASSUME NEW S \in SUBSET Callers PROVE IsFiniteSet(Units(S)) /\ WeightOf(S) \in Nat
  <2>1. IsFiniteSet(Callers \X (1..Budget))
    <3>1. 1 \in Int /\ Budget \in Int /\ IsFiniteSet(Callers)
      BY FlushWorkerAssumption
    <3>2. IsFiniteSet(1..Budget)
      BY <3>1, FS_Interval
    <3> QED
      BY <3>1, <3>2, FS_Product
  <2>2. Units(S) \subseteq Callers \X (1..Budget)
    <3>1. ASSUME NEW c \in S PROVE {c} \X (1..Clamped(c)) \subseteq Callers \X (1..Budget)
      <4>1. c \in Callers /\ 1..Clamped(c) \subseteq 1..Budget
        BY <1>1, FlushWorkerAssumption
      <4> HIDE DEF Clamped
      <4> QED
        BY <4>1
    <3> QED
      BY <3>1, Zenon DEF Units
  <2>3. IsFiniteSet(Units(S))
    BY <2>1, <2>2, FS_Subset
  <2> QED
    BY <2>3, FS_CardinalityType DEF WeightOf, Units
<1>3. ASSUME NEW c \in Callers PROVE WeightOf({c}) = Clamped(c)
  <2>1. Clamped(c) \in Nat \ {0}
    BY <1>1, FlushWorkerAssumption
  <2>2. UNION {{d} \X (1..Clamped(d)) : d \in {c}} = {c} \X (1..Clamped(c))
    OBVIOUS
  <2>3. /\ IsFiniteSet({c}) /\ Cardinality({c}) = 1
        /\ IsFiniteSet(1..Clamped(c)) /\ Cardinality(1..Clamped(c)) = Clamped(c)
    <3>1. IsFiniteSet({c}) /\ Cardinality({c}) = 1
      BY FS_Singleton
    <3>2. 1 \in Int /\ Clamped(c) \in Int /\ 1 <= Clamped(c)
      BY <2>1
    <3>3. IsFiniteSet(1..Clamped(c))
      BY <3>2, FS_Interval
    <3>4. Cardinality(1..Clamped(c)) = Clamped(c) - 1 + 1
      BY <3>2, FS_Interval, SMTT(30)
    <3> QED
      BY <3>1, <3>2, <3>3, <3>4
  <2>4. Cardinality({c} \X (1..Clamped(c))) = 1 * Clamped(c)
    <3>1. Cardinality({c} \X (1..Clamped(c))) = Cardinality({c}) * Cardinality(1..Clamped(c))
      BY <2>3, FS_Product, Zenon
    <3> QED
      BY <2>3, <3>1
  <2> QED
    BY <2>1, <2>2, <2>4 DEF WeightOf
<1>4. WeightOf({}) = 0
  BY FS_EmptySet DEF WeightOf
<1> QED
  BY <1>1, <1>2, <1>3, <1>4

LEMMA ClampedTyped == \A c \in Callers : Clamped(c) \in Nat \ {0}
BY FlushWorkerAssumption DEF Clamped

\* Apart from one another, sets of callers weigh what they weigh together.
LEMMA WeightAdds ==
  ASSUME NEW S \in SUBSET Callers, NEW T \in SUBSET Callers, S \cap T = {}
  PROVE  WeightOf(S \cup T) = WeightOf(S) + WeightOf(T)
<1>1. IsFiniteSet(Units(S)) /\ IsFiniteSet(Units(T))
  BY WeightOfCallers
<1>2. Units(S \cup T) = Units(S) \cup Units(T)
  BY DEF Units
<1>3. Units(S) \cap Units(T) = {}
  BY DEF Units
<1>4. Cardinality(Units(S) \cup Units(T)) = Cardinality(Units(S)) + Cardinality(Units(T)) - Cardinality({})
  BY <1>1, <1>3, FS_Union
<1>5. Cardinality(Units(S)) \in Nat /\ Cardinality(Units(T)) \in Nat /\ Cardinality({}) = 0
  BY <1>1, FS_CardinalityType, FS_EmptySet
<1>6. \A R : WeightOf(R) = Cardinality(Units(R))
  BY DEF WeightOf, Units
<1>7. WeightOf(S \cup T) = Cardinality(Units(S) \cup Units(T))
  BY <1>2, <1>6
<1> QED
  BY <1>4, <1>5, <1>6, <1>7

LEMMA LeastNumber ==
  ASSUME NEW T \in SUBSET Nat, T # {}
  PROVE  \E i \in T : \A j \in T : i <= j
<1>1. PICK i \in T : \A j \in T : <<j, i>> \notin OpToRel(<, Nat)
  BY NatLessThanWellFounded, WFMin, Zenon
<1>2. \A j \in T : ~(j < i)
  BY <1>1 DEF OpToRel
<1> QED
  BY <1>2

\* HeadsIn finds where the positions of S end.
LEMMA HeadsInRow ==
  ASSUME NEW b, b.parked \in Seq(Callers), NEW S, S \subseteq 1..Len(b.parked)
  PROVE  LET n == HeadsIn(b, S) IN n \in 0..Len(b.parked) /\ 1..n \subseteq S /\ n + 1 \notin S
<1>1. Len(b.parked) \in Nat
  BY LenProperties
<1> DEFINE T == {n \in Nat : n + 1 \notin S}
<1>2. Len(b.parked) \in T
  BY <1>1
<1>3. PICK n \in T : \A j \in T : n <= j
  <2>1. T \in SUBSET Nat /\ T # {}
    BY <1>2
  <2> QED
    BY <2>1, LeastNumber
<1>4. n \in 0..Len(b.parked)
  BY <1>1, <1>2, <1>3
<1>5. ASSUME NEW i \in 1..n PROVE i \in S
  <2>1. i - 1 \in Nat /\ i - 1 < n /\ (i - 1) + 1 = i
    BY <1>3
  <2>2. i - 1 \notin T
    BY <1>3, <2>1
  <2> QED
    BY <2>1, <2>2
<1>6. \E k \in 0..Len(b.parked) : 1..k \subseteq S /\ k + 1 \notin S
  BY <1>3, <1>4, <1>5
<1> QED
  BY <1>6 DEF HeadsIn

-----------------------------------------------------------------------------
(* Books                                                                    *)

\* Books that balance: whoever waits is in line, and what is held is counted.
BooksOK(b) ==
  /\ b.phase \in [Callers -> Phases]
  /\ LineOf(b.parked, InPhase(b.phase, Waits))
  /\ b.overtakes \in 0..MaxOvertakes
  /\ b.outstanding = WeightOf(Holders(b.phase))
  /\ b.outstanding <= Budget + Headroom

\* The head of the line of b is not a grant that was missed.
HeadStays(b) ==
  b.parked # <<>> =>
    IF b.phase[Head(b.parked)] = "aborted" THEN b.outstanding > Budget
    ELSE b.outstanding + Clamped(Head(b.parked)) > Budget

\* From b to t only callers that wait move, and no further than a grant.
OnlyWaitersMove(b, t) ==
  \A c \in Callers : /\ b.phase[c] \notin Waits => t.phase[c] = b.phase[c]
                     /\ b.phase[c] \in Waits => t.phase[c] \in Waits \cup {"idle", "held"}

\* Nobody is counted twice, so taking heads keeps the books, up to the bound.
LEMMA HeadsTaken ==
  ASSUME NEW b, NEW n \in 0..Len(b.parked),
         b.phase \in [Callers -> Phases], LineOf(b.parked, InPhase(b.phase, Waits)),
         b.overtakes \in 0..MaxOvertakes, b.outstanding = WeightOf(Holders(b.phase))
  PROVE  LET t == TakeHeads(b, n)
         IN  /\ t.phase \in [Callers -> Phases]
             /\ LineOf(t.parked, InPhase(t.phase, Waits))
             /\ t.overtakes \in 0..MaxOvertakes
             /\ t.outstanding = WeightOf(Holders(t.phase))
             /\ t.outstanding = b.outstanding + WeightOf(Granting(b, n))
             /\ OnlyWaitersMove(b, t)
             /\ t.parked # <<>> => /\ n + 1 \in 1..Len(b.parked)
                                   /\ Head(t.parked) = b.parked[n + 1]
                                   /\ t.phase[b.parked[n + 1]] = b.phase[b.parked[n + 1]]
<1> DEFINE t == TakeHeads(b, n)
<1>1. /\ t.phase = [c \in Callers |-> IF c \notin Heads(b, n) THEN b.phase[c]
                                      ELSE IF b.phase[c] = "aborted" THEN "idle" ELSE "held"]
      /\ t.parked = SubSeq(b.parked, n + 1, Len(b.parked))
      /\ t.overtakes = IF n = 0 THEN b.overtakes ELSE 0
      /\ t.outstanding = b.outstanding + WeightOf(Granting(b, n))
  BY DEF TakeHeads
<1> HIDE DEF t
<1>2. /\ Len(b.parked) \in Nat /\ n \in Nat /\ n <= Len(b.parked)
      /\ b.parked \in Seq(Callers)
      /\ \A i \in 1..Len(b.parked) : b.parked[i] \in Callers /\ b.phase[b.parked[i]] \in Waits
  BY LenProperties, ElementOfSeq DEF LineOf, InPhase
<1>3. \A c \in Heads(b, n) : c \in Callers /\ b.phase[c] \in Waits
  BY <1>2 DEF Heads
<1>4. t.phase \in [Callers -> Phases]
  BY <1>1 DEF Phases
<1>5. InPhase(t.phase, Waits) = InPhase(b.phase, Waits) \ Heads(b, n)
  BY <1>1 DEF InPhase, Waits
<1>6. /\ LineOf(t.parked, InPhase(t.phase, Waits))
      /\ Len(t.parked) = Len(b.parked) - n
      /\ n < Len(b.parked) => t.parked[1] = b.parked[n + 1]
  <2>1. Heads(b, n) = {b.parked[i] : i \in 1..n}
    BY DEF Heads
  <2> HIDE DEF Heads
  <2>2. /\ LineOf(t.parked, InPhase(b.phase, Waits) \ Heads(b, n))
        /\ Len(t.parked) = Len(b.parked) - n
        /\ n < Len(b.parked) => t.parked[1] = b.parked[n + 1]
    <3> DEFINE line == b.parked
               W == InPhase(b.phase, Waits)
               rest == t.parked
    <3>1. LineOf(line, W) /\ n \in 0..Len(line) /\ rest = SubSeq(line, n + 1, Len(line))
          /\ Heads(b, n) = {line[i] : i \in 1..n}
      BY <1>1, <2>1
    <3> HIDE DEF line, W, rest
    <3>2. /\ LineOf(rest, W \ {line[i] : i \in 1..n})
          /\ Len(rest) = Len(line) - n
          /\ n < Len(line) => rest[1] = line[n + 1]
      BY <3>1, LineRests
    <3> QED
      BY <3>1, <3>2 DEF line, W, rest
  <2> QED
    BY <1>5, <2>2
<1>7. t.overtakes \in 0..MaxOvertakes
  BY <1>1, FlushWorkerAssumption
<1>8. OnlyWaitersMove(b, t)
  BY <1>1, <1>3 DEF OnlyWaitersMove, Waits
<1>9. t.outstanding = WeightOf(Holders(t.phase))
  <2>1. Holders(t.phase) = Holders(b.phase) \cup Granting(b, n)
    <3>1. \A c \in Callers : c \in Heads(b, n) => b.phase[c] = "parked" \/ b.phase[c] = "aborted"
      BY <1>3 DEF Waits
    <3> QED
      BY <1>1, <1>3, <3>1 DEF Holders, InFlight, Granting
  <2>2. Holders(b.phase) \cap Granting(b, n) = {}
    BY DEF Holders, InFlight, Granting
  <2>3. Holders(b.phase) \in SUBSET Callers /\ Granting(b, n) \in SUBSET Callers
    BY <1>3 DEF Holders, InFlight, Granting
  <2> QED
    BY <1>1, <2>1, <2>2, <2>3, WeightAdds
<1>10. ASSUME t.parked # <<>>
       PROVE  /\ n + 1 \in 1..Len(b.parked)
              /\ Head(t.parked) = b.parked[n + 1]
              /\ t.phase[b.parked[n + 1]] = b.phase[b.parked[n + 1]]
  <2>1. Len(t.parked) > 0 /\ Head(t.parked) = t.parked[1]
    BY <1>6, <1>10, LenProperties, EmptySeq, HeadTailProperties DEF LineOf
  <2>2. n < Len(b.parked) /\ n + 1 \in 1..Len(b.parked)
    BY <1>2, <1>6, <2>1
  <2>3. b.parked[n + 1] \notin Heads(b, n)
    <3>1. \A i \in 1..n : i \in 1..Len(b.parked) /\ i # n + 1
      BY <1>2
    <3> QED
      BY <2>2, <3>1 DEF Heads, LineOf
  <2> QED
    BY <1>1, <1>2, <1>6, <2>1, <2>2, <2>3
<1> QED
  BY <1>1, <1>4, <1>6, <1>7, <1>8, <1>9, <1>10 DEF t

\* One head more is one caller's weight more, if it is still parked.
LEMMA GrantingGrows ==
  ASSUME NEW b, LineOf(b.parked, InPhase(b.phase, Waits)),
         NEW n \in Nat, n + 1 \in 1..Len(b.parked)
  PROVE  /\ Granting(b, n) \in SUBSET Callers /\ b.parked[n + 1] \in Callers
         /\ b.phase[b.parked[n + 1]] = "parked" =>
              WeightOf(Granting(b, n + 1)) = WeightOf(Granting(b, n)) + Clamped(b.parked[n + 1])
         /\ b.phase[b.parked[n + 1]] # "parked" => Granting(b, n + 1) = Granting(b, n)
<1> DEFINE h == b.parked[n + 1]
<1>1. /\ Len(b.parked) \in Nat
      /\ \A i \in 1..n : i \in 1..Len(b.parked) /\ i # n + 1
      /\ \A i \in 1..Len(b.parked) : b.parked[i] \in Callers
  BY LenProperties, ElementOfSeq DEF LineOf
<1>2. 1..n + 1 = 1..n \cup {n + 1}
  OBVIOUS
<1>3. Heads(b, n + 1) = Heads(b, n) \cup {h}
  BY <1>2 DEF Heads
<1>4. h \notin Heads(b, n)
  BY <1>1 DEF Heads, LineOf
<1>5. Granting(b, n) \in SUBSET Callers /\ h \in Callers
  BY <1>1 DEF Granting, Heads
<1>6. ASSUME b.phase[h] = "parked"
      PROVE  WeightOf(Granting(b, n + 1)) = WeightOf(Granting(b, n)) + Clamped(h)
  <2>1. Granting(b, n + 1) = Granting(b, n) \cup {h} /\ Granting(b, n) \cap {h} = {}
    BY <1>3, <1>4, <1>6 DEF Granting
  <2> HIDE DEF h
  <2>2. {h} \in SUBSET Callers /\ WeightOf({h}) = Clamped(h)
    BY <1>5, WeightOfCallers
  <2> QED
    BY <1>5, <2>1, <2>2, WeightAdds
<1>7. b.phase[h] # "parked" => Granting(b, n + 1) = Granting(b, n)
  BY <1>3 DEF Granting
<1> QED
  BY <1>5, <1>6, <1>7

\* grantWeight grants within the budget, and stops at a head that does not fit.
LEMMA WeightGranted ==
  ASSUME NEW b, BooksOK(b)
  PROVE  BooksOK(GrantWeight(b)) /\ HeadStays(GrantWeight(b)) /\ OnlyWaitersMove(b, GrantWeight(b))
<1> DEFINE Fit == {i \in DOMAIN b.parked : b.outstanding + WeightOf(Granting(b, i)) <= Budget}
           n == HeadsIn(b, Aborted(b) \cup Fit)
           t == TakeHeads(b, n)
<1>1. /\ b.parked \in Seq(Callers) /\ Len(b.parked) \in Nat /\ DOMAIN b.parked = 1..Len(b.parked)
      /\ \A i \in 1..Len(b.parked) : b.parked[i] \in Callers /\ b.phase[b.parked[i]] \in Waits
  BY LenProperties, ElementOfSeq DEF BooksOK, LineOf, InPhase
<1>2. n \in 0..Len(b.parked) /\ 1..n \subseteq Aborted(b) \cup Fit /\ n + 1 \notin Aborted(b) \cup Fit
  <2>1. Aborted(b) \cup Fit \subseteq 1..Len(b.parked)
    BY <1>1 DEF Aborted
  <2> HIDE DEF Fit
  <2> QED
    BY <1>1, <2>1, HeadsInRow
<1>3. GrantWeight(b) = t
  BY DEF GrantWeight
<1> HIDE DEF n, Fit, t
<1>4. /\ t.phase \in [Callers -> Phases]
      /\ LineOf(t.parked, InPhase(t.phase, Waits))
      /\ t.overtakes \in 0..MaxOvertakes
      /\ t.outstanding = WeightOf(Holders(t.phase))
      /\ t.outstanding = b.outstanding + WeightOf(Granting(b, n))
      /\ OnlyWaitersMove(b, t)
      /\ t.parked # <<>> => /\ n + 1 \in 1..Len(b.parked)
                            /\ Head(t.parked) = b.parked[n + 1]
                            /\ t.phase[b.parked[n + 1]] = b.phase[b.parked[n + 1]]
  BY <1>2, HeadsTaken DEF BooksOK, t
<1>5. b.outstanding \in Nat /\ WeightOf(Granting(b, n)) \in Nat
  <2>1. Holders(b.phase) \in SUBSET Callers
    BY DEF Holders, InFlight
  <2>2. Granting(b, n) \in SUBSET Callers
    BY <1>1, <1>2 DEF Granting, Heads
  <2> QED
    BY <2>1, <2>2, WeightOfCallers DEF BooksOK
<1>6. t.outstanding <= Budget + Headroom
  <2>1. CASE Granting(b, n) = {}
    BY <1>4, <1>5, <2>1, WeightOfCallers DEF BooksOK
  <2>2. CASE Granting(b, n) # {}
    <3> DEFINE T == {k \in Nat : n - k \in 1..n /\ b.phase[b.parked[n - k]] = "parked"}
    <3>1. PICK i \in 1..n : b.phase[b.parked[i]] = "parked"
      BY <2>2 DEF Granting, Heads
    <3>2. n - i \in T
      BY <1>2, <3>1
    <3>3. PICK k \in T : \A j \in T : k <= j
      BY <3>2, LeastNumber
    <3> DEFINE m == n - k
    <3>4. m \in 1..n /\ b.phase[b.parked[m]] = "parked"
      BY <3>3
    <3>5. ASSUME NEW j \in 1..n, b.phase[b.parked[j]] = "parked" PROVE j \in 1..m
      <4>1. n - j \in Nat /\ n - (n - j) = j
        BY <1>2
      <4>2. n - j \in T
        BY <3>5, <4>1
      <4>3. k <= n - j
        BY <3>3, <4>2
      <4> QED
        BY <1>2, <3>3, <4>3
    <3> HIDE DEF m, T
    <3>6. Granting(b, n) = Granting(b, m)
      <4>1. 1..m \subseteq 1..n
        BY <1>2, <3>4
      <4> QED
        BY <3>5, <4>1 DEF Granting, Heads
    <3>7. m \in Fit
      BY <1>2, <3>4 DEF Aborted
    <3>8. b.outstanding + WeightOf(Granting(b, n)) <= Budget
      BY <3>6, <3>7 DEF Fit
    <3> QED
      BY <1>4, <1>5, <3>8, FlushWorkerAssumption
  <2> QED
    BY <2>1, <2>2
<1>7. HeadStays(t)
  <2> SUFFICES ASSUME t.parked # <<>>
               PROVE  t.phase[Head(t.parked)] # "aborted" /\ t.outstanding + Clamped(Head(t.parked)) > Budget
    BY DEF HeadStays
  <2> DEFINE h == b.parked[n + 1]
  <2>1. /\ n + 1 \in 1..Len(b.parked) /\ Head(t.parked) = h /\ h \in Callers
        /\ t.phase[h] = b.phase[h]
    BY <1>1, <1>4
  <2>2. b.phase[h] = "parked"
    BY <1>1, <1>2, <2>1 DEF Aborted, Waits
  <2>3. ~(b.outstanding + WeightOf(Granting(b, n + 1)) <= Budget)
    BY <1>1, <1>2, <2>1 DEF Fit
  <2>4. WeightOf(Granting(b, n + 1)) = WeightOf(Granting(b, n)) + Clamped(h)
    BY <1>2, <2>1, <2>2, GrantingGrows DEF BooksOK
  <2> HIDE DEF h
  <2>5. Clamped(h) \in Nat /\ Budget \in Nat
    BY <2>1, WeightOfCallers, FlushWorkerAssumption
  <2>6. t.outstanding + Clamped(h) > Budget
    BY <1>4, <1>5, <2>3, <2>4, <2>5
  <2> QED
    BY <2>1, <2>2, <2>6
<1> QED
  BY <1>3, <1>4, <1>6, <1>7 DEF BooksOK

\* grantOvertakenHead leaves more than the budget outstanding, or the same head.
LEMMA OvertakenHeadGranted ==
  ASSUME NEW b, BooksOK(b), HeadStays(b)
  PROVE  /\ BooksOK(GrantOvertakenHead(b)) /\ HeadStays(GrantOvertakenHead(b))
         /\ OnlyWaitersMove(b, GrantOvertakenHead(b))
<1> DEFINE n == HeadsIn(b, Aborted(b))
           grants == /\ n < Len(b.parked)
                     /\ b.outstanding + Clamped(b.parked[n + 1]) <= Budget + Headroom
           m == IF grants THEN n + 1 ELSE n
           t == TakeHeads(b, m)
<1>1. /\ b.parked \in Seq(Callers) /\ Len(b.parked) \in Nat /\ DOMAIN b.parked = 1..Len(b.parked)
      /\ \A i \in 1..Len(b.parked) : b.parked[i] \in Callers /\ b.phase[b.parked[i]] \in Waits
  BY LenProperties, ElementOfSeq DEF BooksOK, LineOf, InPhase
<1>2. n \in 0..Len(b.parked) /\ 1..n \subseteq Aborted(b) /\ n + 1 \notin Aborted(b)
  <2>1. Aborted(b) \subseteq 1..Len(b.parked)
    BY <1>1 DEF Aborted
  <2> QED
    BY <1>1, <2>1, HeadsInRow
<1>3. GrantOvertakenHead(b) = t
  BY DEF GrantOvertakenHead
<1> HIDE DEF n, t
<1>4. m \in 0..Len(b.parked) /\ m \in Nat /\ n \in Nat /\ (grants => m = n + 1) /\ (~grants => m = n)
  BY <1>1, <1>2
<1>5. /\ t.phase \in [Callers -> Phases]
      /\ LineOf(t.parked, InPhase(t.phase, Waits))
      /\ t.overtakes \in 0..MaxOvertakes
      /\ t.outstanding = WeightOf(Holders(t.phase))
      /\ t.outstanding = b.outstanding + WeightOf(Granting(b, m))
      /\ OnlyWaitersMove(b, t)
      /\ t.parked # <<>> => /\ m + 1 \in 1..Len(b.parked)
                            /\ Head(t.parked) = b.parked[m + 1]
                            /\ t.phase[b.parked[m + 1]] = b.phase[b.parked[m + 1]]
  <2> HIDE DEF m
  <2> QED
    BY <1>4, HeadsTaken DEF BooksOK, t
<1> HIDE DEF m
<1>6. b.outstanding \in Nat /\ Budget \in Nat /\ Headroom \in Nat
  <2>1. Holders(b.phase) \in SUBSET Callers
    BY DEF Holders, InFlight
  <2> QED
    BY <2>1, WeightOfCallers, FlushWorkerAssumption DEF BooksOK
<1>7. Granting(b, n) = {} /\ WeightOf(Granting(b, n)) = 0
  <2>1. \A i \in 1..n : b.phase[b.parked[i]] = "aborted"
    BY <1>2 DEF Aborted
  <2>2. Granting(b, n) = {}
    BY <2>1 DEF Granting, Heads
  <2> QED
    BY <2>2, WeightOfCallers
<1>8. ASSUME grants
      PROVE  /\ n + 1 \in 1..Len(b.parked) /\ b.phase[b.parked[n + 1]] = "parked"
             /\ Clamped(b.parked[n + 1]) \in Nat
             /\ t.outstanding = b.outstanding + Clamped(b.parked[n + 1])
  <2>1. n + 1 \in 1..Len(b.parked)
    BY <1>1, <1>2, <1>8
  <2>2. b.phase[b.parked[n + 1]] = "parked"
    BY <1>1, <1>2, <2>1 DEF Aborted, Waits
  <2>3. WeightOf(Granting(b, n + 1)) = WeightOf(Granting(b, n)) + Clamped(b.parked[n + 1])
    BY <1>4, <2>1, <2>2, GrantingGrows DEF BooksOK
  <2>4. Clamped(b.parked[n + 1]) \in Nat
    BY <1>1, <2>1, WeightOfCallers, FlushWorkerAssumption
  <2> QED
    BY <1>4, <1>5, <1>7, <1>6, <1>8, <2>1, <2>2, <2>3, <2>4
<1>11. ASSUME ~grants PROVE t.outstanding = b.outstanding
  <2>1. m = n
    BY <1>4, <1>11
  <2>2. WeightOf(Granting(b, m)) = 0
    BY <1>7, <2>1
  <2>3. t.outstanding = b.outstanding + WeightOf(Granting(b, m))
    BY <1>5
  <2>4. t.outstanding = b.outstanding + 0
    BY <2>2, <2>3
  <2> QED
    BY <1>6, <2>4
<1>12. t.outstanding \in Int
  <2>1. CASE grants
    BY <1>6, <1>8, <2>1
  <2>2. CASE ~grants
    BY <1>6, <1>11, <2>2
  <2> QED
    BY <2>1, <2>2
<1>9. t.outstanding <= Budget + Headroom
  <2>1. CASE grants
    BY <1>8, <2>1
  <2>2. CASE ~grants
    BY <1>11, <2>2 DEF BooksOK
  <2> QED
    BY <2>1, <2>2
<1>10. HeadStays(t)
  <2> SUFFICES ASSUME t.parked # <<>>
               PROVE  /\ t.phase[Head(t.parked)] = "aborted" => t.outstanding > Budget
                      /\ t.phase[Head(t.parked)] # "aborted" =>
                           t.outstanding + Clamped(Head(t.parked)) > Budget
    BY DEF HeadStays
  <2>1. /\ m + 1 \in 1..Len(b.parked) /\ Head(t.parked) = b.parked[m + 1]
        /\ b.parked[m + 1] \in Callers
        /\ t.phase[b.parked[m + 1]] = b.phase[b.parked[m + 1]]
    BY <1>1, <1>5
  <2>2. Clamped(b.parked[m + 1]) \in Nat \ {0}
    BY <2>1, ClampedTyped
  <2>3. b.parked # <<>> /\ Head(b.parked) = b.parked[1] /\ 1 \in 1..Len(b.parked)
    <3>1. Len(b.parked) # 0
      BY <1>4, <2>1
    <3>2. b.parked # <<>>
      BY <1>1, <3>1, EmptySeq
    <3> QED
      BY <1>1, <3>1, <3>2, HeadTailProperties
  <2>4. CASE n # 0
    <3>1. b.outstanding > Budget
      <4>1. 1 \in 1..n
        BY <1>4, <2>4
      <4>2. b.phase[Head(b.parked)] = "aborted"
        BY <1>2, <2>3, <4>1 DEF Aborted
      <4> QED
        BY <2>3, <4>2 DEF HeadStays
    <3>2. t.outstanding > Budget
      <4>1. CASE grants
        BY <1>6, <1>8, <3>1, <4>1
      <4>2. CASE ~grants
        BY <1>11, <3>1, <4>2
      <4> QED
        BY <4>1, <4>2
    <3>3. t.outstanding + Clamped(b.parked[m + 1]) > Budget
      <4> DEFINE w == Clamped(b.parked[m + 1])
                 o == t.outstanding
      <4>1. w \in Nat \ {0} /\ o > Budget /\ Budget \in Nat /\ o \in Int
        BY <1>5, <1>6, <1>12, <2>2, <3>2
      <4> HIDE DEF w, o
      <4>2. o + w > Budget
        BY <4>1
      <4> QED
        BY <4>2 DEF o, w
    <3> QED
      BY <2>1, <3>2, <3>3
  <2>5. CASE n = 0
    <3>1. b.phase[b.parked[1]] # "aborted"
      BY <1>1, <1>2, <2>3, <2>5 DEF Aborted
    <3>2. b.outstanding + Clamped(b.parked[1]) > Budget
      BY <2>3, <3>1 DEF HeadStays
    <3>3. CASE grants
      <4>1. t.outstanding > Budget
        BY <1>8, <2>5, <3>2, <3>3
      <4> DEFINE w == Clamped(b.parked[m + 1])
                 o == t.outstanding
      <4>2. w \in Nat \ {0} /\ o > Budget /\ Budget \in Nat /\ o \in Int
        BY <1>6, <1>12, <2>2, <4>1
      <4> HIDE DEF w, o
      <4>3. o + w > Budget
        BY <4>2
      <4> QED
        BY <2>1, <4>1, <4>3 DEF o, w
    <3>4. CASE ~grants
      <4>1. m + 1 = 1 /\ t.outstanding = b.outstanding
        BY <1>4, <1>11, <2>5, <3>4
      <4> QED
        BY <2>1, <3>1, <3>2, <4>1
    <3> QED
      BY <3>3, <3>4
  <2> QED
    BY <1>4, <2>4, <2>5
<1> QED
  BY <1>3, <1>5, <1>9, <1>10 DEF BooksOK

-----------------------------------------------------------------------------
(* The inductive invariant                                                  *)

\* The reservations: whoever waits is in line, what is held is counted.
BooksInv == BooksOK(Books) /\ HeadStays(Books)

\* The writer: who is queued or prepared is in line, who runs has a slot.
WriterInv ==
  /\ LineOf(flushQueue, InPhase(phase, {"queued"}))
  /\ LineOf(slotQueue, InPhase(phase, {"ready"}))
  /\ SlotsAreOwned /\ ClosedIsIdle
  /\ pump \in {"off", "on", "asleep"} /\ closing \in {"no", "waiting", "done"}

\* The queues hold who waits in them, once, and the books balance.
FlushInv == BooksInv /\ WriterInv /\ told \subseteq Callers

Inside == {"queued", "preparing", "ready", "running"}

LEMMA BooksFields ==
  /\ Books.phase = phase /\ Books.parked = parked
  /\ Books.overtakes = overtakes /\ Books.outstanding = outstanding
BY DEF Books

\* The books of the next state are those the action computed.
LEMMA BooksKept ==
  ASSUME NEW t, phase' = t.phase, Keep(t), BooksOK(t), HeadStays(t)
  PROVE  BooksInv'
<1>1. /\ Books'.phase = t.phase /\ Books'.parked = t.parked
      /\ Books'.overtakes = t.overtakes /\ Books'.outstanding = t.outstanding
  BY DEF Books, Keep
<1> QED
  BY <1>1 DEF BooksInv, BooksOK, HeadStays

\* Moves among those who hold their weight leave the reservations alone.
LEMMA BooksMoved ==
  ASSUME NEW b, NEW t, BooksOK(b), HeadStays(b),
         t.parked = b.parked, t.overtakes = b.overtakes, t.outstanding = b.outstanding,
         t.phase \in [Callers -> Phases], Holders(t.phase) = Holders(b.phase),
         \A c \in Callers : b.phase[c] \in Waits \/ t.phase[c] \in Waits => t.phase[c] = b.phase[c]
  PROVE  BooksOK(t) /\ HeadStays(t)
<1>1. InPhase(t.phase, Waits) = InPhase(b.phase, Waits)
  BY DEF InPhase
<1>2. BooksOK(t)
  BY <1>1 DEF BooksOK
<1>3. b.parked # <<>> => Head(b.parked) \in InPhase(b.phase, Waits)
  BY LineTails DEF BooksOK
<1>4. b.parked # <<>> => t.phase[Head(b.parked)] = b.phase[Head(b.parked)]
  BY <1>3 DEF InPhase
<1> QED
  BY <1>2, <1>4 DEF HeadStays

\* Moves outside the writer leave the writer alone.
LEMMA WriterKept ==
  ASSUME WriterInv, UNCHANGED <<writerVars, closing>>,
         \A c \in Callers : phase[c] \in Inside \/ phase'[c] \in Inside => phase'[c] = phase[c]
  PROVE  WriterInv'
<1>1. /\ InPhase(phase', {"queued"}) = InPhase(phase, {"queued"})
      /\ InPhase(phase', {"ready"}) = InPhase(phase, {"ready"})
      /\ {c \in Callers : phase'[c] = "running"} = {c \in Callers : phase[c] = "running"}
      /\ InFlight(phase') = InFlight(phase)
  BY DEF InPhase, Inside, InFlight
<1>2. /\ flushQueue' = flushQueue /\ slotQueue' = slotQueue /\ slotsUsed' = slotsUsed
      /\ pump' = pump /\ closing' = closing
  BY DEF writerVars
<1> QED
  BY <1>1, <1>2 DEF WriterInv, SlotsAreOwned, ClosedIsIdle

\* Giving the weight of c back balances, and moves only c and those who wait.
LEMMA FreedBalances ==
  ASSUME BooksInv, NEW c \in Callers, c \in Holders(phase)
  PROVE  /\ BooksOK(Freed(c)) /\ HeadStays(Freed(c)) /\ Freed(c).phase[c] = "idle"
         /\ \A d \in Callers : /\ d # c /\ phase[d] \notin Waits => Freed(c).phase[d] = phase[d]
                               /\ phase[d] \in Waits =>
                                    Freed(c).phase[d] \in Waits \cup {"idle", "held"}
<1> DEFINE b == [Books EXCEPT !.phase[c] = "idle", !.outstanding = @ - Clamped(c)]
<1>1. /\ b.phase = [phase EXCEPT ![c] = "idle"] /\ b.parked = parked
      /\ b.overtakes = overtakes /\ b.outstanding = outstanding - Clamped(c)
  BY DEF Books
<1>2. Freed(c) = GrantWeight(b)
  BY DEF Freed
<1> HIDE DEF b
<1>3. /\ phase \in [Callers -> Phases] /\ LineOf(parked, InPhase(phase, Waits))
      /\ overtakes \in 0..MaxOvertakes /\ outstanding = WeightOf(Holders(phase))
      /\ outstanding <= Budget + Headroom
  BY BooksFields DEF BooksInv, BooksOK
<1>4. /\ Holders(phase) = Holders(b.phase) \cup {c} /\ Holders(b.phase) \cap {c} = {}
      /\ Holders(b.phase) \in SUBSET Callers
  BY <1>1, <1>3 DEF Holders, InFlight
<1>5. WeightOf(Holders(phase)) = WeightOf(Holders(b.phase)) + Clamped(c)
  <2>1. {c} \in SUBSET Callers
    OBVIOUS
  <2> QED
    BY <1>4, <2>1, WeightAdds, WeightOfCallers
<1>6. /\ WeightOf(Holders(b.phase)) \in Nat /\ Clamped(c) \in Nat
      /\ Budget \in Nat /\ Headroom \in Nat
  BY <1>4, WeightOfCallers, FlushWorkerAssumption
<1>7. BooksOK(b)
  <2>1. InPhase(b.phase, Waits) = InPhase(phase, Waits)
    BY <1>1, <1>3, <1>4 DEF InPhase, Waits, Holders, InFlight
  <2>2. b.phase \in [Callers -> Phases]
    BY <1>1, <1>3 DEF Phases
  <2>3. b.outstanding = WeightOf(Holders(b.phase)) /\ b.outstanding <= Budget + Headroom
    BY <1>1, <1>3, <1>5, <1>6
  <2> QED
    BY <1>1, <1>3, <2>1, <2>2, <2>3 DEF BooksOK
<1>8. BooksOK(Freed(c)) /\ HeadStays(Freed(c)) /\ OnlyWaitersMove(b, Freed(c))
  BY <1>2, <1>7, WeightGranted
<1>9. \A d \in Callers : b.phase[d] = IF d = c THEN "idle" ELSE phase[d]
  BY <1>1, <1>3
<1>10. phase[c] \notin Waits /\ "idle" \notin Waits
  BY DEF Holders, InFlight, Waits
<1> QED
  BY <1>8, <1>9, <1>10 DEF OnlyWaitersMove

\* A grant to an idle caller balances while it stays below the headroom.
LEMMA GrantedBalances ==
  ASSUME BooksInv, NEW c \in Callers, phase[c] = "idle", NEW b,
         b.phase = [phase EXCEPT ![c] = "held"], b.parked = parked,
         b.overtakes \in 0..MaxOvertakes, b.outstanding = outstanding + Clamped(c),
         outstanding + Clamped(c) <= Budget + Headroom
  PROVE  BooksOK(b) /\ HeadStays(b)
<1>1. /\ phase \in [Callers -> Phases] /\ LineOf(parked, InPhase(phase, Waits))
      /\ outstanding = WeightOf(Holders(phase))
      /\ (parked # <<>> => IF phase[Head(parked)] = "aborted" THEN outstanding > Budget
                           ELSE outstanding + Clamped(Head(parked)) > Budget)
  BY BooksFields DEF BooksInv, BooksOK, HeadStays
<1>2. /\ Holders(b.phase) = Holders(phase) \cup {c} /\ Holders(phase) \cap {c} = {}
      /\ Holders(phase) \in SUBSET Callers /\ {c} \in SUBSET Callers
  BY <1>1 DEF Holders, InFlight
<1>3. WeightOf(Holders(b.phase)) = WeightOf(Holders(phase)) + Clamped(c)
  BY <1>2, WeightAdds, WeightOfCallers
<1>4. InPhase(b.phase, Waits) = InPhase(phase, Waits)
  BY <1>1 DEF InPhase, Waits
<1>5. b.phase \in [Callers -> Phases]
  BY <1>1 DEF Phases
<1>6. BooksOK(b)
  BY <1>1, <1>3, <1>4, <1>5 DEF BooksOK
<1>7. ASSUME parked # <<>>
      PROVE  IF b.phase[Head(parked)] = "aborted" THEN b.outstanding > Budget
             ELSE b.outstanding + Clamped(Head(parked)) > Budget
  <2>1. Head(parked) \in InPhase(phase, Waits)
    BY <1>1, <1>7, LineTails
  <2>2. Head(parked) \in Callers /\ Head(parked) # c
    BY <2>1 DEF InPhase, Waits
  <2>3. b.phase[Head(parked)] = phase[Head(parked)]
    BY <1>1, <2>2
  <2> DEFINE w == Clamped(c)
             h == Clamped(Head(parked))
             o == outstanding
  <2>4. o \in Nat /\ w \in Nat /\ h \in Nat /\ Budget \in Nat
    BY <1>1, <1>2, <2>2, WeightOfCallers, ClampedTyped, FlushWorkerAssumption
  <2>5. /\ phase[Head(parked)] = "aborted" => o > Budget
        /\ phase[Head(parked)] # "aborted" => o + h > Budget
        /\ b.outstanding = o + w
    BY <1>1, <1>7
  <2> HIDE DEF o, w, h
  <2>6. /\ o > Budget => o + w > Budget
        /\ o + h > Budget => (o + w) + h > Budget
    BY <2>4
  <2> QED
    BY <2>3, <2>5, <2>6 DEF h
<1> QED
  BY <1>6, <1>7 DEF HeadStays

-----------------------------------------------------------------------------
(* The steps                                                                *)

LEMMA InvFacts ==
  ASSUME FlushInv
  PROVE  /\ phase \in [Callers -> Phases] /\ LineOf(parked, InPhase(phase, Waits))
         /\ overtakes \in 0..MaxOvertakes /\ outstanding = WeightOf(Holders(phase))
         /\ outstanding \in Nat /\ outstanding <= Budget + Headroom
         /\ parked # <<>> => IF phase[Head(parked)] = "aborted" THEN outstanding > Budget
                             ELSE outstanding + Clamped(Head(parked)) > Budget
<1>1. Holders(phase) \in SUBSET Callers
  BY DEF Holders, InFlight
<1> QED
  BY <1>1, BooksFields, WeightOfCallers DEF FlushInv, BooksInv, BooksOK, HeadStays

LEMMA InitKeeps == ASSUME FlushInit PROVE FlushInv
<1>1. \A P : LineOf(<<>>, {}) /\ ("idle" \notin P => InPhase(phase, P) = {})
  BY LenProperties, EmptySeq DEF FlushInit, LineOf, InPhase
<1>2. Holders(phase) = {} /\ {c \in Callers : phase[c] = "running"} = {} /\ InFlight(phase) = {}
  BY DEF FlushInit, Holders, InFlight
<1>3. BooksInv
  <2>1. phase \in [Callers -> Phases] /\ parked = <<>> /\ overtakes = 0 /\ outstanding = 0
    BY DEF FlushInit, Phases
  <2>2. InPhase(phase, Waits) = {}
    BY <1>1 DEF Waits
  <2>3. 0 \in 0..MaxOvertakes /\ 0 <= Budget + Headroom
    BY FlushWorkerAssumption
  <2> QED
    BY <1>1, <1>2, <2>1, <2>2, <2>3, BooksFields, WeightOfCallers DEF BooksInv, BooksOK, HeadStays
<1>4. WriterInv
  <2>1. /\ flushQueue = <<>> /\ slotQueue = <<>> /\ slotsUsed = 0
        /\ pump = "off" /\ closing = "no"
    BY DEF FlushInit
  <2>2. SlotsAreOwned
    <3>1. Cardinality({c \in Callers : phase[c] = "running"}) = 0
      BY <1>2, FS_EmptySet
    <3>2. 0 <= WriterSlots
      BY FlushWorkerAssumption
    <3> QED
      BY <2>1, <3>1, <3>2 DEF SlotsAreOwned
  <2>3. InPhase(phase, {"queued"}) = {} /\ InPhase(phase, {"ready"}) = {}
    BY <1>1
  <2> QED
    BY <1>1, <2>1, <2>2, <2>3 DEF WriterInv, ClosedIsIdle
<1> QED
  BY <1>3, <1>4 DEF FlushInit, FlushInv

LEMMA ReserveGrantsKeeps ==
  ASSUME FlushInv, NEW c \in Callers, ReserveGrants(c) PROVE FlushInv'
<1> DEFINE b == Granted(c)
<1>1. /\ b.phase = [phase EXCEPT ![c] = "held"] /\ b.parked = parked
      /\ b.overtakes = overtakes /\ b.outstanding = outstanding + Clamped(c)
  BY DEF Granted, Books
<1>2. outstanding + Clamped(c) <= Budget + Headroom
  BY InvFacts, ClampedTyped, FlushWorkerAssumption DEF ReserveGrants, Fits
<1>3. phase[c] = "idle" /\ overtakes \in 0..MaxOvertakes /\ phase' = b.phase /\ Keep(b)
  BY InvFacts DEF ReserveGrants
<1> HIDE DEF b
<1>4. BooksOK(b) /\ HeadStays(b)
  BY <1>1, <1>2, <1>3, GrantedBalances DEF FlushInv
<1>5. BooksInv'
  BY <1>3, <1>4, BooksKept
<1>6. WriterInv'
  BY <1>1, <1>3, InvFacts, WriterKept DEF FlushInv, ReserveGrants, Inside
<1> QED
  BY <1>5, <1>6 DEF FlushInv, ReserveGrants

LEMMA ReserveOvertakesKeeps ==
  ASSUME FlushInv, NEW c \in Callers, ReserveOvertakes(c) PROVE FlushInv'
<1> DEFINE g == [Granted(c) EXCEPT !.overtakes = IF parked = <<>> THEN @ ELSE @ + 1]
           b == IF g.overtakes >= MaxOvertakes THEN GrantOvertakenHead(g) ELSE g
<1>1. /\ g.phase = [phase EXCEPT ![c] = "held"] /\ g.parked = parked
      /\ g.overtakes = (IF parked = <<>> THEN overtakes ELSE overtakes + 1)
      /\ g.outstanding = outstanding + Clamped(c)
  BY DEF Granted, Books
<1>2. /\ phase[c] = "idle" /\ overtakes < MaxOvertakes
      /\ outstanding + Clamped(c) <= Budget + Headroom
      /\ phase' = b.phase /\ Keep(b)
  BY DEF ReserveOvertakes, Express
<1> HIDE DEF g
<1>3. g.overtakes \in 0..MaxOvertakes
  BY <1>1, <1>2, InvFacts, FlushWorkerAssumption
<1>4. BooksOK(g) /\ HeadStays(g)
  BY <1>1, <1>2, <1>3, GrantedBalances DEF FlushInv
<1>5. BooksOK(b) /\ HeadStays(b) /\ OnlyWaitersMove(g, b)
  <2>1. OnlyWaitersMove(g, g)
    BY DEF OnlyWaitersMove
  <2> QED
    BY <1>4, <2>1, OvertakenHeadGranted
<1> HIDE DEF b
<1>6. BooksInv'
  BY <1>2, <1>5, BooksKept
<1>7. \A d \in Callers : phase[d] \in Inside \/ phase'[d] \in Inside => phase'[d] = phase[d]
  <2> TAKE d \in Callers
  <2>1. g.phase[d] = IF d = c THEN "held" ELSE phase[d]
    BY <1>1, InvFacts
  <2>2. /\ g.phase[d] \notin Waits => phase'[d] = g.phase[d]
        /\ g.phase[d] \in Waits => phase'[d] \in Waits \cup {"idle", "held"}
    BY <1>2, <1>5 DEF OnlyWaitersMove
  <2> QED
    BY <1>2, <2>1, <2>2 DEF Inside, Waits
<1>8. WriterInv'
  BY <1>7, WriterKept DEF FlushInv, ReserveOvertakes
<1> QED
  BY <1>6, <1>8 DEF FlushInv, ReserveOvertakes

LEMMA ReserveParksKeeps ==
  ASSUME FlushInv, NEW c \in Callers, ReserveParks(c) PROVE FlushInv'
<1>1. /\ phase[c] = "idle" /\ phase' = [phase EXCEPT ![c] = "parked"]
      /\ parked' = Append(parked, c) /\ overtakes' = overtakes /\ outstanding' = outstanding
      /\ ~Fits(c)
  BY DEF ReserveParks
<1>2. phase' \in [Callers -> Phases] /\ \A d \in Callers : phase'[d] = IF d = c THEN "parked" ELSE phase[d]
  BY <1>1, InvFacts DEF Phases
<1>3. /\ c \notin InPhase(phase, Waits) /\ InPhase(phase', Waits) = InPhase(phase, Waits) \cup {c}
      /\ Holders(phase') = Holders(phase)
  BY <1>1, <1>2 DEF InPhase, Waits, Holders, InFlight
<1>4. LineOf(parked', InPhase(phase', Waits))
  <2>1. LineOf(parked, InPhase(phase, Waits))
    BY InvFacts
  <2>2. LineOf(Append(parked, c), InPhase(phase, Waits) \cup {c})
    BY <1>3, <2>1, LineGrows
  <2> QED
    BY <1>1, <1>3, <2>2
<1>5. IF phase'[Head(parked')] = "aborted" THEN outstanding' > Budget
      ELSE outstanding' + Clamped(Head(parked')) > Budget
  <2>1. parked \in Seq(Callers) /\ LineOf(parked, InPhase(phase, Waits))
    BY InvFacts DEF LineOf
  <2>2. CASE parked = <<>>
    <3>1. Head(parked') = c
      BY <1>1, <2>2
    <3>2. ~(outstanding + Clamped(c) <= Budget)
      BY <1>1, <2>2 DEF Fits
    <3> DEFINE w == Clamped(c)
    <3>3. w \in Nat /\ outstanding \in Nat /\ Budget \in Nat
      BY InvFacts, ClampedTyped, FlushWorkerAssumption
    <3> HIDE DEF w
    <3>4. outstanding + w > Budget
      BY <3>2, <3>3 DEF w
    <3> QED
      BY <1>1, <1>2, <3>1, <3>4 DEF w
  <2>3. CASE parked # <<>>
    <3>1. Head(parked') = Head(parked)
      <4>1. Len(parked) \in Nat \ {0} /\ Head(parked) = parked[1]
        BY <2>1, <2>3, LenProperties, EmptySeq, HeadTailProperties
      <4>2. 1 \in 1..Len(parked)
        BY <4>1
      <4>3. /\ parked' \in Seq(Callers) /\ Len(parked') = Len(parked) + 1
            /\ parked'[1] = parked[1]
        BY <1>1, <2>1, <4>2, AppendProperties
      <4>4. parked' # <<>>
        BY <4>1, <4>3
      <4> QED
        BY <4>1, <4>3, <4>4, HeadTailProperties
    <3>2. Head(parked) \in Callers /\ Head(parked) # c
      <4>1. Head(parked) \in InPhase(phase, Waits)
        BY <2>1, <2>3, LineTails
      <4> QED
        BY <1>1, <4>1 DEF InPhase, Waits
    <3> QED
      BY <1>1, <1>2, <2>3, <3>1, <3>2, InvFacts
  <2> QED
    BY <2>2, <2>3
<1>6. BooksInv'
  BY <1>1, <1>2, <1>3, <1>4, <1>5, InvFacts DEF BooksInv, BooksOK, HeadStays, Books
<1>7. WriterInv'
  BY <1>1, <1>2, WriterKept DEF FlushInv, ReserveParks, writerVars, Inside
<1> QED
  BY <1>6, <1>7 DEF FlushInv, ReserveParks

LEMMA AbortParkedKeeps ==
  ASSUME FlushInv, NEW c \in Callers, AbortParked(c) PROVE FlushInv'
<1> DEFINE b == [Books EXCEPT !.phase[c] = "aborted"]
           t == GrantWeight(b)
<1>1. /\ b.phase = [phase EXCEPT ![c] = "aborted"] /\ b.parked = parked
      /\ b.overtakes = overtakes /\ b.outstanding = outstanding
  BY DEF Books
<1>2. phase[c] = "parked" /\ phase' = t.phase /\ Keep(t)
  BY DEF AbortParked
<1> HIDE DEF b
<1>3. b.phase \in [Callers -> Phases] /\ \A d \in Callers : b.phase[d] = IF d = c THEN "aborted" ELSE phase[d]
  BY <1>1, InvFacts DEF Phases
<1>4. InPhase(b.phase, Waits) = InPhase(phase, Waits) /\ Holders(b.phase) = Holders(phase)
  BY <1>2, <1>3 DEF InPhase, Waits, Holders, InFlight
<1>5. BooksOK(b)
  BY <1>1, <1>3, <1>4, InvFacts DEF BooksOK
<1>6. BooksOK(t) /\ HeadStays(t) /\ OnlyWaitersMove(b, t)
  BY <1>5, WeightGranted
<1> HIDE DEF t
<1>7. BooksInv'
  BY <1>2, <1>6, BooksKept
<1>8. \A d \in Callers : phase[d] \in Inside \/ phase'[d] \in Inside => phase'[d] = phase[d]
  BY <1>2, <1>3, <1>6 DEF OnlyWaitersMove, Inside, Waits
<1>9. WriterInv'
  BY <1>8, WriterKept DEF FlushInv, AbortParked
<1> QED
  BY <1>7, <1>9 DEF FlushInv, AbortParked

LEMMA GivenBackKeeps ==
  ASSUME FlushInv, NEW c \in Callers, Release(c) \/ SubmitClosed(c) PROVE FlushInv'
<1>1. /\ phase[c] = "held" /\ phase' = Freed(c).phase /\ Keep(Freed(c))
      /\ UNCHANGED <<writerVars, told, closing>>
  BY DEF Release, SubmitClosed
<1>2. c \in Holders(phase)
  BY <1>1 DEF Holders
<1>3. /\ BooksOK(Freed(c)) /\ HeadStays(Freed(c)) /\ phase'[c] = "idle"
      /\ \A d \in Callers : /\ d # c /\ phase[d] \notin Waits => phase'[d] = phase[d]
                            /\ phase[d] \in Waits => phase'[d] \in Waits \cup {"idle", "held"}
  BY <1>1, <1>2, FreedBalances DEF FlushInv
<1>4. \A d \in Callers : phase[d] \in Inside \/ phase'[d] \in Inside => phase'[d] = phase[d]
  BY <1>1, <1>3 DEF Inside, Waits
<1>5. BooksInv'
  BY <1>1, <1>3, BooksKept
<1>6. WriterInv'
  BY <1>1, <1>4, WriterKept DEF FlushInv
<1> QED
  BY <1>1, <1>5, <1>6 DEF FlushInv

LEMMA SubmitKeeps ==
  ASSUME FlushInv, NEW c \in Callers, Submit(c) PROVE FlushInv'
<1>1. /\ phase[c] = "held" /\ closing = "no" /\ phase' = [phase EXCEPT ![c] = "queued"]
      /\ flushQueue' = Append(flushQueue, c) /\ pump' = (IF pump = "off" THEN "on" ELSE pump)
      /\ parked' = parked /\ overtakes' = overtakes /\ outstanding' = outstanding
      /\ slotsUsed' = slotsUsed /\ slotQueue' = slotQueue /\ told' = told /\ closing' = closing
  BY DEF Submit, reserveVars
<1>2. phase' \in [Callers -> Phases] /\ \A d \in Callers : phase'[d] = IF d = c THEN "queued" ELSE phase[d]
  BY <1>1, InvFacts DEF Phases
<1>3. Holders(phase') = Holders(phase)
  BY <1>1, <1>2 DEF Holders, InFlight
<1>4. BooksInv'
  <2>1. /\ Books.phase = phase /\ Books'.phase = phase' /\ Books'.parked = Books.parked
        /\ Books'.overtakes = Books.overtakes /\ Books'.outstanding = Books.outstanding
    BY <1>1 DEF Books
  <2>2. \A d \in Callers : phase[d] \in Waits \/ phase'[d] \in Waits => phase'[d] = phase[d]
    BY <1>1, <1>2 DEF Waits
  <2> QED
    BY <1>2, <1>3, <2>1, <2>2, BooksMoved DEF FlushInv, BooksInv
<1>5. WriterInv'
  <2>1. /\ InPhase(phase', {"queued"}) = InPhase(phase, {"queued"}) \cup {c}
        /\ c \notin InPhase(phase, {"queued"})
        /\ InPhase(phase', {"ready"}) = InPhase(phase, {"ready"})
        /\ {d \in Callers : phase'[d] = "running"} = {d \in Callers : phase[d] = "running"}
    BY <1>1, <1>2 DEF InPhase
  <2>2. LineOf(Append(flushQueue, c), InPhase(phase, {"queued"}) \cup {c})
    BY <2>1, LineGrows DEF FlushInv, WriterInv
  <2>3. SlotsAreOwned'
    BY <1>1, <2>1 DEF FlushInv, WriterInv, SlotsAreOwned
  <2> QED
    BY <1>1, <2>1, <2>2, <2>3 DEF FlushInv, WriterInv, ClosedIsIdle
<1> QED
  BY <1>1, <1>4, <1>5 DEF FlushInv

\* A step that leaves every phase, and the reservations, as they are.
LEMMA PhasesStay ==
  ASSUME FlushInv, phase' = phase, UNCHANGED reserveVars
  PROVE  BooksInv'
BY DEF FlushInv, BooksInv, BooksOK, HeadStays, Books, reserveVars

LEMMA PumpRestsKeeps ==
  ASSUME FlushInv, PumpStops \/ PumpSleeps PROVE FlushInv'
<1>1. /\ phase' = phase /\ flushQueue' = flushQueue /\ slotsUsed' = slotsUsed
      /\ slotQueue' = slotQueue /\ told' = told /\ UNCHANGED reserveVars
      /\ pump' \in {"off", "asleep"} /\ closing' \in {closing, "done"}
      /\ pump' = "asleep" => slotsUsed >= WriterSlots
      /\ closing' # closing => InFlight(phase) = {} /\ flushQueue = <<>>
  BY DEF PumpStops, PumpSleeps, Closing
<1>2. BooksInv'
  BY <1>1, PhasesStay
<1>3. SlotsAreOwned'
  <2>1. IsFiniteSet({c \in Callers : phase[c] = "running"})
    BY FlushWorkerAssumption, FS_Subset
  <2>2. slotsUsed \in Nat /\ slotsUsed <= WriterSlots /\ WriterSlots \in Nat
    BY <2>1, FS_CardinalityType, FlushWorkerAssumption DEF FlushInv, WriterInv, SlotsAreOwned
  <2> QED
    BY <1>1, <2>2 DEF FlushInv, WriterInv, SlotsAreOwned
<1>4. WriterInv'
  BY <1>1, <1>3 DEF FlushInv, WriterInv, ClosedIsIdle
<1> QED
  BY <1>1, <1>2, <1>4 DEF FlushInv

LEMMA RunningIsFinite ==
  ASSUME FlushInv
  PROVE  /\ IsFiniteSet({c \in Callers : phase[c] = "running"})
         /\ slotsUsed = Cardinality({c \in Callers : phase[c] = "running"})
         /\ slotsUsed \in Nat /\ slotsUsed <= WriterSlots /\ WriterSlots \in Nat \ {0}
         /\ slotQueue # <<>> \/ pump = "asleep" => slotsUsed = WriterSlots
<1>1. IsFiniteSet({c \in Callers : phase[c] = "running"})
  BY FlushWorkerAssumption, FS_Subset
<1> QED
  BY <1>1, FS_CardinalityType, FlushWorkerAssumption DEF FlushInv, WriterInv, SlotsAreOwned

LEMMA StartItemKeeps ==
  ASSUME FlushInv, NEW prepares \in BOOLEAN, StartItem(prepares) PROVE FlushInv'
<1> DEFINE h == Head(flushQueue)
           to == IF prepares THEN "preparing" ELSE "running"
<1>1. /\ pump = "on" /\ flushQueue # <<>> /\ slotsUsed < WriterSlots
      /\ flushQueue' = Tail(flushQueue) /\ phase' = [phase EXCEPT ![h] = to]
      /\ slotsUsed' = (IF prepares THEN slotsUsed ELSE slotsUsed + 1)
      /\ slotQueue' = slotQueue /\ pump' = pump /\ told' = told /\ closing' = closing
      /\ parked' = parked /\ overtakes' = overtakes /\ outstanding' = outstanding
  BY DEF StartItem, reserveVars
<1>2. h \in InPhase(phase, {"queued"}) /\ LineOf(Tail(flushQueue), InPhase(phase, {"queued"}) \ {h})
  BY <1>1, LineTails DEF FlushInv, WriterInv
<1>3. h \in Callers /\ phase[h] = "queued" /\ to \in {"preparing", "running"}
  BY <1>2 DEF InPhase
<1> HIDE DEF h, to
<1>4. phase' \in [Callers -> Phases] /\ \A d \in Callers : phase'[d] = IF d = h THEN to ELSE phase[d]
  BY <1>1, <1>3, InvFacts DEF Phases
<1>5. Holders(phase') = Holders(phase)
  BY <1>3, <1>4 DEF Holders, InFlight
<1>6. BooksInv'
  <2>1. /\ Books.phase = phase /\ Books'.phase = phase' /\ Books'.parked = Books.parked
        /\ Books'.overtakes = Books.overtakes /\ Books'.outstanding = Books.outstanding
    BY <1>1 DEF Books
  <2>2. \A d \in Callers : phase[d] \in Waits \/ phase'[d] \in Waits => phase'[d] = phase[d]
    BY <1>3, <1>4 DEF Waits
  <2> QED
    BY <1>4, <1>5, <2>1, <2>2, BooksMoved DEF FlushInv, BooksInv
<1>7. WriterInv'
  <2>1. /\ InPhase(phase', {"queued"}) = InPhase(phase, {"queued"}) \ {h}
        /\ InPhase(phase', {"ready"}) = InPhase(phase, {"ready"})
    BY <1>3, <1>4 DEF InPhase
  <2>2. SlotsAreOwned'
    <3> DEFINE R == {d \in Callers : phase[d] = "running"}
               R2 == {d \in Callers : phase'[d] = "running"}
    <3>1. h \notin R /\ R2 = IF prepares THEN R ELSE R \cup {h}
      BY <1>3, <1>4 DEF to
    <3>2. IsFiniteSet(R) /\ slotsUsed = Cardinality(R)
      BY RunningIsFinite
    <3> HIDE DEF R
    <3>3. Cardinality(R \cup {h}) = slotsUsed + 1
      BY <3>1, <3>2, FS_AddElement
    <3>4. slotsUsed' = Cardinality(R2)
      BY <1>1, <3>1, <3>2, <3>3
    <3> HIDE DEF R2
    <3>5. slotsUsed' <= WriterSlots /\ ~(slotQueue' # <<>> \/ pump' = "asleep")
      BY <1>1, RunningIsFinite
    <3> QED
      BY <3>4, <3>5 DEF SlotsAreOwned, R2
  <2>3. closing # "done"
    BY <1>1 DEF FlushInv, WriterInv, ClosedIsIdle
  <2> QED
    BY <1>1, <1>2, <2>1, <2>2, <2>3 DEF FlushInv, WriterInv, ClosedIsIdle
<1> QED
  BY <1>1, <1>6, <1>7 DEF FlushInv

LEMMA PreparedKeeps ==
  ASSUME FlushInv, NEW c \in Callers, Prepared(c) PROVE FlushInv'
<1> DEFINE to == IF slotsUsed < WriterSlots THEN "running" ELSE "ready"
<1>1. /\ phase[c] = "preparing" /\ phase' = [phase EXCEPT ![c] = to]
      /\ slotsUsed' = (IF slotsUsed < WriterSlots THEN slotsUsed + 1 ELSE slotsUsed)
      /\ slotQueue' = (IF slotsUsed < WriterSlots THEN slotQueue ELSE Append(slotQueue, c))
      /\ flushQueue' = flushQueue /\ pump' = pump /\ told' = told /\ closing' = closing
      /\ parked' = parked /\ overtakes' = overtakes /\ outstanding' = outstanding
  BY DEF Prepared, reserveVars
<1>2. to \in {"running", "ready"}
  OBVIOUS
<1> HIDE DEF to
<1>4. phase' \in [Callers -> Phases] /\ \A d \in Callers : phase'[d] = IF d = c THEN to ELSE phase[d]
  BY <1>1, <1>2, InvFacts DEF Phases
<1>5. Holders(phase') = Holders(phase)
  BY <1>1, <1>2, <1>4 DEF Holders, InFlight
<1>6. BooksInv'
  <2>1. /\ Books.phase = phase /\ Books'.phase = phase' /\ Books'.parked = Books.parked
        /\ Books'.overtakes = Books.overtakes /\ Books'.outstanding = Books.outstanding
    BY <1>1 DEF Books
  <2>2. \A d \in Callers : phase[d] \in Waits \/ phase'[d] \in Waits => phase'[d] = phase[d]
    BY <1>1, <1>2, <1>4 DEF Waits
  <2> QED
    BY <1>4, <1>5, <2>1, <2>2, BooksMoved DEF FlushInv, BooksInv
<1>7. WriterInv'
  <2> DEFINE R == {d \in Callers : phase[d] = "running"}
             R2 == {d \in Callers : phase'[d] = "running"}
  <2>1. /\ InPhase(phase', {"queued"}) = InPhase(phase, {"queued"})
        /\ InPhase(phase', {"ready"}) = InPhase(phase, {"ready"}) \cup (IF to = "ready" THEN {c} ELSE {})
        /\ c \notin InPhase(phase, {"ready"})
        /\ c \notin R /\ R2 = R \cup (IF to = "running" THEN {c} ELSE {})
    BY <1>1, <1>2, <1>4 DEF InPhase
  <2>2. IsFiniteSet(R) /\ slotsUsed = Cardinality(R)
    BY RunningIsFinite
  <2>3. closing # "done"
    BY <1>1 DEF FlushInv, WriterInv, ClosedIsIdle, InFlight
  <2> HIDE DEF R
  <2>4. CASE slotsUsed < WriterSlots
    <3>1. to = "running"
      BY <2>4 DEF to
    <3>2. Cardinality(R2) = slotsUsed + 1 /\ slotQueue = <<>> /\ pump # "asleep"
      <4>1. R2 = R \cup {c} /\ c \notin R
        BY <2>1, <3>1
      <4> HIDE DEF R2
      <4>2. Cardinality(R2) = slotsUsed + 1
        BY <2>2, <4>1, FS_AddElement
      <4> QED
        BY <2>4, <4>2, RunningIsFinite
    <3> HIDE DEF R2
    <3>3. slotsUsed' = Cardinality(R2) /\ slotsUsed' <= WriterSlots
      BY <1>1, <2>4, <3>2, RunningIsFinite
    <3>4. SlotsAreOwned'
      BY <1>1, <2>4, <3>2, <3>3 DEF SlotsAreOwned, R2
    <3> QED
      BY <1>1, <2>1, <2>3, <2>4, <3>1, <3>4 DEF FlushInv, WriterInv, ClosedIsIdle
  <2>5. CASE ~(slotsUsed < WriterSlots)
    <3>1. to = "ready"
      BY <2>5 DEF to
    <3>2. R2 = R /\ slotsUsed = WriterSlots
      BY <2>1, <2>5, <3>1, RunningIsFinite
    <3>3. SlotsAreOwned'
      BY <1>1, <2>2, <2>5, <3>2, RunningIsFinite DEF SlotsAreOwned
    <3>4. LineOf(Append(slotQueue, c), InPhase(phase, {"ready"}) \cup {c})
      BY <2>1, LineGrows DEF FlushInv, WriterInv
    <3> QED
      BY <1>1, <2>1, <2>3, <2>5, <3>1, <3>3, <3>4 DEF FlushInv, WriterInv, ClosedIsIdle
  <2> QED
    BY <2>4, <2>5
<1> QED
  BY <1>1, <1>6, <1>7 DEF FlushInv

LEMMA PrepareSettlesKeeps ==
  ASSUME FlushInv, NEW c \in Callers, PrepareSettles(c) PROVE FlushInv'
<1>1. /\ phase[c] = "preparing" /\ phase' = Freed(c).phase /\ Keep(Freed(c))
      /\ closing' = Closing(phase', flushQueue, pump)
      /\ flushQueue' = flushQueue /\ slotsUsed' = slotsUsed /\ slotQueue' = slotQueue
      /\ pump' = pump /\ told' = told
  BY DEF PrepareSettles, Finish, writerVars
<1>2. c \in Holders(phase)
  BY <1>1 DEF Holders, InFlight
<1>3. /\ BooksOK(Freed(c)) /\ HeadStays(Freed(c)) /\ phase'[c] = "idle"
      /\ \A d \in Callers : /\ d # c /\ phase[d] \notin Waits => phase'[d] = phase[d]
                            /\ phase[d] \in Waits => phase'[d] \in Waits \cup {"idle", "held"}
  BY <1>1, <1>2, FreedBalances DEF FlushInv
<1>4. BooksInv'
  BY <1>1, <1>3, BooksKept
<1>5. /\ InPhase(phase', {"queued"}) = InPhase(phase, {"queued"})
      /\ InPhase(phase', {"ready"}) = InPhase(phase, {"ready"})
      /\ {d \in Callers : phase'[d] = "running"} = {d \in Callers : phase[d] = "running"}
  BY <1>1, <1>3 DEF InPhase, Waits
<1>6. ClosedIsIdle' /\ closing' \in {"no", "waiting", "done"}
  <2>1. closing # "done"
    BY <1>1 DEF FlushInv, WriterInv, ClosedIsIdle, InFlight
  <2> QED
    BY <1>1, <2>1 DEF FlushInv, WriterInv, ClosedIsIdle, Closing
<1>7. SlotsAreOwned'
  BY <1>1, <1>5 DEF FlushInv, WriterInv, SlotsAreOwned
<1> QED
  BY <1>1, <1>4, <1>5, <1>6, <1>7 DEF FlushInv, WriterInv

LEMMA RunSettlesKeeps ==
  ASSUME FlushInv, NEW c \in Callers, RunSettles(c) PROVE FlushInv'
<1> DEFINE f == Freed(c)
           R == {d \in Callers : phase[d] = "running"}
           R2 == {d \in Callers : phase'[d] = "running"}
<1>1. phase[c] = "running" /\ c \in R /\ c \in Holders(phase)
  BY DEF RunSettles, Holders, InFlight
<1>2. /\ BooksOK(f) /\ HeadStays(f) /\ f.phase[c] = "idle"
      /\ \A d \in Callers : /\ d # c /\ phase[d] \notin Waits => f.phase[d] = phase[d]
                            /\ phase[d] \in Waits => f.phase[d] \in Waits \cup {"idle", "held"}
  BY <1>1, FreedBalances DEF FlushInv
<1>3. f.phase \in [Callers -> Phases]
  BY <1>2 DEF BooksOK
<1>4. /\ InPhase(f.phase, {"queued"}) = InPhase(phase, {"queued"})
      /\ InPhase(f.phase, {"ready"}) = InPhase(phase, {"ready"})
      /\ {d \in Callers : f.phase[d] = "running"} = R \ {c}
  BY <1>1, <1>2 DEF InPhase, Waits
<1>5. IsFiniteSet(R) /\ slotsUsed = Cardinality(R)
  BY RunningIsFinite
<1>6. /\ closing # "done" /\ flushQueue' = flushQueue /\ told' = told
  BY <1>1 DEF FlushInv, WriterInv, ClosedIsIdle, InFlight, RunSettles
<1> HIDE DEF f
<1>7. CASE slotQueue # <<>>
  <2> DEFINE h == Head(slotQueue)
             t == [f EXCEPT !.phase[h] = "running"]
             ph == t.phase
  <2>1. /\ slotQueue' = Tail(slotQueue) /\ phase' = ph /\ Keep(t)
        /\ closing' = Closing(phase', flushQueue, pump)
        /\ slotsUsed' = slotsUsed /\ pump' = pump
    BY <1>7 DEF RunSettles, Finish, f
  <2>2. h \in InPhase(phase, {"ready"}) /\ LineOf(Tail(slotQueue), InPhase(phase, {"ready"}) \ {h})
    BY <1>7, LineTails DEF FlushInv, WriterInv
  <2>3. h \in Callers /\ phase[h] = "ready" /\ h # c
    BY <1>1, <2>2 DEF InPhase
  <2>4. /\ ph = [f.phase EXCEPT ![h] = "running"] /\ t.parked = f.parked
        /\ t.overtakes = f.overtakes /\ t.outstanding = f.outstanding
    BY <1>2 DEF f, Freed, GrantWeight, TakeHeads
  <2> HIDE DEF h, t
  <2>5. /\ ph \in [Callers -> Phases]
        /\ \A d \in Callers : ph[d] = IF d = h THEN "running" ELSE f.phase[d]
        /\ f.phase[h] = "ready"
    BY <1>2, <1>3, <2>3, <2>4 DEF Phases, Waits
  <2>6. /\ Holders(ph) = Holders(f.phase)
        /\ \A d \in Callers : f.phase[d] \in Waits \/ ph[d] \in Waits => ph[d] = f.phase[d]
    BY <2>5 DEF Holders, InFlight, Waits
  <2>7. BooksOK(t) /\ HeadStays(t)
    BY <1>2, <2>4, <2>5, <2>6, BooksMoved
  <2>8. BooksInv'
    BY <2>1, <2>7, BooksKept
  <2>9. /\ InPhase(phase', {"queued"}) = InPhase(phase, {"queued"})
        /\ InPhase(phase', {"ready"}) = InPhase(phase, {"ready"}) \ {h}
        /\ R2 = (R \ {c}) \cup {h} /\ h \notin R
    BY <1>4, <2>1, <2>3, <2>5 DEF InPhase
  <2>10. SlotsAreOwned'
    <3> HIDE DEF R
    <3>1. IsFiniteSet(R \ {c}) /\ Cardinality(R \ {c}) = slotsUsed - 1
      BY <1>1, <1>5, FS_RemoveElement
    <3>2. Cardinality((R \ {c}) \cup {h}) = (slotsUsed - 1) + 1
      BY <2>9, <3>1, FS_AddElement
    <3>3. slotsUsed' = Cardinality(R2)
      <4>1. R2 = (R \ {c}) \cup {h}
        BY <2>9
      <4> HIDE DEF R2
      <4>2. Cardinality(R2) = (slotsUsed - 1) + 1 /\ slotsUsed \in Nat
        BY <3>2, <4>1, RunningIsFinite
      <4> QED
        BY <2>1, <4>2
    <3>4. slotsUsed' <= WriterSlots /\ slotsUsed' = WriterSlots
      BY <1>7, <2>1, RunningIsFinite
    <3> QED
      BY <3>3, <3>4 DEF SlotsAreOwned
  <2> QED
    BY <1>6, <2>1, <2>2, <2>8, <2>9, <2>10 DEF FlushInv, WriterInv, ClosedIsIdle, Closing
<1>8. CASE slotQueue = <<>>
  <2>1. /\ slotsUsed' = slotsUsed - 1 /\ pump' = (IF pump = "asleep" THEN "on" ELSE pump)
        /\ phase' = f.phase /\ Keep(f) /\ closing' = Closing(phase', flushQueue, pump')
        /\ slotQueue' = slotQueue
    BY <1>8 DEF RunSettles, Finish, f
  <2>2. BooksInv'
    BY <1>2, <2>1, BooksKept
  <2>3. R2 = R \ {c}
    BY <1>4, <2>1
  <2>4. SlotsAreOwned'
    <3> HIDE DEF R
    <3>1. slotsUsed' = Cardinality(R2)
      BY <1>1, <1>5, <2>1, <2>3, FS_RemoveElement
    <3>2. slotsUsed' <= WriterSlots /\ ~(slotQueue' # <<>> \/ pump' = "asleep")
      BY <1>8, <2>1, RunningIsFinite
    <3> QED
      BY <3>1, <3>2 DEF SlotsAreOwned
  <2> QED
    BY <1>4, <1>6, <2>1, <2>2, <2>4 DEF FlushInv, WriterInv, ClosedIsIdle, Closing
<1> QED
  BY <1>7, <1>8

LEMMA DeadlineRejectsKeeps ==
  ASSUME FlushInv, NEW c \in Callers, DeadlineRejects(c) PROVE FlushInv'
<1>1. /\ phase' = phase /\ UNCHANGED reserveVars /\ UNCHANGED <<writerVars, closing>>
      /\ told' \subseteq Callers
  BY DEF DeadlineRejects, FlushInv
<1>2. BooksInv'
  BY <1>1, PhasesStay
<1>3. WriterInv'
  BY <1>1, WriterKept DEF FlushInv
<1> QED
  BY <1>1, <1>2, <1>3 DEF FlushInv

\* What hangs moves nobody: it holds what it held.
LEMMA HangsKeeps ==
  ASSUME FlushInv, NEW c \in Callers, Hangs(c) PROVE FlushInv'
<1>1. /\ phase' = phase /\ UNCHANGED reserveVars
      /\ flushQueue' = flushQueue /\ slotQueue' = slotQueue /\ slotsUsed' = slotsUsed
      /\ pump' = pump /\ closing' = closing /\ told' = told
  BY DEF Hangs, reserveVars
<1>2. BooksInv'
  BY <1>1, PhasesStay
<1>3. /\ InPhase(phase', {"queued"}) = InPhase(phase, {"queued"})
      /\ InPhase(phase', {"ready"}) = InPhase(phase, {"ready"})
      /\ {d \in Callers : phase'[d] = "running"} = {d \in Callers : phase[d] = "running"}
      /\ InFlight(phase') = InFlight(phase)
  BY <1>1 DEF InPhase, InFlight
<1>4. WriterInv'
  BY <1>1, <1>3 DEF FlushInv, WriterInv, SlotsAreOwned, ClosedIsIdle
<1> QED
  BY <1>1, <1>2, <1>4 DEF FlushInv

LEMMA CloseKeeps == ASSUME FlushInv, Close PROVE FlushInv'
<1>1. /\ phase' = [c \in Callers |-> IF phase[c] \in {"parked", "aborted"} THEN "idle" ELSE phase[c]]
      /\ parked' = <<>> /\ closing = "no"
      /\ closing' = (IF pump = "off" /\ InFlight(phase) = {} /\ flushQueue = <<>>
                     THEN "done" ELSE "waiting")
      /\ overtakes' = overtakes /\ outstanding' = outstanding /\ told' = told
      /\ flushQueue' = flushQueue /\ slotsUsed' = slotsUsed /\ slotQueue' = slotQueue /\ pump' = pump
  BY DEF Close, writerVars
<1>2. phase' \in [Callers -> Phases]
  BY <1>1, InvFacts DEF Phases
<1>3. /\ InPhase(phase', Waits) = {} /\ Holders(phase') = Holders(phase)
      /\ InPhase(phase', {"queued"}) = InPhase(phase, {"queued"})
      /\ InPhase(phase', {"ready"}) = InPhase(phase, {"ready"})
      /\ {c \in Callers : phase'[c] = "running"} = {c \in Callers : phase[c] = "running"}
      /\ InFlight(phase') = InFlight(phase)
  BY <1>1 DEF InPhase, Waits, Holders, InFlight
<1>4. LineOf(<<>>, {})
  BY LenProperties, EmptySeq DEF LineOf
<1>5. BooksInv'
  <2>1. /\ Books'.phase = phase' /\ Books'.parked = <<>>
        /\ Books'.overtakes = overtakes /\ Books'.outstanding = outstanding
    BY <1>1 DEF Books
  <2> QED
    BY <1>2, <1>3, <1>4, <2>1, InvFacts DEF BooksInv, BooksOK, HeadStays
<1>6. SlotsAreOwned'
  BY <1>1, <1>3 DEF FlushInv, WriterInv, SlotsAreOwned
<1>7. WriterInv'
  BY <1>1, <1>3, <1>6 DEF FlushInv, WriterInv, ClosedIsIdle
<1> QED
  BY <1>1, <1>5, <1>7 DEF FlushInv

LEMMA FlushStep == ASSUME FlushInv, [FlushNext]_flushVars PROVE FlushInv'
<1>1. CASE FlushNext
  <2>1. CASE Pump
    BY <2>1, PumpRestsKeeps, StartItemKeeps DEF Pump
  <2>2. CASE Close
    BY <2>2, CloseKeeps
  <2>3. ASSUME NEW c \in Callers, Reserve(c) \/ AbortParked(c)
        PROVE  FlushInv'
    BY <2>3, ReserveGrantsKeeps, ReserveOvertakesKeeps, ReserveParksKeeps, AbortParkedKeeps
       DEF Reserve
  <2>4. ASSUME NEW c \in Callers, LeaveHeld(c) \/ DeadlineRejects(c) \/ Hangs(c)
        PROVE  FlushInv'
    BY <2>4, GivenBackKeeps, SubmitKeeps, DeadlineRejectsKeeps, HangsKeeps DEF LeaveHeld
  <2>5. ASSUME NEW c \in Callers, Settle(c)
        PROVE  FlushInv'
    BY <2>5, PreparedKeeps, PrepareSettlesKeeps, RunSettlesKeeps DEF Settle
  <2> QED
    BY <1>1, <2>1, <2>2, <2>3, <2>4, <2>5 DEF FlushNext
<1>2. CASE UNCHANGED flushVars
  <2>1. /\ phase' = phase /\ UNCHANGED reserveVars /\ UNCHANGED <<writerVars, closing>>
        /\ told' = told
    BY <1>2 DEF flushVars, reserveVars, writerVars
  <2> QED
    BY <2>1, PhasesStay, WriterKept DEF FlushInv
<1> QED
  BY <1>1, <1>2

\* Along every behaviour the queues of the worker hold who waits in them, each
\* caller once, and its books balance: reserve, submit, pump and settle of
\* serial-flush-worker.ts.
THEOREM FlushInvAlways == FlushSpec => []FlushInv
BY InitKeeps, FlushStep, PTL DEF FlushSpec

\* Only callers of the worker hang.
LEMMA HungAreCallers == FlushSpec => [](hung \subseteq Callers)
<1>1. FlushInit => hung \subseteq Callers
  BY DEF FlushInit
<1>2. hung \subseteq Callers /\ [FlushNext]_flushVars => (hung \subseteq Callers)'
  <2> SUFFICES ASSUME hung \subseteq Callers, [FlushNext]_flushVars PROVE hung' \subseteq Callers
    OBVIOUS
  <2>1. CASE hung' = hung
    BY <2>1
  <2>2. CASE \E c \in Callers : Hangs(c)
    BY <2>2 DEF Hangs
  <2> QED
    BY <2>1, <2>2
       DEF FlushNext, flushVars, writerVars, Pump, PumpStops, PumpSleeps, StartItem, Close, Reserve,
           ReserveGrants, ReserveOvertakes, ReserveParks, AbortParked, LeaveHeld, Release, Submit,
           SubmitClosed, Settle, Prepared, PrepareSettles, RunSettles, DeadlineRejects
<1> QED
  BY <1>1, <1>2, PTL DEF FlushSpec

LEMMA FlushInvTyped == ASSUME FlushInv, hung \subseteq Callers PROVE FlushTypeOK
<1>1. phase \in [Callers -> Phases] /\ outstanding \in Int /\ overtakes \in 0..MaxOvertakes
  BY InvFacts
<1>2. parked \in Seq(Callers) /\ flushQueue \in Seq(Callers) /\ slotQueue \in Seq(Callers)
  BY InvFacts DEF FlushInv, WriterInv, LineOf
<1>3. slotsUsed \in Int
  BY RunningIsFinite
<1> QED
  BY <1>1, <1>2, <1>3 DEF FlushInv, WriterInv, FlushTypeOK, Phases

\* The variables of the flush worker keep their types.
THEOREM FlushTyped == FlushSpec => []FlushTypeOK
BY FlushInvAlways, HungAreCallers, FlushInvTyped, PTL

LEMMA InvBalances == ASSUME FlushInv PROVE FlushBooksBalance
BY InvFacts DEF FlushInv, WriterInv, FlushBooksBalance, WeightIsConserved, NoGrantMissed

\* The outstanding weight is what the holders weigh and stays within budget and
\* headroom, no grant is missed, slots have owners, and close() finds it idle.
THEOREM FlushBooksAlwaysBalance == FlushSpec => []FlushBooksBalance
BY FlushInvAlways, InvBalances, PTL
=============================================================================
