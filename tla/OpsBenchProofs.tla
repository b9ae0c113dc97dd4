--------------------------- MODULE OpsBenchProofs ---------------------------
(***************************************************************************)
(* Proofs about OpsBench, for every number of endpoints, every contents of *)
(* the nodes and every text on the command line: the types; an argument is *)
(* accepted exactly if it spells a value, and what is printed is read      *)
(* back; a report of query is a snapshot of the node; and query's exit     *)
(* status follows from the reports of all endpoints.                       *)
(***************************************************************************)
EXTENDS OpsBench, FiniteSetTheorems, SequenceTheorems, TLAPS

-----------------------------------------------------------------------------
(* Sorting, and the summary of a dump. *)

\* The elements of a concatenation.
LEMMA ConcatTrue ==
  ASSUME NEW S, NEW s \in Seq(S), NEW t \in Seq(S), NEW c, c = s \o t
  PROVE  /\ c \in Seq(S) /\ Len(c) = Len(s) + Len(t)
         /\ \A i \in 1 .. Len(s) : c[i] = s[i]
         /\ \A i \in 1 .. Len(t) : c[Len(s) + i] = t[i]
  <1>1. /\ c \in Seq(S) /\ Len(c) = Len(s) + Len(t)
        /\ \A i \in 1 .. Len(s) + Len(t) :
             c[i] = IF i <= Len(s) THEN s[i] ELSE t[i - Len(s)]
    BY ConcatProperties
  <1>2. Len(s) \in Nat /\ Len(t) \in Nat
    OBVIOUS
  <1>3. \A i \in 1 .. Len(s) : c[i] = s[i]
    BY <1>1, <1>2
  <1>4. ASSUME NEW i \in 1 .. Len(t) PROVE c[Len(s) + i] = t[i]
    <2>1. /\ Len(s) + i \in 1 .. Len(s) + Len(t) /\ ~(Len(s) + i <= Len(s))
          /\ Len(s) + i - Len(s) = i
      BY <1>2
    <2>. QED  BY <1>1, <2>1
  <1>. QED  BY <1>1, <1>3, <1>4

\* A sequence of a set's elements without repetition has all of them.
LEMMA SetToSeqsType ==
  ASSUME NEW S, IsFiniteSet(S), NEW o \in SetToSeqs(S)
  PROVE  /\ Cardinality(S) \in Nat /\ Len(o) = Cardinality(S)
         /\ o \in Seq(S) /\ DOMAIN o = 1 .. Cardinality(S)
         /\ \A k, l \in DOMAIN o : k # l => o[k] # o[l]
         /\ \A s \in S : \E k \in DOMAIN o : o[k] = s
  <1>. DEFINE n == Cardinality(S)
  <1>1. n \in Nat
    BY FS_CardinalityType
  <1>2. o \in [1 .. n -> S] /\ \A k, l \in 1 .. n : k # l => o[k] # o[l]
    BY DEF SetToSeqs
  <1>3. o \in Injection(1 .. n, S)
    BY <1>2 DEF Injection, IsInjective
  <1>4. Cardinality(1 .. n) = n
    BY <1>1, FS_Interval
  <1>5. o \in Surjection(1 .. n, S)
    BY <1>3, <1>4, FS_Injection
  <1>6. \A s \in S : \E k \in 1 .. n : o[k] = s
    BY <1>5 DEF Surjection
  <1>7. o \in Seq(S) /\ Len(o) = n
    BY <1>1, <1>2
  <1>. QED  BY <1>1, <1>2, <1>6, <1>7

\* R is a strict total order of S.
StrictOrder(R, S) ==
  /\ \A i \in S : <<i, i>> \notin R
  /\ \A i, j \in S : i # j => <<i, j>> \in R \/ <<j, i>> \in R
  /\ \A i, j, k \in S : <<i, j>> \in R /\ <<j, k>> \in R => <<i, k>> \in R

\* A finite set has a sequence in any strict total order of its elements: the
\* place of each is how many are not after it.
LEMMA OrderExists ==
  ASSUME NEW S, IsFiniteSet(S), NEW R, StrictOrder(R, S)
  PROVE  \E o \in SetToSeqs(S) :
           \A k, l \in DOMAIN o : k < l => <<o[k], o[l]>> \in R
  <1>. DEFINE n == Cardinality(S)
              Upto(i) == {j \in S : j = i \/ <<j, i>> \in R}
              rank == [i \in S |-> Cardinality(Upto(i))]
  <1>. USE DEF StrictOrder
  <1>1. n \in Nat /\ Cardinality(1 .. n) = n /\ IsFiniteSet(1 .. n)
    BY FS_CardinalityType, FS_Interval
  <1>2. \A i \in S : rank[i] \in 1 .. n
    <2>. TAKE i \in S
    <2>1. Upto(i) \in SUBSET S /\ Upto(i) # {}
      OBVIOUS
    <2>2. IsFiniteSet(Upto(i)) /\ Cardinality(Upto(i)) <= n
      BY <2>1, FS_Subset
    <2>3. Cardinality(Upto(i)) \in Nat /\ Cardinality(Upto(i)) # 0
      BY <2>1, <2>2, FS_EmptySet, FS_CardinalityType
    <2>. QED  BY <1>1, <2>2, <2>3
  <1>3. \A i, j \in S : <<i, j>> \in R => rank[i] < rank[j]
    <2>. SUFFICES ASSUME NEW i \in S, NEW j \in S, <<i, j>> \in R
                  PROVE  rank[i] < rank[j]
      OBVIOUS
    <2>1. Upto(i) \in SUBSET Upto(j) /\ j \in Upto(j) /\ j \notin Upto(i)
      OBVIOUS
    <2>2. IsFiniteSet(Upto(j))
      BY FS_Subset, Upto(j) \in SUBSET S
    <2>3. Cardinality(Upto(i)) <= Cardinality(Upto(j))
          /\ Cardinality(Upto(i)) # Cardinality(Upto(j))
      BY <2>1, <2>2, FS_Subset
    <2>. QED  BY <1>2, <2>3
  <1>. HIDE DEF rank
  <1>4. \A i, j \in S : rank[i] = rank[j] => i = j
    <2>. SUFFICES ASSUME NEW i \in S, NEW j \in S, rank[i] = rank[j], i # j
                  PROVE  FALSE
      OBVIOUS
    <2>1. rank[i] \in Nat /\ rank[j] \in Nat
      BY <1>1, <1>2
    <2>2. <<i, j>> \in R \/ <<j, i>> \in R
      OBVIOUS
    <2>3. rank[i] < rank[j] \/ rank[j] < rank[i]
      BY <1>3, <2>2
    <2>. QED  BY <2>1, <2>3
  <1>5. rank \in [S -> 1 .. n]
    BY <1>2 DEF rank
  <1>6. rank \in Surjection(S, 1 .. n)
    <2>1. rank \in Injection(S, 1 .. n)
      BY <1>4, <1>5 DEF Injection, IsInjective
    <2>. QED  BY <1>1, <2>1, FS_Injection
  <1>7. \A k \in 1 .. n : \E i \in S : rank[i] = k
    BY <1>6 DEF Surjection
  <1>. DEFINE o == [k \in 1 .. n |-> CHOOSE i \in S : rank[i] = k]
  <1>8. \A k \in 1 .. n : o[k] \in S /\ rank[o[k]] = k
    BY <1>7
  <1>9. o \in SetToSeqs(S)
    BY <1>8 DEF SetToSeqs
  <1>10. \A k, l \in 1 .. n : k < l => <<o[k], o[l]>> \in R
    <2>. SUFFICES ASSUME NEW k \in 1 .. n, NEW l \in 1 .. n, k < l
                  PROVE  <<o[k], o[l]>> \in R
      OBVIOUS
    <2>1. o[k] # o[l] /\ ~(rank[o[l]] < rank[o[k]])
      BY <1>8
    <2>. QED  BY <1>3, <1>8, <2>1
  <1>. QED  BY <1>9, <1>10

LEMMA DivMod ==
  ASSUME NEW a \in Nat, NEW h \in Nat \ {0}
  PROVE  /\ a = h * (a \div h) + (a % h)
         /\ a \div h \in Nat /\ a % h \in 0 .. h - 1
  OBVIOUS

\* The order of (expiry_secs, seq) is that of the expiries.
LEMMA SoonerTrue ==
  ASSUME NEW s \in Statements, NEW t \in Statements,
         ~Sooner(FromStatement(t), FromStatement(s))
  PROVE  s.expiry <= t.expiry
  <1>. DEFINE qs == s.expiry \div Half
              qt == t.expiry \div Half
              rs == s.expiry % Half
              rt == t.expiry % Half
  <1>1. s.expiry \in Nat /\ t.expiry \in Nat /\ Half \in Nat \ {0}
    BY StatementsAssumption, EndpointsAssumption
  <1>2. /\ s.expiry = Half * qs + rs /\ qs \in Nat /\ rs \in 0 .. Half - 1
        /\ t.expiry = Half * qt + rt /\ qt \in Nat /\ rt \in 0 .. Half - 1
    BY <1>1, DivMod
  <1>3. qs < qt \/ (qs = qt /\ rs <= rt)
    BY <1>2 DEF Sooner, FromStatement
  <1>. HIDE DEF qs, qt, rs, rt
  <1>4. CASE qs < qt
    <2>1. Half * qs + Half <= Half * qt
      BY <1>1, <1>2, <1>4
    <2>. QED  BY <1>1, <1>2, <2>1
  <1>. QED  BY <1>1, <1>2, <1>3, <1>4

\* What is sorted is what was decoded, at an order of its places.
LEMMA SortByExpiryTrue ==
  ASSUME NEW I, IsFiniteSet(I), I \subseteq Nat,
         NEW decoded \in [I -> StatementSummary]
  PROVE  \E o \in SetToSeqs(I) :
           /\ SortByExpiry(decoded) = [k \in DOMAIN o |-> decoded[o[k]]]
           /\ \A k, l \in DOMAIN o : k < l => ~Sooner(decoded[o[l]], decoded[o[k]])
  <1>. DEFINE Before(i, j) ==
                \/ Sooner(decoded[i], decoded[j])
                \/ ~Sooner(decoded[j], decoded[i]) /\ i < j
              R == {p \in I \X I : Before(p[1], p[2])}
              Sorted(o) == \A k, l \in DOMAIN o : k < l => Before(o[k], o[l])
  <1>1. \A i \in I : decoded[i].expirySecs \in Nat /\ decoded[i].seq \in Nat
    <2>1. \A i \in I : \E s \in Statements : decoded[i] = FromStatement(s)
      BY DEF StatementSummary
    <2>2. \A s \in Statements : s.expiry \div Half \in Nat /\ s.expiry % Half \in Nat
      <3>. TAKE s \in Statements
      <3>1. s.expiry \in Nat /\ Half \in Nat \ {0}
        BY StatementsAssumption, EndpointsAssumption
      <3>. QED  BY <3>1, DivMod
    <2>. QED  BY <2>1, <2>2 DEF FromStatement
  <1>2. \A i, j \in I : <<i, j>> \in R <=> Before(i, j)
    OBVIOUS
  <1>3. \A i \in I : ~Before(i, i)
    BY <1>1 DEF Sooner
  <1>4. \A i, j \in I : i # j => Before(i, j) \/ Before(j, i)
    BY <1>1 DEF Sooner
  <1>5. \A i, j, k \in I : Before(i, j) /\ Before(j, k) => Before(i, k)
    BY <1>1 DEF Sooner
  <1>6. \A i, j \in I : Before(i, j) => ~Sooner(decoded[j], decoded[i])
    BY <1>1 DEF Sooner
  <1>7. \E o \in SetToSeqs(I) : \A k, l \in DOMAIN o : k < l => <<o[k], o[l]>> \in R
    <2>1. \A i \in I : <<i, i>> \notin R
      BY <1>2, <1>3
    <2>2. \A i, j \in I : i # j => <<i, j>> \in R \/ <<j, i>> \in R
      BY <1>2, <1>4
    <2>3. \A i, j, k \in I : <<i, j>> \in R /\ <<j, k>> \in R => <<i, k>> \in R
      BY <1>2, <1>5
    <2>. HIDE DEF R
    <2>4. StrictOrder(R, I)
      BY <2>1, <2>2, <2>3 DEF StrictOrder
    <2>. QED  BY <2>4, OrderExists
  <1>8. \A o \in SetToSeqs(I) : \A k \in DOMAIN o : o[k] \in I
    BY SetToSeqsType
  <1>9. \E o \in SetToSeqs(I) : Sorted(o)
    BY <1>2, <1>7, <1>8
  <1>. DEFINE order == CHOOSE o \in SetToSeqs(I) : Sorted(o)
  <1>10. order \in SetToSeqs(I) /\ Sorted(order)
    BY <1>9
  <1>11. SortByExpiry(decoded) = [k \in DOMAIN order |-> decoded[order[k]]]
    BY DEF SortByExpiry
  <1>. HIDE DEF order
  <1>. QED  BY <1>6, <1>8, <1>10, <1>11

\* What becomes of a dump: a report of its own type ...
LEMMA SummaryType ==
  ASSUME NEW collected \in Seq(Statements)
  PROVE  Summary(collected) \in Report
  <1>. DEFINE I == {i \in DOMAIN collected : collected[i].decodable}
              decoded == [i \in I |-> FromStatement(collected[i])]
  <1>1. IsFiniteSet(DOMAIN collected) /\ I \subseteq Nat
    BY FS_Interval
  <1>2. IsFiniteSet(I) /\ Cardinality(DOMAIN collected \ I) \in Nat
    <2>1. IsFiniteSet(I) /\ IsFiniteSet(DOMAIN collected \ I)
      BY <1>1, FS_Subset
    <2>. QED  BY <2>1, FS_CardinalityType
  <1>3. decoded \in [I -> StatementSummary]
    BY DEF StatementSummary
  <1>4. PICK o \in SetToSeqs(I) :
          /\ SortByExpiry(decoded) = [k \in DOMAIN o |-> decoded[o[k]]]
          /\ \A k, l \in DOMAIN o : k < l => ~Sooner(decoded[o[l]], decoded[o[k]])
    <2>. HIDE DEF decoded, I
    <2>. QED  BY <1>1, <1>2, <1>3, SortByExpiryTrue
  <1>5. /\ Cardinality(I) \in Nat /\ DOMAIN o = 1 .. Cardinality(I)
        /\ \A k \in DOMAIN o : o[k] \in I
    BY <1>2, SetToSeqsType
  <1>6. SortByExpiry(decoded) \in Seq(StatementSummary)
    <2>. HIDE DEF decoded, I
    <2>. QED  BY <1>3, <1>4, <1>5
  <1>7. Summary(collected) =
          [statements |-> SortByExpiry(decoded),
           undecodable |-> Cardinality(DOMAIN collected \ I), error |-> FALSE]
    BY DEF Summary
  <1>. HIDE DEF decoded, I
  <1>. QED  BY <1>2, <1>6, <1>7 DEF Report

\* What a report lists, and what can be decoded.
Listed(report) == {report.statements[i].hash : i \in DOMAIN report.statements}
Readable(S) == {s \in S : s.decodable}

\* ... which lists, if no statement comes twice in it, each of those that can be
\* decoded once and in order of expiry, and counts the others.
LEMMA SummaryTrue ==
  ASSUME NEW collected \in Seq(Statements), NEW report,
         report = Summary(collected), IsInjective(collected)
  PROVE  /\ Listed(report) = Readable(Range(collected))
         /\ Cardinality(Listed(report)) = Len(report.statements)
         /\ \A i, j \in DOMAIN report.statements :
              i < j => report.statements[i].hash.expiry <=
                         report.statements[j].hash.expiry
         /\ report.undecodable =
              Cardinality(Range(collected) \ Readable(Range(collected)))
  <1>. DEFINE I == {i \in DOMAIN collected : collected[i].decodable}
              J == DOMAIN collected \ I
              decoded == [i \in I |-> FromStatement(collected[i])]
              all == {collected[k] : k \in DOMAIN collected}
              listed == {report.statements[i].hash : i \in DOMAIN report.statements}
              rest == all \ {s \in all : s.decodable}
  <1>1. IsFiniteSet(DOMAIN collected) /\ I \subseteq Nat
    BY FS_Interval
  <1>2. IsFiniteSet(I) /\ IsFiniteSet(J)
    BY <1>1, FS_Subset
  <1>3. decoded \in [I -> StatementSummary]
    BY DEF StatementSummary
  <1>4. PICK o \in SetToSeqs(I) :
          /\ SortByExpiry(decoded) = [k \in DOMAIN o |-> decoded[o[k]]]
          /\ \A k, l \in DOMAIN o : k < l => ~Sooner(decoded[o[l]], decoded[o[k]])
    <2>. HIDE DEF decoded, I
    <2>. QED  BY <1>1, <1>2, <1>3, SortByExpiryTrue
  <1>5. /\ Cardinality(I) \in Nat /\ DOMAIN o = 1 .. Cardinality(I)
        /\ \A k \in DOMAIN o : o[k] \in I
        /\ \A k, l \in DOMAIN o : k # l => o[k] # o[l]
        /\ \A i \in I : \E k \in DOMAIN o : o[k] = i
    <2>. HIDE DEF I
    <2>. QED  BY <1>2, SetToSeqsType
  <1>6. /\ report.statements = [k \in DOMAIN o |-> decoded[o[k]]]
        /\ report.undecodable = Cardinality(J)
    BY <1>4 DEF Summary
  <1>7. /\ DOMAIN report.statements = 1 .. Cardinality(I)
        /\ Len(report.statements) = Cardinality(I)
        /\ \A k \in DOMAIN o : /\ report.statements[k] = decoded[o[k]]
                               /\ report.statements[k].hash = collected[o[k]]
    <2>. HIDE DEF I
    <2>1. /\ DOMAIN report.statements = 1 .. Cardinality(I)
          /\ \A k \in DOMAIN o : report.statements[k] = decoded[o[k]]
      BY <1>5, <1>6
    <2>2. Len(report.statements) = Cardinality(I)
      BY <1>5, <1>6
    <2>3. \A i \in I : decoded[i].hash = collected[i]
      BY DEF FromStatement
    <2>. QED  BY <1>5, <2>1, <2>2, <2>3
  <1>8. listed = {collected[i] : i \in I}
    <2>. HIDE DEF I, decoded
    <2>1. \A x \in listed : \E i \in I : x = collected[i]
      BY <1>5, <1>7
    <2>2. \A i \in I : collected[i] \in listed
      BY <1>5, <1>7
    <2>. HIDE DEF listed
    <2>. QED  BY <2>1, <2>2
  <1>9. listed = {s \in all : s.decodable}
    BY <1>8
  <1>10. Cardinality(listed) = Cardinality(I)
    <2>. DEFINE f == [i \in I |-> collected[i]]
    <2>1. f \in Bijection(I, listed)
      BY <1>8 DEF Bijection, Injection, Surjection, IsInjective
    <2>. QED  BY <1>2, <2>1, FS_Bijection DEF ExistsBijection
  <1>11. Cardinality(rest) = Cardinality(J)
    <2>. DEFINE f == [i \in J |-> collected[i]]
    <2>1. f \in Bijection(J, rest)
      BY DEF Bijection, Injection, Surjection, IsInjective
    <2>. QED  BY <1>2, <2>1, FS_Bijection DEF ExistsBijection
  <1>12. \A i, j \in DOMAIN report.statements :
           i < j => report.statements[i].hash.expiry <=
                      report.statements[j].hash.expiry
    <2>. SUFFICES ASSUME NEW i \in DOMAIN o, NEW j \in DOMAIN o, i < j
                  PROVE  collected[o[i]].expiry <= collected[o[j]].expiry
      <3>. HIDE DEF I, decoded
      <3>1. DOMAIN report.statements = DOMAIN o
        BY <1>5, <1>7
      <3>. QED  BY <1>7, <3>1
    <2>1. o[i] \in I /\ o[j] \in I /\ ~Sooner(decoded[o[j]], decoded[o[i]])
      BY <1>4, <1>5
    <2>2. collected[o[i]] \in Statements /\ collected[o[j]] \in Statements
      BY <2>1
    <2>. QED  BY <2>1, <2>2, SoonerTrue
  <1>13. /\ Range(collected) = all /\ Listed(report) = listed
         /\ Range(collected) \ Readable(Range(collected)) = rest
         /\ Readable(Range(collected)) = {s \in all : s.decodable}
    BY DEF Range, Listed, Readable
  <1>. HIDE DEF listed, rest, all, I, J
  <1>. QED  BY <1>6, <1>7, <1>9, <1>10, <1>11, <1>12, <1>13

-----------------------------------------------------------------------------
(* Digits. *)

LowerDigits == Decimal \o LowerCase
AllDigits == LowerDigits \o UpperCase

LEMMA DigitsTrue ==
  /\ DOMAIN LowerDigits = 1 .. 16 /\ DOMAIN AllDigits = 1 .. 22
  /\ \A i \in 1 .. 10 : LowerDigits[i] = Decimal[i] /\ AllDigits[i] = Decimal[i]
  /\ \A i \in 1 .. 6 : /\ LowerDigits[10 + i] = LowerCase[i]
                       /\ AllDigits[10 + i] = LowerCase[i]
                       /\ AllDigits[16 + i] = UpperCase[i]
  <1>. DEFINE S == {"0", "1", "2", "3", "4", "5", "6", "7", "8", "9", "a", "b", "c",
                    "d", "e", "f", "A", "B", "C", "D", "E", "F"}
  <1>1. Decimal \in Seq(S) /\ LowerCase \in Seq(S) /\ UpperCase \in Seq(S)
    BY DEF Decimal, LowerCase, UpperCase
  <1>2. Len(Decimal) = 10 /\ Len(LowerCase) = 6 /\ Len(UpperCase) = 6
    BY DEF Decimal, LowerCase, UpperCase
  <1>3. LowerDigits = Decimal \o LowerCase /\ AllDigits = LowerDigits \o UpperCase
    BY DEF LowerDigits, AllDigits
  <1>. HIDE DEF S
  <1>4. /\ LowerDigits \in Seq(S) /\ Len(LowerDigits) = 16
        /\ \A i \in 1 .. 10 : LowerDigits[i] = Decimal[i]
        /\ \A i \in 1 .. 6 : LowerDigits[10 + i] = LowerCase[i]
    <2>1. /\ LowerDigits \in Seq(S) /\ Len(LowerDigits) = Len(Decimal) + Len(LowerCase)
          /\ \A i \in 1 .. Len(Decimal) : LowerDigits[i] = Decimal[i]
          /\ \A i \in 1 .. Len(LowerCase) : LowerDigits[Len(Decimal) + i] = LowerCase[i]
      BY <1>1, <1>3, ConcatTrue
    <2>. QED  BY <1>2, <2>1
  <1>5. /\ AllDigits \in Seq(S) /\ Len(AllDigits) = 22
        /\ \A i \in 1 .. 16 : AllDigits[i] = LowerDigits[i]
        /\ \A i \in 1 .. 6 : AllDigits[16 + i] = UpperCase[i]
    <2>1. LowerDigits \in Seq(S)
      BY <1>4
    <2>2. /\ AllDigits \in Seq(S) /\ Len(AllDigits) = Len(LowerDigits) + Len(UpperCase)
          /\ \A i \in 1 .. Len(LowerDigits) : AllDigits[i] = LowerDigits[i]
          /\ \A i \in 1 .. Len(UpperCase) : AllDigits[Len(LowerDigits) + i] = UpperCase[i]
      BY <1>1, <1>3, <2>1, ConcatTrue
    <2>. QED  BY <1>2, <1>4, <2>2
  <1>6. DOMAIN LowerDigits = 1 .. 16 /\ DOMAIN AllDigits = 1 .. 22
    BY <1>4, <1>5
  <1>7. \A i \in 1 .. 10 : AllDigits[i] = Decimal[i]
    BY <1>4, <1>5
  <1>8. \A i \in 1 .. 6 : AllDigits[10 + i] = LowerCase[i]
    <2>1. \A i \in 1 .. 6 : 10 + i \in 1 .. 16
      OBVIOUS
    <2>. QED  BY <1>4, <1>5, <2>1
  <1>. QED  BY <1>4, <1>5, <1>6, <1>7, <1>8

\* At which place a digit is.
LEMMA PositionTrue ==
  ASSUME NEW n \in Nat, NEW digits, DOMAIN digits = 1 .. n,
         \A i, j \in 1 .. n : digits[i] = digits[j] => i = j,
         NEW i \in 1 .. n
  PROVE  PositionIn(digits[i], digits) = i
  BY DEF PositionIn

LEMMA DecimalTrue ==
  ASSUME NEW i \in 1 .. 10
  PROVE  /\ DOMAIN Decimal = 1 .. 10 /\ PositionIn(Decimal[i], Decimal) = i
         /\ Decimal[i] \in ToSet(Decimal)
  <1>1. DOMAIN Decimal = 1 .. 10
    BY DEF Decimal
  <1>2. \A j, k \in 1 .. 10 : Decimal[j] = Decimal[k] => j = k
    BY DEF Decimal
  <1>. QED  BY <1>1, <1>2, PositionTrue DEF ToSet

LEMMA LettersTrue ==
  ASSUME NEW i \in 1 .. 6
  PROVE  /\ DOMAIN LowerCase = 1 .. 6 /\ PositionIn(LowerCase[i], LowerCase) = i
         /\ LowerCase[i] \in ToSet(LowerCase)
         /\ DOMAIN UpperCase = 1 .. 6 /\ PositionIn(UpperCase[i], UpperCase) = i
         /\ UpperCase[i] \in ToSet(UpperCase)
  <1>1. DOMAIN LowerCase = 1 .. 6 /\ DOMAIN UpperCase = 1 .. 6
    BY DEF LowerCase, UpperCase
  <1>2. \A j, k \in 1 .. 6 : LowerCase[j] = LowerCase[k] => j = k
    BY DEF LowerCase
  <1>3. \A j, k \in 1 .. 6 : UpperCase[j] = UpperCase[k] => j = k
    BY DEF UpperCase
  <1>. QED  BY <1>1, <1>2, <1>3, PositionTrue DEF ToSet

\* No digit is of two kinds.
LEMMA KindsTrue ==
  /\ ToSet(LowerCase) \cap ToSet(Decimal) = {}
  /\ ToSet(UpperCase) \cap ToSet(Decimal) = {}
  /\ ToSet(UpperCase) \cap ToSet(LowerCase) = {}
  BY DEF Decimal, LowerCase, UpperCase, ToSet

LEMMA HexNibbleTrue ==
  /\ \A i \in 1 .. 10 : HexNibble(Decimal[i]) = i - 1
  /\ \A i \in 1 .. 6 : HexNibble(LowerCase[i]) = i + 9
  /\ \A i \in 1 .. 6 : HexNibble(UpperCase[i]) = i + 9
  <1>1. ASSUME NEW i \in 1 .. 10 PROVE HexNibble(Decimal[i]) = i - 1
    BY DecimalTrue DEF HexNibble
  <1>2. ASSUME NEW i \in 1 .. 6 PROVE HexNibble(LowerCase[i]) = i + 9
    <2>1. LowerCase[i] \in ToSet(LowerCase) /\ LowerCase[i] \notin ToSet(Decimal)
      BY LettersTrue, KindsTrue
    <2>. QED  BY <2>1, LettersTrue DEF HexNibble
  <1>3. ASSUME NEW i \in 1 .. 6 PROVE HexNibble(UpperCase[i]) = i + 9
    <2>1. UpperCase[i] \notin ToSet(LowerCase) \cup ToSet(Decimal)
      BY LettersTrue, KindsTrue
    <2>. QED  BY <2>1, LettersTrue DEF HexNibble
  <1>. QED  BY <1>1, <1>2, <1>3

LEMMA HexDigitTrue ==
  ASSUME NEW c
  PROVE  c \in HexDigit <=>
           \/ \E i \in 1 .. 10 : c = Decimal[i]
           \/ \E i \in 1 .. 6 : c = LowerCase[i] \/ c = UpperCase[i]
  <1>1. c \in HexDigit <=> \E i \in 1 .. 22 : c = AllDigits[i]
    <2>1. HexDigit = ToSet(AllDigits)
      BY DEF HexDigit, AllDigits, LowerDigits
    <2>. QED  BY <2>1, DigitsTrue DEF ToSet
  <1>2. \A i \in 1 .. 22 : \/ i \in 1 .. 10
                           \/ i - 10 \in 1 .. 6 /\ i = 10 + (i - 10)
                           \/ i - 16 \in 1 .. 6 /\ i = 16 + (i - 16)
    OBVIOUS
  <1>3. \A i \in 1 .. 6 : 10 + i \in 1 .. 22 /\ 16 + i \in 1 .. 22
    OBVIOUS
  <1>4. ASSUME c \in HexDigit
        PROVE  \/ \E i \in 1 .. 10 : c = Decimal[i]
               \/ \E i \in 1 .. 6 : c = LowerCase[i] \/ c = UpperCase[i]
    <2>1. PICK i \in 1 .. 22 : c = AllDigits[i]
      BY <1>1, <1>4
    <2>. QED  BY <1>2, <2>1, DigitsTrue
  <1>5. ASSUME \/ \E i \in 1 .. 10 : c = Decimal[i]
               \/ \E i \in 1 .. 6 : c = LowerCase[i] \/ c = UpperCase[i]
        PROVE  c \in HexDigit
    BY <1>1, <1>3, <1>5, DigitsTrue
  <1>. QED  BY <1>4, <1>5

LEMMA HexNibbleType ==
  ASSUME NEW c \in HexDigit
  PROVE  HexNibble(c) \in 0 .. 15
  BY HexDigitTrue, HexNibbleTrue

\* A parser returns bytes, if anything.
LEMMA HexBytesType ==
  ASSUME NEW body, DOMAIN body = 1 .. Len(body)
  PROVE  HexBytes(body) \in Option([1 .. Bytes -> 0 .. 255])
  <1>. DEFINE value == [i \in 1 .. Bytes |->
                          16 * HexNibble(body[2 * i - 1]) + HexNibble(body[2 * i])]
  <1>. SUFFICES ASSUME Len(body) = 2 * Bytes, ToSet(body) \subseteq HexDigit
                PROVE  value \in [1 .. Bytes -> 0 .. 255]
    BY DEF HexBytes, Option
  <1>1. Bytes \in Nat
    BY BytesAssumption
  <1>2. \A i \in 1 .. 2 * Bytes : HexNibble(body[i]) \in 0 .. 15
    BY <1>1, HexNibbleType DEF ToSet
  <1>3. \A i \in 1 .. Bytes : 2 * i - 1 \in 1 .. 2 * Bytes /\ 2 * i \in 1 .. 2 * Bytes
    BY <1>1
  <1>4. ASSUME NEW i \in 1 .. Bytes
        PROVE  16 * HexNibble(body[2 * i - 1]) + HexNibble(body[2 * i]) \in 0 .. 255
    <2>1. HexNibble(body[2 * i - 1]) \in 0 .. 15 /\ HexNibble(body[2 * i]) \in 0 .. 15
      BY <1>2, <1>3
    <2>2. \A m, n \in 0 .. 15 : 16 * m + n \in 0 .. 255
      OBVIOUS
    <2>. QED  BY <2>1, <2>2
  <1>. QED  BY <1>4

-----------------------------------------------------------------------------
(* The parsers. *)

\* A set of naturals has a least element, and a bounded one a greatest.
LEMMA LeastNatural ==
  ASSUME NEW S \in SUBSET Nat, S # {}
  PROVE  \E m \in S : \A k \in S : m <= k
  <1>1. PICK m \in S : \A k \in S : ~(<<k, m>> \in OpToRel(<, Nat))
    BY NatLessThanWellFounded, WFMin, Zenon
  <1>2. \A k \in S : ~(k < m)
    BY <1>1, Zenon DEF OpToRel
  <1>. QED  BY <1>2

LEMMA MinMaxTrue ==
  ASSUME NEW n \in Nat, NEW S \in SUBSET (1 .. n), S # {}
  PROVE  /\ Min(S) \in S /\ \A s \in S : Min(S) <= s
         /\ Max(S) \in S /\ \A s \in S : s <= Max(S)
  <1>. DEFINE T == {n - s : s \in S}
  <1>1. T \in SUBSET Nat /\ T # {}
    BY \A s \in S : n - s \in Nat
  <1>2. PICK t \in T : \A u \in T : t <= u
    BY <1>1, LeastNatural
  <1>3. PICK s \in S : t = n - s
    BY <1>2
  <1>4. \A r \in S : s >= r
    <2>1. \A r \in S : t <= n - r
      BY <1>2
    <2>. QED  BY <1>3, <2>1
  <1>5. \E m \in S : \A k \in S : m <= k
    BY LeastNatural
  <1>. QED  BY <1>4, <1>5 DEF Max, Min

LEMMA PrefixTrue ==
  ASSUME NEW C, NEW t \in Seq(C), NEW a, NEW b
  PROVE  IsPrefix(<<a, b>>, t) <=> Len(t) >= 2 /\ t[1] = a /\ t[2] = b
  <1>. DEFINE D == C \cup {a, b}
              p == SubSeq(<<a, b>>, 1, 2)
              q == SubSeq(t, 1, 2)
  <1>1. Len(<<a, b>>) = 2
    OBVIOUS
  <1>2. CASE Len(t) >= 2
    <2>1. p \in Seq(D) /\ Len(p) = 2 /\ p[1] = a /\ p[2] = b
      <3>1. \A i \in 1 .. 2 : <<a, b>>[i] \in D
        OBVIOUS
      <3>. QED  BY <3>1
    <2>2. q \in Seq(D) /\ Len(q) = 2 /\ q[1] = t[1] /\ q[2] = t[2]
      <3>1. \A i \in 1 .. 2 : t[i] \in D
        BY <1>2
      <3>. QED  BY <1>2, <3>1
    <2>3. IsPrefix(<<a, b>>, t) <=> p = q
      BY <1>1, <1>2 DEF IsPrefix
    <2>. HIDE DEF p, q
    <2>4. p = q <=> p[1] = q[1] /\ p[2] = q[2]
      BY <2>1, <2>2
    <2>. QED  BY <1>2, <2>1, <2>2, <2>3, <2>4
  <1>3. CASE ~(Len(t) >= 2)
    BY <1>1, <1>3 DEF IsPrefix
  <1>. QED  BY <1>2, <1>3

LEMMA HasPrefixTrue ==
  ASSUME NEW C, NEW t \in Seq(C)
  PROVE  HasPrefix(t) <=> Len(t) >= 2 /\ t[1] = "0" /\ t[2] \in {"x", "X"}
  BY PrefixTrue DEF HasPrefix, Prefixes0x

\* The elements of a part.
LEMMA SubSeqTrue ==
  ASSUME NEW C, NEW t \in Seq(C), NEW m \in Nat \ {0}, NEW n \in Nat,
         m <= n + 1, n <= Len(t), NEW c, c = SubSeq(t, m, n)
  PROVE  /\ c \in Seq(C) /\ Len(c) = n - m + 1
         /\ \A i \in 1 .. n - m + 1 : c[i] = t[m + i - 1]
  <1>1. m \in Int /\ n \in Int /\ \A i \in m .. n : t[i] \in C
    OBVIOUS
  <1>2. /\ c \in Seq(C) /\ Len(c) = IF m <= n THEN n - m + 1 ELSE 0
        /\ \A i \in 1 .. n - m + 1 : c[i] = t[m + i - 1]
    BY <1>1, SubSeqProperties
  <1>. QED  BY <1>1, <1>2

LEMMA WithoutPrefixTrue ==
  ASSUME NEW C, NEW t \in Seq(C)
  PROVE  /\ WithoutPrefix(t) \in Seq(C)
         /\ ~HasPrefix(t) => WithoutPrefix(t) = t
         /\ HasPrefix(t) =>
              /\ Len(WithoutPrefix(t)) = Len(t) - 2
              /\ \A i \in 1 .. Len(t) - 2 : WithoutPrefix(t)[i] = t[2 + i]
  <1>1. CASE HasPrefix(t)
    <2>. DEFINE c == WithoutPrefix(t)
    <2>1. c = SubSeq(t, 3, Len(t)) /\ Len(t) >= 2 /\ Len(t) \in Nat
      BY <1>1, HasPrefixTrue DEF WithoutPrefix
    <2>. HIDE DEF c
    <2>2. /\ c \in Seq(C) /\ Len(c) = Len(t) - 3 + 1
          /\ \A i \in 1 .. Len(t) - 3 + 1 : c[i] = t[3 + i - 1]
      <3>. DEFINE m == 3
      <3>1. /\ m \in Nat \ {0} /\ Len(t) \in Nat /\ m <= Len(t) + 1
            /\ Len(t) <= Len(t) /\ c = SubSeq(t, m, Len(t))
        BY <2>1
      <3>. HIDE DEF m
      <3>2. /\ c \in Seq(C) /\ Len(c) = Len(t) - m + 1
            /\ \A i \in 1 .. Len(t) - m + 1 : c[i] = t[m + i - 1]
        BY <3>1, SubSeqTrue
      <3>. QED  BY <3>2 DEF m
    <2>3. \A i \in 1 .. Len(t) - 2 : i \in 1 .. Len(t) - 3 + 1 /\ 3 + i - 1 = 2 + i
      BY <2>1
    <2>4. Len(c) = Len(t) - 2 /\ \A i \in 1 .. Len(t) - 2 : c[i] = t[2 + i]
      BY <2>1, <2>2, <2>3
    <2>. QED  BY <1>1, <2>2, <2>4 DEF c
  <1>2. CASE ~HasPrefix(t)
    BY <1>2 DEF WithoutPrefix
  <1>. QED  BY <1>1, <1>2

\* Trim takes a part of a text, and a text without blanks as it is.
LEMMA TrimTrue ==
  ASSUME NEW C, NEW t \in Seq(C)
  PROVE  /\ Trim(t) \in Seq(C)
         /\ (\A i \in DOMAIN t : t[i] # " ") => Trim(t) = t
  <1>. DEFINE visible == {i \in DOMAIN t : t[i] # " "}
  <1>t. Len(t) \in Nat /\ DOMAIN t = 1 .. Len(t)
    OBVIOUS
  <1>1. CASE visible = {}
    <2>1. Trim(t) = <<>>
      BY <1>1 DEF Trim
    <2>2. ASSUME \A i \in DOMAIN t : t[i] # " " PROVE t = <<>>
      <3>1. 1 .. Len(t) = {}
        BY <1>1, <1>t, <2>2
      <3>2. Len(t) = 0
        BY <1>t, <3>1
      <3>. QED  BY <3>2
    <2>3. <<>> \in Seq(C)
      OBVIOUS
    <2>. QED  BY <2>1, <2>2, <2>3
  <1>2. CASE visible # {}
    <2>1. Trim(t) = SubSeq(t, Min(visible), Max(visible))
      BY <1>2 DEF Trim
    <2>2. Len(t) \in Nat /\ DOMAIN t = 1 .. Len(t) /\ visible \in SUBSET (1 .. Len(t))
      BY <1>t
    <2>3. /\ Min(visible) \in visible /\ \A i \in visible : Min(visible) <= i
          /\ Max(visible) \in visible /\ \A i \in visible : i <= Max(visible)
      <3>. HIDE DEF visible
      <3>. QED  BY <1>2, <2>2, MinMaxTrue
    <2>4. SubSeq(t, Min(visible), Max(visible)) \in Seq(C)
      <3>1. Min(visible) \in 1 .. Len(t) /\ Max(visible) \in 1 .. Len(t)
        BY <2>2, <2>3
      <3>. HIDE DEF visible
      <3>2. \A i \in Min(visible) .. Max(visible) : t[i] \in C
        BY <2>2, <3>1
      <3>. QED  BY <3>1, <3>2, SubSeqProperties
    <2>5. ASSUME \A i \in DOMAIN t : t[i] # " " PROVE Trim(t) = t
      <3>1. visible = 1 .. Len(t)
        BY <2>2, <2>5
      <3>. HIDE DEF visible
      <3>2. 1 \in visible /\ Len(t) \in visible
        BY <1>2, <2>2, <3>1
      <3>3. Min(visible) = 1 /\ Max(visible) = Len(t)
        BY <2>2, <2>3, <3>1, <3>2
      <3>. QED  BY <2>1, <3>3, SubSeqFull
    <2>. QED  BY <2>1, <2>4, <2>5
  <1>. QED  BY <1>1, <1>2

-----------------------------------------------------------------------------
(* What is printed and what is read. *)

LEMMA ByteTrue ==
  /\ \A b \in 0 .. 255 : /\ b \div 16 \in 0 .. 15 /\ b % 16 \in 0 .. 15
                         /\ b = 16 * (b \div 16) + (b % 16)
  /\ \A m, n \in 0 .. 15 : (16 * m + n) \div 16 = m /\ (16 * m + n) % 16 = n
  OBVIOUS

LEMMA PairsTrue ==
  /\ \A k \in 1 .. Bytes :
       /\ 2 * k - 1 \in 1 .. 2 * Bytes /\ 2 * k \in 1 .. 2 * Bytes
       /\ (2 * k - 1) % 2 = 1 /\ (2 * k - 1 + 1) \div 2 = k
       /\ (2 * k) % 2 = 0 /\ (2 * k + 1) \div 2 = k
  /\ \A i \in 1 .. 2 * Bytes : \E k \in 1 .. Bytes : i = 2 * k - 1 \/ i = 2 * k
  <1>1. Bytes \in Nat
    BY BytesAssumption
  <1>2. ASSUME NEW i \in 1 .. 2 * Bytes
        PROVE  \E k \in 1 .. Bytes : i = 2 * k - 1 \/ i = 2 * k
    <2>1. (i + 1) \div 2 \in 1 .. Bytes
      BY <1>1
    <2>2. i = 2 * ((i + 1) \div 2) - 1 \/ i = 2 * ((i + 1) \div 2)
      BY <1>1
    <2>. QED  BY <2>1, <2>2
  <1>3. ASSUME NEW k \in 1 .. Bytes
        PROVE  /\ 2 * k - 1 \in 1 .. 2 * Bytes /\ 2 * k \in 1 .. 2 * Bytes
               /\ (2 * k - 1) % 2 = 1 /\ (2 * k - 1 + 1) \div 2 = k
               /\ (2 * k) % 2 = 0 /\ (2 * k + 1) \div 2 = k
    BY <1>1
  <1>. QED  BY <1>2, <1>3

\* A digit in either case is one of the same value.
LEMMA SameDigitTrue ==
  ASSUME NEW c, NEW n \in 0 .. 15
  PROVE  SameDigit(c, LowerDigits[1 + n]) <=> c \in HexDigit /\ HexNibble(c) = n
  <1>. DEFINE d == LowerDigits[1 + n]
  <1>1. CASE n < 10
    <2>1. n + 1 \in 1 .. 10 /\ d = Decimal[n + 1]
      BY <1>1, DigitsTrue
    <2>2. d \in HexDigit /\ HexNibble(d) = n
      BY <2>1, HexDigitTrue, HexNibbleTrue
    <2>3. \A i \in 1 .. 6 : LowerCase[i] # d /\ UpperCase[i] # d
      BY <2>1, DecimalTrue, LettersTrue, KindsTrue
    <2>. HIDE DEF d
    <2>4. SameDigit(c, d) <=> c = d
      BY <2>2, <2>3 DEF SameDigit
    <2>5. ASSUME c \in HexDigit, HexNibble(c) = n PROVE c = d
      <3>1. CASE \E i \in 1 .. 10 : c = Decimal[i]
        BY <1>1, <2>1, <2>5, <3>1, HexNibbleTrue
      <3>2. CASE \E i \in 1 .. 6 : c = LowerCase[i] \/ c = UpperCase[i]
        BY <1>1, <2>5, <3>2, HexNibbleTrue
      <3>. QED  BY <2>5, <3>1, <3>2, HexDigitTrue
    <2>. QED  BY <2>2, <2>4, <2>5 DEF d
  <1>2. CASE ~(n < 10)
    <2>. DEFINE k == n - 9
    <2>1. k \in 1 .. 6 /\ d = LowerCase[k] /\ n = k + 9
      <3>1. k \in 1 .. 6 /\ 1 + n = 10 + k /\ n = k + 9
        BY <1>2
      <3>. QED  BY <3>1, DigitsTrue
    <2>. HIDE DEF k
    <2>2. d \in HexDigit /\ HexNibble(d) = n
      BY <2>1, HexDigitTrue, HexNibbleTrue
    <2>3. \A i \in 1 .. 6 : UpperCase[i] # d /\ (LowerCase[i] = d => i = k)
      BY <2>1, LettersTrue, KindsTrue
    <2>4. UpperCase[k] \in HexDigit /\ HexNibble(UpperCase[k]) = n
      BY <2>1, HexDigitTrue, HexNibbleTrue
    <2>. HIDE DEF d
    <2>5. SameDigit(c, d) <=> c = d \/ c = UpperCase[k]
      <3>1. ASSUME NEW i \in 1 .. 6, {c, d} = {LowerCase[i], UpperCase[i]}
            PROVE  c = UpperCase[k]
        BY <2>3, <3>1
      <3>2. c = UpperCase[k] => {c, d} = {LowerCase[k], UpperCase[k]}
        BY <2>1
      <3>. QED  BY <2>1, <2>4, <3>1, <3>2 DEF SameDigit
    <2>6. ASSUME c \in HexDigit, HexNibble(c) = n PROVE c = d \/ c = UpperCase[k]
      <3>1. CASE \E i \in 1 .. 10 : c = Decimal[i]
        BY <1>2, <2>6, <3>1, HexNibbleTrue
      <3>2. CASE \E i \in 1 .. 6 : c = LowerCase[i] \/ c = UpperCase[i]
        BY <2>1, <2>6, <3>2, HexNibbleTrue
      <3>. QED  BY <2>6, <3>1, <3>2, HexDigitTrue
    <2>. QED  BY <2>2, <2>4, <2>5, <2>6 DEF d
  <1>. QED  BY <1>1, <1>2

\* hex_full prints two digits for each byte.
LEMMA HexFullTrue ==
  ASSUME NEW value \in [1 .. Bytes -> 0 .. 255]
  PROVE  /\ HexFull(value) \in Seq(HexDigit) /\ Len(HexFull(value)) = 2 * Bytes
         /\ \A k \in 1 .. Bytes :
              /\ HexFull(value)[2 * k - 1] = LowerDigits[1 + value[k] \div 16]
              /\ HexFull(value)[2 * k] = LowerDigits[1 + (value[k] % 16)]
  <1>. DEFINE full == HexFull(value)
  <1>0. 2 * Bytes \in Nat
    BY BytesAssumption
  <1>1. /\ DOMAIN full = 1 .. 2 * Bytes
        /\ \A i \in 1 .. 2 * Bytes :
             full[i] = LowerDigits[1 + IF i % 2 = 1 THEN value[(i + 1) \div 2] \div 16
                                       ELSE value[(i + 1) \div 2] % 16]
    BY DEF HexFull, LowerDigits
  <1>2. full = [i \in 1 .. 2 * Bytes |-> full[i]]
    BY DEF HexFull
  <1>. HIDE DEF full
  <1>3. ASSUME NEW k \in 1 .. Bytes
        PROVE  /\ full[2 * k - 1] = LowerDigits[1 + value[k] \div 16]
               /\ full[2 * k] = LowerDigits[1 + (value[k] % 16)]
    <2>1. full[2 * k - 1] = LowerDigits[1 + value[k] \div 16]
      BY <1>1, PairsTrue
    <2>2. full[2 * k] = LowerDigits[1 + (value[k] % 16)]
      <3>. DEFINE i == 2 * k
      <3>1. i \in 1 .. 2 * Bytes /\ i % 2 = 0 /\ (i + 1) \div 2 = k
        BY PairsTrue
      <3>. HIDE DEF i
      <3>2. full[i] = LowerDigits[1 + (value[k] % 16)]
        BY <1>1, <3>1
      <3>. QED  BY <3>2 DEF i
    <2>. QED  BY <2>1, <2>2
  <1>4. \A n \in 0 .. 15 : LowerDigits[1 + n] \in HexDigit
    BY SameDigitTrue DEF SameDigit
  <1>5. \A k \in 1 .. Bytes : full[2 * k - 1] \in HexDigit /\ full[2 * k] \in HexDigit
    <2>. TAKE k \in 1 .. Bytes
    <2>. DEFINE m == value[k] \div 16
                n == value[k] % 16
    <2>1. /\ m \in 0 .. 15 /\ n \in 0 .. 15
          /\ full[2 * k - 1] = LowerDigits[1 + m] /\ full[2 * k] = LowerDigits[1 + n]
      BY <1>3, ByteTrue
    <2>. HIDE DEF m, n
    <2>. QED  BY <1>4, <2>1
  <1>6. \A i \in 1 .. 2 * Bytes : full[i] \in HexDigit
    BY <1>5, PairsTrue
  <1>7. full \in Seq(HexDigit) /\ Len(full) = 2 * Bytes
    BY <1>0, <1>2, <1>6
  <1>. QED  BY <1>3, <1>7 DEF full

\* The loop over pairs reads what hex_full prints, in either case.
LEMMA ReadsTrue ==
  ASSUME NEW C, NEW body \in Seq(C), NEW value \in [1 .. Bytes -> 0 .. 255]
  PROVE  HexBytes(body) = <<value>> <=>
           /\ Len(body) = 2 * Bytes
           /\ \A i \in 1 .. 2 * Bytes : SameDigit(body[i], HexFull(value)[i])
  <1>. DEFINE read == [i \in 1 .. Bytes |->
                         16 * HexNibble(body[2 * i - 1]) + HexNibble(body[2 * i])]
              Same == \A i \in 1 .. 2 * Bytes : SameDigit(body[i], HexFull(value)[i])
              Digits == \A i \in 1 .. 2 * Bytes : body[i] \in HexDigit
  <1>1. CASE Len(body) # 2 * Bytes
    BY <1>1 DEF HexBytes
  <1>2. CASE Len(body) = 2 * Bytes
    <2>1. ToSet(body) \subseteq HexDigit <=> Digits
      BY <1>2 DEF ToSet
    <2>2. HexBytes(body) = <<value>> <=> Digits /\ read = value
      BY <1>2, <2>1 DEF HexBytes
    <2>3. \A k \in 1 .. Bytes :
            /\ SameDigit(body[2 * k - 1], HexFull(value)[2 * k - 1]) <=>
                 body[2 * k - 1] \in HexDigit
                   /\ HexNibble(body[2 * k - 1]) = value[k] \div 16
            /\ SameDigit(body[2 * k], HexFull(value)[2 * k]) <=>
                 body[2 * k] \in HexDigit /\ HexNibble(body[2 * k]) = value[k] % 16
      <3>. TAKE k \in 1 .. Bytes
      <3>. DEFINE m == value[k] \div 16
                  n == value[k] % 16
                  full == HexFull(value)
      <3>1. /\ m \in 0 .. 15 /\ n \in 0 .. 15
            /\ full[2 * k - 1] = LowerDigits[1 + m] /\ full[2 * k] = LowerDigits[1 + n]
        BY ByteTrue, HexFullTrue
      <3>. HIDE DEF m, n, full
      <3>2. /\ SameDigit(body[2 * k - 1], full[2 * k - 1]) <=>
                 body[2 * k - 1] \in HexDigit /\ HexNibble(body[2 * k - 1]) = m
            /\ SameDigit(body[2 * k], full[2 * k]) <=>
                 body[2 * k] \in HexDigit /\ HexNibble(body[2 * k]) = n
        BY <3>1, SameDigitTrue
      <3>. QED  BY <3>2 DEF m, n, full
    <2>4. Same <=> /\ Digits
                   /\ \A k \in 1 .. Bytes :
                        /\ HexNibble(body[2 * k - 1]) = value[k] \div 16
                        /\ HexNibble(body[2 * k]) = value[k] % 16
      BY <2>3, PairsTrue
    <2>5. ASSUME Digits
          PROVE  read = value <=>
                   \A k \in 1 .. Bytes :
                     /\ HexNibble(body[2 * k - 1]) = value[k] \div 16
                     /\ HexNibble(body[2 * k]) = value[k] % 16
      <3>1. ASSUME NEW k \in 1 .. Bytes
            PROVE  read[k] = value[k] <=>
                     /\ HexNibble(body[2 * k - 1]) = value[k] \div 16
                     /\ HexNibble(body[2 * k]) = value[k] % 16
        <4>1. /\ HexNibble(body[2 * k - 1]) \in 0 .. 15
              /\ HexNibble(body[2 * k]) \in 0 .. 15
          BY <2>5, PairsTrue, HexNibbleType
        <4>. DEFINE m == HexNibble(body[2 * k - 1])
                    n == HexNibble(body[2 * k])
                    b == value[k]
        <4>2. read[k] = 16 * m + n /\ m \in 0 .. 15 /\ n \in 0 .. 15 /\ b \in 0 .. 255
          BY <4>1
        <4>. HIDE DEF m, n, b, read
        <4>3. read[k] = b <=> m = b \div 16 /\ n = b % 16
          BY <4>2, ByteTrue
        <4>. QED  BY <4>3 DEF m, n, b
      <3>2. read = value <=> \A k \in 1 .. Bytes : read[k] = value[k]
        OBVIOUS
      <3>. HIDE DEF read
      <3>. QED  BY <3>1, <3>2
    <2>. QED  BY <1>2, <2>2, <2>4, <2>5
  <1>. QED  BY <1>1, <1>2

\* A topic is accepted exactly if the text spells it (parse_topic_hex).
THEOREM ParseTopicTrue ==
  ASSUME NEW C, NEW t \in Seq(C), NEW value \in [1 .. Bytes -> 0 .. 255]
  PROVE  ParseTopicHex(t) = <<value>> <=> Spells(t, value)
  <1>. DEFINE full == HexFull(value)
              body == WithoutPrefix(t)
              From(n) == /\ Len(t) = n + 2 * Bytes
                         /\ \A i \in 1 .. 2 * Bytes : SameDigit(t[n + i], full[i])
  <1>1. Len(t) \in Nat /\ 2 * Bytes \in Nat /\ 2 * Bytes >= 2
    BY BytesAssumption
  <1>2. body \in Seq(C)
    BY WithoutPrefixTrue
  <1>3. ParseTopicHex(t) = <<value>> <=>
          /\ Len(body) = 2 * Bytes
          /\ \A i \in 1 .. 2 * Bytes : SameDigit(body[i], full[i])
    BY <1>2, ReadsTrue DEF ParseTopicHex
  <1>4. Spells(t, value) <=> (HasPrefix(t) /\ From(2)) \/ From(0)
    <2>1. \A p \in Prefixes0x : Len(p) = 2
      BY DEF Prefixes0x
    <2>2. Len(<<>>) = 0 /\ IsPrefix(<<>>, t)
      BY <1>1 DEF IsPrefix
    <2>3. Spells(t, value) <=>
            \/ \E p \in Prefixes0x : IsPrefix(p, t) /\ From(Len(p))
            \/ IsPrefix(<<>>, t) /\ From(Len(<<>>))
      BY DEF Spells
    <2>. HIDE DEF From
    <2>. QED  BY <2>1, <2>2, <2>3 DEF HasPrefix
  <1>5. ASSUME HasPrefix(t) PROVE ~From(0)
    <2>1. t[2] = "x" \/ t[2] = "X"
      BY <1>5, HasPrefixTrue
    <2>2. t[2] \notin HexDigit
      BY <2>1 DEF HexDigit, ToSet, Decimal, LowerCase, UpperCase
    <2>3. full[2] \in HexDigit
      BY <1>1, HexFullTrue
    <2>4. ~SameDigit(t[2], full[2])
      BY <2>2, <2>3 DEF SameDigit
    <2>5. 2 \in 1 .. 2 * Bytes /\ 0 + 2 = 2
      BY <1>1
    <2>. HIDE DEF full
    <2>. QED  BY <2>4, <2>5
  <1>6. CASE HasPrefix(t)
    <2>1. Len(body) = Len(t) - 2 /\ \A i \in 1 .. Len(t) - 2 : body[i] = t[2 + i]
      BY <1>6, WithoutPrefixTrue
    <2>. HIDE DEF body, full
    <2>2. From(2) <=> /\ Len(body) = 2 * Bytes
                      /\ \A i \in 1 .. 2 * Bytes : SameDigit(body[i], full[i])
      BY <1>1, <2>1
    <2>. QED  BY <1>3, <1>4, <1>5, <1>6, <2>2
  <1>7. CASE ~HasPrefix(t)
    <2>1. body = t
      BY <1>7, WithoutPrefixTrue
    <2>. HIDE DEF body, full
    <2>2. From(0) <=> /\ Len(body) = 2 * Bytes
                      /\ \A i \in 1 .. 2 * Bytes : SameDigit(body[i], full[i])
      BY <1>1, <2>1
    <2>. QED  BY <1>3, <1>4, <1>7, <2>2
  <1>. QED  BY <1>6, <1>7

\* An account is accepted exactly if the text, less blanks, spells it or is its
\* address (parse_account): an address is neither prefixed nor hex.
THEOREM ParseAccountTrue ==
  ASSUME NEW C, NEW t \in Seq(C), NEW value \in [1 .. Bytes -> 0 .. 255]
  PROVE  ParseAccount(t) = <<value>> <=>
           Spells(Trim(t), value) \/ FromSs58(Trim(t)) = <<value>>
  <1>. DEFINE u == Trim(t)
              Hex == \/ HasPrefix(u)
                     \/ /\ Len(WithoutPrefix(u)) = 2 * Bytes
                        /\ ToSet(WithoutPrefix(u)) \subseteq HexDigit
  <1>1. u \in Seq(C)
    BY TrimTrue
  <1>2. ParseAccount(t) = IF Hex THEN ParseTopicHex(u) ELSE FromSs58(u)
    BY DEF ParseAccount, ParseTopicHex
  <1>. HIDE DEF u
  <1>3. ParseTopicHex(u) = <<value>> <=> Spells(u, value)
    BY <1>1, ParseTopicTrue
  <1>4. ASSUME Hex PROVE FromSs58(u) # <<value>>
    <2>1. ASSUME u = Address PROVE FALSE
      <3>1. Len(u) = 3 /\ u[1] = "g"
        BY <2>1 DEF Address
      <3>2. ~HasPrefix(u)
        BY <1>1, <3>1, HasPrefixTrue
      <3>3. "g" \in ToSet(u)
        BY <1>1, <3>1 DEF ToSet
      <3>4. "g" \notin HexDigit
        BY DEF HexDigit, ToSet, Decimal, LowerCase, UpperCase
      <3>. QED  BY <1>1, <1>4, <3>2, <3>3, <3>4, WithoutPrefixTrue
    <2>. QED  BY <2>1 DEF FromSs58
  <1>5. ASSUME ~Hex PROVE ParseTopicHex(u) # <<value>>
    BY <1>5 DEF ParseTopicHex, HexBytes
  <1>. QED  BY <1>2, <1>3, <1>4, <1>5 DEF u

\* What the tools print of a value (hex_full) is read back as that value, by
\* parse_topic_hex and by parse_account.
THEOREM HexFullReadBack ==
  ASSUME NEW value \in [1 .. Bytes -> 0 .. 255]
  PROVE  /\ ParseTopicHex(HexFull(value)) = <<value>>
         /\ ParseAccount(HexFull(value)) = <<value>>
  <1>. DEFINE full == HexFull(value)
  <1>1. full \in Seq(HexDigit) /\ Len(full) = 2 * Bytes
    BY HexFullTrue
  <1>2. Spells(full, value)
    <2>1. IsPrefix(<<>>, full) /\ Len(<<>>) = 0
      BY <1>1 DEF IsPrefix
    <2>2. \A i \in 1 .. 2 * Bytes : SameDigit(full[0 + i], full[i])
      BY DEF SameDigit
    <2>3. Len(full) = 0 + 2 * Bytes
      BY <1>1, BytesAssumption
    <2>. QED  BY <2>1, <2>2, <2>3 DEF Spells
  <1>. HIDE DEF full
  <1>3. Trim(full) = full
    <2>. DEFINE S == {"0", "1", "2", "3", "4", "5", "6", "7", "8", "9", "a", "b", "c",
                      "d", "e", "f", "A", "B", "C", "D", "E", "F"}
    <2>1. \A i \in 1 .. 10 : Decimal[i] \in S
      BY DEF Decimal
    <2>2. \A i \in 1 .. 6 : LowerCase[i] \in S /\ UpperCase[i] \in S
      BY DEF LowerCase, UpperCase
    <2>3. " " \notin HexDigit
      <3>. DEFINE blank == " "
      <3>1. blank \notin S
        BY Zenon
      <3>. HIDE DEF S, blank
      <3>2. blank \notin HexDigit
        BY <2>1, <2>2, <3>1, HexDigitTrue
      <3>. QED  BY <3>2 DEF blank
    <2>4. \A i \in DOMAIN full : full[i] \in HexDigit
      BY <1>1
    <2>5. \A i \in DOMAIN full : full[i] # " "
      BY <2>3, <2>4
    <2>. QED  BY <1>1, <2>5, TrimTrue
  <1>. QED  BY <1>1, <1>2, <1>3, ParseTopicTrue, ParseAccountTrue DEF full

LEMMA ParsersType ==
  ASSUME NEW C, NEW t \in Seq(C)
  PROVE  /\ ParseTopicHex(t) \in Option([1 .. Bytes -> 0 .. 255])
         /\ ParseAccount(t) \in Option([1 .. Bytes -> 0 .. 255])
  <1>1. \A u \in Seq(C) : ParseTopicHex(u) \in Option([1 .. Bytes -> 0 .. 255])
    <2>. TAKE u \in Seq(C)
    <2>1. WithoutPrefix(u) \in Seq(C)
      BY WithoutPrefixTrue
    <2>2. DOMAIN WithoutPrefix(u) = 1 .. Len(WithoutPrefix(u))
      BY <2>1
    <2>. QED  BY <2>2, HexBytesType DEF ParseTopicHex
  <1>2. \A u : FromSs58(u) \in Option([1 .. Bytes -> 0 .. 255])
    <2>1. [i \in 1 .. Bytes |-> 1] \in [1 .. Bytes -> 0 .. 255]
      OBVIOUS
    <2>. QED  BY <2>1 DEF FromSs58, Option
  <1>3. Trim(t) \in Seq(C)
    BY TrimTrue
  <1>4. ParseAccount(t) \in {ParseTopicHex(Trim(t)), FromSs58(Trim(t))}
    BY DEF ParseAccount, ParseTopicHex
  <1>. QED  BY <1>1, <1>2, <1>3, <1>4

\* A password saved with or without a newline is itself.
LEMMA StripSuffixTrue ==
  ASSUME NEW C, NEW word \in Seq(C), NEW c \in C
  PROVE  StripSuffix(Append(word, c), c) = word
  <1>. DEFINE t == Append(word, c)
  <1>1. /\ t \in Seq(C) /\ Len(t) = Len(word) + 1 /\ t # <<>> /\ t[Len(t)] = c
        /\ Len(word) \in Nat /\ \A i \in 1 .. Len(word) : t[i] = word[i]
    OBVIOUS
  <1>. HIDE DEF t
  <1>2. StripSuffix(t, c) = SubSeq(t, 1, Len(word))
    <2>1. StripSuffix(t, c) = SubSeq(t, 1, Len(t) - 1)
      BY <1>1 DEF StripSuffix, Last, Front
    <2>. QED  BY <1>1, <2>1
  <1>3. /\ SubSeq(t, 1, Len(word)) \in Seq(C) /\ Len(SubSeq(t, 1, Len(word))) = Len(word)
        /\ \A i \in 1 .. Len(word) : SubSeq(t, 1, Len(word))[i] = t[i]
    BY <1>1
  <1>. QED  BY <1>1, <1>2, <1>3 DEF t

LEMMA PasswordFilesAreTrue == PasswordFilesTrue
  <1>. DEFINE C == {"p", " ", "\n", "\r"}
  <1>0. "\n" \in C /\ "\r" \in C
    OBVIOUS
  <1>. SUFFICES ASSUME NEW k \in 0 .. 3, NEW word \in [1 .. k -> C]
                PROVE  LosesOneNewline(word)
    BY DEF PasswordFilesTrue, NewlinesStripped
  <1>. HIDE DEF C
  <1>1. word \in Seq(C) /\ "\n" \in C /\ "\r" \in C
    BY <1>0
  <1>2. /\ ~EndsIn(word, {"\n", "\r"}) => /\ StripSuffix(word, "\n") = word
                                          /\ StripSuffix(word, "\r") = word
        /\ ~EndsIn(word, {"\r"}) => StripSuffix(word, "\r") = word
    BY DEF StripSuffix, EndsIn
  <1>3. /\ word \o <<"\n">> = Append(word, "\n")
        /\ word \o <<"\r">> = Append(word, "\r")
        /\ word \o <<"\r", "\n">> = Append(Append(word, "\r"), "\n")
    BY <1>1
  <1>4. ASSUME ~EndsIn(word, {"\n", "\r"}) PROVE StripNewline(word) = word
    BY <1>2, <1>4 DEF StripNewline
  <1>5. ASSUME ~EndsIn(word, {"\r"}) PROVE StripNewline(Append(word, "\n")) = word
    BY <1>1, <1>2, <1>5, StripSuffixTrue DEF StripNewline
  <1>6. Append(word, "\r") \in Seq(C) /\ Last(Append(word, "\r")) = "\r"
    BY <1>1 DEF Last
  <1>7. StripNewline(Append(Append(word, "\r"), "\n")) = word
    BY <1>1, <1>6, StripSuffixTrue DEF StripNewline
  <1>8. StripNewline(Append(word, "\r")) = word
    <2>1. StripSuffix(Append(word, "\r"), "\n") = Append(word, "\r")
      BY <1>6 DEF StripSuffix
    <2>. QED  BY <1>1, <2>1, StripSuffixTrue DEF StripNewline
  <1>. QED  BY <1>3, <1>4, <1>5, <1>7, <1>8 DEF LosesOneNewline

-----------------------------------------------------------------------------
(* The way to the exit. *)

\* Reports are a sequence, of whatever the summaries are.
ReportsInv == \E R : perEndpoint \in Seq(R)

\* Who gets where: query has neither a seed nor a run of its own, and nobody
\* else gets to an endpoint.
PathInv ==
  /\ command = "query" => pc \notin {"seed", "run"}
  /\ pc \in {"subscribe", "dump"} =>
       command = "query" /\ Len(perEndpoint) < Endpoints
  /\ perEndpoint # <<>> =>
       command = "query" /\ pc \in {"subscribe", "dump", "exited"}

\* With what query ends: before its first report with a failure, after it with
\* a report of every endpoint and the status that follows from them.
EndInv ==
  command = "query" /\ pc = "exited" =>
    IF perEndpoint = <<>> THEN exit # "success"
    ELSE /\ Len(perEndpoint) = Endpoints
         /\ exit = IF AllFailed(perEndpoint) THEN "failure" ELSE "success"

IndInv == ReportsInv /\ PathInv /\ EndInv

LEMMA IndInit == Init => IndInv
  <1>1. <<>> \in Seq({})
    OBVIOUS
  <1>. QED  BY <1>1 DEF Init, IndInv, ReportsInv, PathInv, EndInv

\* The steps up to the command leave the reports alone, which are empty then.
LEMMA IndBeforeRun ==
  ASSUME IndInv, Parse \/ ParseSeed \/ Connect \/ Validate \/ RunCommand
  PROVE  IndInv'
  <1>. USE DEF IndInv, ReportsInv, PathInv, EndInv, BeforeRun, Goto, Return
  <1>e. perEndpoint = <<>> /\ UNCHANGED <<command, perEndpoint>>
    BY DEF Parse, ParseSeed, Connect, Validate, RunCommand
  <1>l. Len(perEndpoint) = 0 /\ Endpoints > 0
    BY <1>e, EndpointsAssumption
  <1>1. CASE Parse
    BY <1>1, <1>e, <1>l DEF Parse
  <1>2. CASE ParseSeed
    BY <1>2, <1>e, <1>l DEF ParseSeed
  <1>3. CASE Connect
    BY <1>3, <1>e, <1>l DEF Connect, AfterConnect
  <1>4. CASE Validate
    BY <1>4, <1>e, <1>l, EndpointsAssumption DEF Validate
  <1>5. CASE RunCommand
    BY <1>5, <1>e, <1>l DEF RunCommand
  <1>. QED  BY <1>1, <1>2, <1>3, <1>4, <1>5

\* A report, whatever is in it, is one more; the last one decides the status.
LEMMA IndEndQuery ==
  ASSUME IndInv, pc \in {"subscribe", "dump"}, NEW report, EndQuery(report)
  PROVE  IndInv'
  <1>1. PICK R : perEndpoint \in Seq(R)
    BY DEF IndInv, ReportsInv
  <1>. DEFINE S == R \cup {report}
  <1>2. perEndpoint \in Seq(S) /\ perEndpoint' = Append(perEndpoint, report)
    BY <1>1 DEF EndQuery
  <1>3. /\ perEndpoint' \in Seq(S) /\ perEndpoint' # <<>>
        /\ Len(perEndpoint') = Len(perEndpoint) + 1
        /\ Len(perEndpoint) \in Nat
    BY <1>2
  <1>4. /\ command = "query" /\ command' = command
        /\ Len(perEndpoint) < Endpoints /\ Endpoints \in Nat
    BY EndpointsAssumption DEF IndInv, PathInv, EndQuery, Frame, argVars
  <1>5. CASE Len(perEndpoint') < Endpoints
    BY <1>3, <1>4, <1>5
       DEF EndQuery, Goto, IndInv, ReportsInv, PathInv, EndInv
  <1>6. CASE ~(Len(perEndpoint') < Endpoints)
    <2>1. Len(perEndpoint') = Endpoints
      BY <1>3, <1>4, <1>6
    <2>2. /\ pc' = "exited"
          /\ exit' = IF AllFailed(perEndpoint') THEN "failure" ELSE "success"
      BY <1>6 DEF EndQuery, Return
    <2>3. EndInv'
      BY <1>3, <2>1, <2>2 DEF EndInv, AllFailed
    <2>. QED  BY <1>3, <1>4, <2>1, <2>2, <2>3 DEF IndInv, ReportsInv, PathInv
  <1>. QED  BY <1>5, <1>6

LEMMA IndStep == IndInv /\ [Next]_vars => IndInv'
  <1>. SUFFICES ASSUME IndInv, [Next]_vars PROVE IndInv'
    OBVIOUS
  <1>f. ASSUME UNCHANGED <<command, pc, exit, perEndpoint>> PROVE IndInv'
    BY <1>f DEF IndInv, ReportsInv, PathInv, EndInv, AllFailed
  <1>u. CASE UNCHANGED vars
    BY <1>f, <1>u DEF vars, argVars
  <1>1. CASE Parse \/ ParseSeed \/ Connect \/ Validate \/ RunCommand
    BY <1>1, IndBeforeRun
  <1>2. CASE Subscribe
    BY <1>2 DEF Subscribe, Goto, Frame, argVars, IndInv, ReportsInv, PathInv,
                EndInv
  <1>3. CASE SubscribeFails
    BY <1>3, IndEndQuery DEF SubscribeFails
  <1>4. CASE ReadDump
    <2>1. CASE Head(stream).remaining
      BY <1>4, <2>1, <1>f DEF ReadDump, Frame, argVars
    <2>2. CASE ~Head(stream).remaining
      BY <1>4, <2>2, IndEndQuery DEF ReadDump
    <2>. QED  BY <2>1, <2>2
  <1>5. CASE ReadFails
    BY <1>5, IndEndQuery DEF ReadFails
  <1>6. CASE PushDump \/ PushLive
    BY <1>6, <1>f DEF PushDump, PushLive, NodeFrame, argVars
  <1>. QED  BY <1>u, <1>1, <1>2, <1>3, <1>4, <1>5, <1>6 DEF Next, Bench, Node

\* Once it is connected and valid, query reports every endpoint, and fails only
\* if all of them have failed.
THEOREM ExitIsTrue == Spec => []ExitTrue
  <1>1. IndInv => ExitTrue
    <2>. SUFFICES ASSUME IndInv, command = "query", pc = "exited",
                         exit = "success" \/ perEndpoint # <<>>
                  PROVE  /\ Len(perEndpoint) = Endpoints
                         /\ (exit = "failure") <=>
                              \A i \in 1 .. Endpoints : perEndpoint[i].error
      BY DEF ExitTrue
    <2>1. /\ perEndpoint # <<>> /\ Len(perEndpoint) = Endpoints
          /\ exit = IF AllFailed(perEndpoint) THEN "failure" ELSE "success"
      BY DEF IndInv, EndInv
    <2>2. DOMAIN perEndpoint = 1 .. Endpoints
      BY <2>1 DEF IndInv, ReportsInv
    <2>3. (exit = "failure") <=> AllFailed(perEndpoint)
      BY <2>1
    <2>4. AllFailed(perEndpoint) <=> \A i \in 1 .. Endpoints : perEndpoint[i].error
      BY <2>1, <2>2 DEF AllFailed
    <2>. QED  BY <2>1, <2>3, <2>4
  <1>. QED  BY <1>1, IndInit, IndStep, PTL DEF Spec

-----------------------------------------------------------------------------
(* Types. *)

Values == [1 .. Bytes -> 0 .. 255]

ArgType == command \in Command /\ text \in Option(Texts) /\ topic \in Option(Values)

PcType == pc \in Location /\ exit \in Exit /\ (exit = "running" <=> pc # "exited")

\* There is room for what is still to be connected.
ConnectType ==
  /\ connected \in 0 .. 2 * Endpoints
  /\ pc \in {"parse", "seed"} => connected = 0
  /\ pc = "validate" /\ command = "loop" => connected = 0
  /\ pc = "connect" => connected < ToConnect

ReportsType == perEndpoint \in Seq(Report) /\ Len(perEndpoint) <= Endpoints

\* A subscription is open while its dump is read.
NodeType ==
  /\ dump \in Seq(Statements) /\ stream \in Seq(Event)
  /\ opened \subseteq Statements /\ toDump \subseteq opened
  /\ opened \cap arrived = {} /\ dumping \in BOOLEAN /\ lost \in BOOLEAN
  /\ pc # "dump" =>
       /\ dump = <<>> /\ stream = <<>> /\ opened = {} /\ arrived = {}
       /\ toDump = {} /\ ~dumping /\ ~lost

TypeInv == ArgType /\ PcType /\ ConnectType /\ ReportsType /\ NodeType

LEMMA OptionType ==
  ASSUME NEW S, NEW option \in Option(S)
  PROVE  Len(option) <= 1 /\ \A i \in DOMAIN option : option[i] \in S
  <1>1. CASE option = <<>>
    <2>1. Len(option) = 0 /\ DOMAIN option = {}
      BY <1>1
    <2>. QED  BY <2>1
  <1>2. CASE \E x \in S : option = <<x>>
    <2>1. PICK x \in S : option = <<x>>
      BY <1>2
    <2>2. Len(option) = 1 /\ DOMAIN option = 1 .. 1 /\ option[1] = x
      BY <2>1
    <2>. QED  BY <2>2
  <1>. QED  BY <1>1, <1>2 DEF Option

LEMMA TypeInvTypeOK == TypeInv => TypeOK
  <1>. SUFFICES ASSUME TypeInv PROVE TypeOK
    OBVIOUS
  <1>1. command \in Command /\ Len(text) <= 1
    BY OptionType DEF TypeInv, ArgType
  <1>2. Len(topic) <= 1 /\ \A i \in DOMAIN topic : topic[i] \in [1 .. Bytes -> 0 .. 255]
    BY OptionType DEF TypeInv, ArgType, Values
  <1>3. (exit = "running") = (pc # "exited")
    BY DEF TypeInv, PcType
  <1>. QED
    BY <1>1, <1>2, <1>3
       DEF TypeOK, TypeInv, PcType, ConnectType, ReportsType, NodeType

LEMMA TypeInit == Init => TypeInv
  <1>. SUFFICES ASSUME Init PROVE TypeInv
    OBVIOUS
  <1>1. ArgType
    BY DEF Init, ArgType, Option
  <1>2. PcType
    BY DEF Init, PcType, Location, Exit
  <1>3. ConnectType
    BY EndpointsAssumption DEF Init, ConnectType
  <1>4. ReportsType
    BY EndpointsAssumption DEF Init, ReportsType
  <1>5. NodeType
    <2>1. /\ dump = <<>> /\ stream = <<>> /\ opened = {} /\ arrived = {} /\ toDump = {}
          /\ dump \in Seq(Statements) /\ stream \in Seq(Event)
      BY DEF Init
    <2>2. ~dumping /\ ~lost /\ dumping \in BOOLEAN /\ lost \in BOOLEAN
      BY Zenon DEF Init
    <2>. QED  BY <2>1, <2>2 DEF NodeType
  <1>. QED  BY <1>1, <1>2, <1>3, <1>4, <1>5 DEF TypeInv

\* The steps up to the command.
LEMMA TypeBeforeRun ==
  ASSUME TypeInv, IndInv, Parse \/ ParseSeed \/ Connect \/ Validate \/ RunCommand
  PROVE  TypeInv'
  <1>. USE DEF BeforeRun, Goto, Return
  <1>1. command \in Command /\ UNCHANGED <<command, perEndpoint, dump, nodeVars>>
    BY DEF Parse, ParseSeed, Connect, Validate, RunCommand, TypeInv, ArgType
  <1>2. pc # "dump" /\ pc' # "dump" /\ pc \in Location /\ pc' \in Location
    <2>1. CASE Parse
      BY <2>1 DEF Parse, Location
    <2>2. CASE ParseSeed
      BY <2>2 DEF ParseSeed, Location
    <2>3. CASE Connect
      BY <2>3 DEF Connect, AfterConnect, Location
    <2>4. CASE Validate
      BY <2>4 DEF Validate, Location
    <2>5. CASE RunCommand
      BY <2>5 DEF RunCommand, Location
    <2>. QED  BY <2>1, <2>2, <2>3, <2>4, <2>5
  <1>3. ArgType'
    <2>1. CASE Parse
      <3>1. text' = <<>> /\ topic' \in Option(Values)
        <4>1. CASE text = <<>>
          BY <2>1, <4>1 DEF Parse, Option
        <4>2. CASE text # <<>>
          <5>1. text[1] \in Seq(STRING)
            BY <4>2, TextsAssumption DEF TypeInv, ArgType, Option
          <5>2. topic' \in {ParseAccount(text[1]), ParseTopicHex(text[1])}
            BY <2>1, <4>2 DEF Parse
          <5>. QED  BY <2>1, <5>1, <5>2, ParsersType DEF Parse, Values
        <4>. QED  BY <4>1, <4>2
      <3>. QED  BY <1>1, <3>1 DEF ArgType, Option
    <2>2. CASE ~Parse
      BY <1>1, <2>2
         DEF ParseSeed, Connect, Validate, RunCommand, TypeInv, ArgType
    <2>. QED  BY <2>1, <2>2
  <1>4. PcType'
    <2>1. CASE Parse
      BY <1>2, <2>1 DEF Parse, TypeInv, PcType, Exit
    <2>2. CASE ParseSeed
      BY <1>2, <2>2 DEF ParseSeed, TypeInv, PcType, Exit
    <2>3. CASE Connect
      BY <1>2, <2>3 DEF Connect, AfterConnect, TypeInv, PcType, Exit
    <2>4. CASE Validate
      BY <1>2, <2>4 DEF Validate, TypeInv, PcType, Exit
    <2>5. CASE RunCommand
      BY <1>2, <2>5 DEF RunCommand, TypeInv, PcType, Exit
    <2>. QED  BY <2>1, <2>2, <2>3, <2>4, <2>5
  <1>5. ConnectType'
    <2>0. /\ Endpoints \in Nat \ {0} /\ ToConnect \in 1 .. 2 * Endpoints
          /\ ToConnect' = ToConnect /\ ConnectType
      BY <1>1, EndpointsAssumption DEF ToConnect, TypeInv
    <2>1. CASE Parse
      BY <1>1, <2>0, <2>1 DEF Parse, ConnectType
    <2>2. CASE ParseSeed
      BY <1>1, <2>0, <2>2 DEF ParseSeed, ConnectType
    <2>3. CASE Connect
      BY <1>1, <2>0, <2>3 DEF Connect, Reaches, AfterConnect, ConnectType
    <2>4. CASE Validate
      BY <1>1, <2>0, <2>4 DEF Validate, ConnectType
    <2>5. CASE RunCommand
      BY <1>1, <2>0, <2>5 DEF RunCommand, ConnectType
    <2>. QED  BY <2>1, <2>2, <2>3, <2>4, <2>5
  <1>6. ReportsType'
    BY <1>1 DEF TypeInv, ReportsType
  <1>7. NodeType'
    BY <1>1, <1>2 DEF TypeInv, NodeType, nodeVars
  <1>. QED  BY <1>3, <1>4, <1>5, <1>6, <1>7 DEF TypeInv

\* The end of one endpoint's query.
LEMMA TypeEndQuery ==
  ASSUME TypeInv, IndInv, pc \in {"subscribe", "dump"},
         NEW report \in Report, EndQuery(report)
  PROVE  TypeInv'
  <1>1. UNCHANGED <<command, text, topic, connected>>
    BY DEF EndQuery, Frame, argVars
  <1>2. pc' \in {"subscribe", "exited"} /\ PcType'
    BY DEF EndQuery, Goto, Return, TypeInv, PcType, Location, Exit
  <1>3. ArgType' /\ ConnectType'
    BY <1>1, <1>2 DEF TypeInv, ArgType, ConnectType, ToConnect
  <1>4. ReportsType'
    <2>1. /\ perEndpoint \in Seq(Report) /\ Len(perEndpoint) < Endpoints
          /\ perEndpoint' = Append(perEndpoint, report) /\ Endpoints \in Nat
      BY EndpointsAssumption DEF TypeInv, ReportsType, IndInv, PathInv, EndQuery
    <2>. QED  BY <2>1 DEF ReportsType
  <1>5. NodeType'
    <2>1. /\ dump' = <<>> /\ stream' = <<>> /\ opened' = {} /\ arrived' = {}
          /\ toDump' = {} /\ dump' \in Seq(Statements) /\ stream' \in Seq(Event)
      BY DEF EndQuery
    <2>2. ~dumping' /\ ~lost' /\ dumping' \in BOOLEAN /\ lost' \in BOOLEAN
      BY Zenon DEF EndQuery
    <2>. QED  BY <2>1, <2>2 DEF NodeType
  <1>. QED  BY <1>2, <1>3, <1>4, <1>5 DEF TypeInv

LEMMA FailedType == Failed \in Report
  BY DEF Failed, Report

\* What has been collected once an event is read.
LEMMA CollectedType ==
  ASSUME TypeInv, stream # <<>>
  PROVE  /\ Head(stream) \in Event /\ Tail(stream) \in Seq(Event)
         /\ dump \o Head(stream).statements \in Seq(Statements)
  <1>1. Head(stream) \in Event /\ Tail(stream) \in Seq(Event) /\ dump \in Seq(Statements)
    BY DEF TypeInv, NodeType
  <1>2. Head(stream).statements \in Seq(Statements)
    BY <1>1 DEF Event
  <1>. QED  BY <1>1, <1>2, ConcatProperties

LEMMA PushType ==
  ASSUME TypeInv, NEW event \in Event, Push(event)
  PROVE  stream' \in Seq(Event) /\ lost' \in BOOLEAN
  <1>t. stream \in Seq(Event) /\ lost \in BOOLEAN
    BY DEF TypeInv, NodeType
  <1>1. CASE stream' = Append(stream, event) /\ UNCHANGED lost
    BY <1>1, <1>t
  <1>2. CASE lost' = TRUE /\ UNCHANGED stream
    BY <1>2, <1>t
  <1>. QED  BY <1>1, <1>2 DEF Push

LEMMA TypeStep == TypeInv /\ IndInv /\ [Next]_vars => TypeInv'
  <1>. SUFFICES ASSUME TypeInv, IndInv, [Next]_vars PROVE TypeInv'
    OBVIOUS
  <1>f. ASSUME UNCHANGED <<command, text, topic, pc, exit, connected, perEndpoint>>,
               NodeType'
        PROVE  TypeInv'
    BY <1>f DEF TypeInv, ArgType, PcType, ConnectType, ToConnect, ReportsType
  <1>u. CASE UNCHANGED vars
    <2>1. NodeType'
      BY <1>u DEF vars, nodeVars, TypeInv, NodeType
    <2>. QED  BY <1>f, <1>u, <2>1 DEF vars, argVars
  <1>1. CASE Parse \/ ParseSeed \/ Connect \/ Validate \/ RunCommand
    BY <1>1, TypeBeforeRun
  <1>2. CASE Subscribe
    <2>1. UNCHANGED <<command, text, topic, exit, connected, perEndpoint>>
      BY <1>2 DEF Subscribe, Goto, Frame, argVars
    <2>2. pc' = "dump" /\ pc = "subscribe"
      BY <1>2 DEF Subscribe, Goto
    <2>3. ArgType' /\ PcType' /\ ConnectType' /\ ReportsType'
      BY <2>1, <2>2
         DEF TypeInv, ArgType, PcType, ConnectType, ToConnect, ReportsType, Location
    <2>4. NodeType'
      BY <1>2, <2>2 DEF Subscribe, Matching, TypeInv, NodeType
    <2>. QED  BY <2>3, <2>4 DEF TypeInv
  <1>3. CASE SubscribeFails
    BY <1>3, TypeEndQuery, FailedType DEF SubscribeFails
  <1>4. CASE ReadDump
    <2>1. stream # <<>> /\ pc = "dump"
      BY <1>4 DEF ReadDump
    <2>2. CASE Head(stream).remaining
      <3>1. /\ dump' = dump \o Head(stream).statements /\ stream' = Tail(stream)
            /\ UNCHANGED <<command, text, topic, pc, exit, connected, perEndpoint,
                           opened, arrived, toDump, dumping, lost>>
        BY <1>4, <2>2 DEF ReadDump, Frame, argVars
      <3>2. dump' \in Seq(Statements) /\ stream' \in Seq(Event)
        BY <2>1, <3>1, CollectedType
      <3>3. NodeType'
        BY <2>1, <3>1, <3>2 DEF TypeInv, NodeType
      <3>. QED  BY <1>f, <3>1, <3>3
    <2>3. CASE ~Head(stream).remaining
      <3>1. Summary(dump \o Head(stream).statements) \in Report
        BY <2>1, CollectedType, SummaryType
      <3>. QED  BY <1>4, <2>1, <2>3, <3>1, TypeEndQuery DEF ReadDump
    <2>. QED  BY <2>2, <2>3
  <1>5. CASE ReadFails
    BY <1>5, TypeEndQuery, FailedType DEF ReadFails
  <1>6. CASE PushDump
    <2>1. PICK batch \in SUBSET toDump :
            /\ toDump' = toDump \ batch /\ dumping' = (toDump' # {})
            /\ \E statements \in SetToSeqs(batch) :
                 Push([statements |-> statements, remaining |-> dumping'])
      BY <1>6 DEF PushDump
    <2>2. PICK statements \in SetToSeqs(batch) :
            Push([statements |-> statements, remaining |-> dumping'])
      BY <2>1
    <2>3. UNCHANGED <<command, text, topic, pc, exit, connected, perEndpoint, dump,
                      opened, arrived>> /\ pc = "dump"
      BY <1>6 DEF PushDump, NodeFrame, argVars
    <2>4. [statements |-> statements, remaining |-> dumping'] \in Event
      <3>1. batch \subseteq Statements /\ IsFiniteSet(batch)
        BY FS_Subset, StatementsAssumption DEF TypeInv, NodeType
      <3>2. statements \in Seq(batch)
        BY <2>2, <3>1, SetToSeqsType
      <3>3. statements \in Seq(Statements)
        BY <3>1, <3>2
      <3>. QED  BY <2>1, <3>3 DEF Event
    <2>5. stream' \in Seq(Event) /\ lost' \in BOOLEAN
      BY <2>2, <2>4, PushType
    <2>6. NodeType'
      BY <2>1, <2>3, <2>5 DEF TypeInv, NodeType
    <2>. QED  BY <1>f, <2>3, <2>6
  <1>7. CASE PushLive
    <2>1. PICK s \in Matching(Statements) \ (opened \cup arrived) :
            /\ arrived' = arrived \cup {s}
            /\ Push([statements |-> <<s>>, remaining |-> FALSE])
      BY <1>7 DEF PushLive
    <2>2. UNCHANGED <<command, text, topic, pc, exit, connected, perEndpoint, dump,
                      opened, toDump, dumping>> /\ pc = "dump"
      BY <1>7 DEF PushLive, NodeFrame, argVars
    <2>3. [statements |-> <<s>>, remaining |-> FALSE] \in Event
      BY <2>1 DEF Event, Matching
    <2>4. stream' \in Seq(Event) /\ lost' \in BOOLEAN
      BY <2>1, <2>3, PushType
    <2>5. NodeType'
      BY <2>1, <2>2, <2>4 DEF TypeInv, NodeType
    <2>. QED  BY <1>f, <2>2, <2>5
  <1>. QED
    BY <1>u, <1>1, <1>2, <1>3, <1>4, <1>5, <1>6, <1>7 DEF Next, Bench, Node

\* Every variable has its type.
THEOREM TypeCorrect == Spec => []TypeOK
  BY TypeInit, TypeStep, TypeInvTypeOK, IndInit, IndStep, PTL DEF Spec

\* A topic or an account is accepted exactly if the text spells it, and what is
\* printed of it is read back (parse_topic_hex, parse_account, hex_full).
THEOREM ArgumentsAreTrue == Spec => ArgumentsTrue
  <1>. DEFINE Parsed ==
         pc = "parse" /\ text # <<>> =>
           /\ \A value \in [1 .. Bytes -> {0, 15, 240, 255, 1}] :
                (topic' = <<value>>) <=>
                  IF command = "admin"
                  THEN \/ Spells(Trim(text[1]), value)
                       \/ FromSs58(Trim(text[1])) = <<value>>
                  ELSE Spells(text[1], value)
           /\ topic' # <<>> =>
                /\ ParseTopicHex(HexFull(topic'[1])) = topic'
                /\ ParseAccount(HexFull(topic'[1])) = topic'
           /\ PasswordFilesTrue
  <1>1. ASSUME TypeInv, TypeInv', Next PROVE Parsed
    <2>. SUFFICES ASSUME pc = "parse", text # <<>> PROVE Parsed
      OBVIOUS
    <2>1. Parse
      BY <1>1 DEF Next, Bench, Node, ParseSeed, Connect, Validate, RunCommand,
                  Subscribe, SubscribeFails, ReadDump, ReadFails, PushDump, PushLive
    <2>2. topic' = IF command = "admin" THEN ParseAccount(text[1])
                   ELSE ParseTopicHex(text[1])
      BY <2>1 DEF Parse
    <2>3. text[1] \in Seq(STRING)
      BY <1>1, TextsAssumption DEF TypeInv, ArgType, Option
    <2>4. ASSUME NEW value \in [1 .. Bytes -> {0, 15, 240, 255, 1}]
          PROVE  (topic' = <<value>>) <=>
                   IF command = "admin"
                   THEN \/ Spells(Trim(text[1]), value)
                        \/ FromSs58(Trim(text[1])) = <<value>>
                   ELSE Spells(text[1], value)
      <3>1. value \in [1 .. Bytes -> 0 .. 255]
        OBVIOUS
      <3>2. CASE command = "admin"
        BY <2>2, <2>3, <3>1, <3>2, ParseAccountTrue
      <3>3. CASE command # "admin"
        BY <2>2, <2>3, <3>1, <3>3, ParseTopicTrue
      <3>. QED  BY <3>2, <3>3
    <2>5. ASSUME topic' # <<>>
          PROVE  /\ ParseTopicHex(HexFull(topic'[1])) = topic'
                 /\ ParseAccount(HexFull(topic'[1])) = topic'
      <3>1. PICK value \in Values : topic' = <<value>>
        BY <1>1, <2>5 DEF TypeInv, ArgType, Option
      <3>2. topic'[1] = value /\ value \in [1 .. Bytes -> 0 .. 255]
        BY <3>1 DEF Values
      <3>. QED  BY <3>1, <3>2, HexFullReadBack
    <2>. QED  BY <2>4, <2>5, PasswordFilesAreTrue
  <1>2. Spec => [](TypeInv /\ IndInv)
    BY TypeInit, TypeStep, IndInit, IndStep, PTL DEF Spec
  <1>3. Spec => [][Parsed]_vars
    <2>. HIDE DEF Parsed
    <2>. QED  BY <1>1, <1>2, PTL DEF Spec
  <1>. QED  BY <1>3 DEF ArgumentsTrue

-----------------------------------------------------------------------------
(* Snapshots. *)

\* What has been collected, and what is in the events not read yet.
Chunk(i) == IF i = 0 THEN dump ELSE stream[i].statements
Chunks == 0 .. Len(stream)

\* What is in such an event is collected as part of the dump.
InDump(i) == \A j \in 1 .. i - 1 : stream[j].remaining

\* No statement is pushed twice, and each has left the node.
PushedOnce ==
  \A i, j \in Chunks : \A k \in DOMAIN Chunk(i), l \in DOMAIN Chunk(j) :
    /\ Chunk(i)[k] \in (opened \ toDump) \cup arrived
    /\ Chunk(i)[k] = Chunk(j)[l] => i = j /\ k = l

\* If no event is left out, the dump will be what the node held, and what is
\* pushed later comes after the event that ends it.
DumpInOrder ==
  IF dumping THEN \A j \in 1 .. Len(stream) : stream[j].remaining
  ELSE toDump = {} /\ \E j \in 1 .. Len(stream) : ~stream[j].remaining
DumpComplete ==
  \A s \in opened \ toDump :
    \E i \in Chunks : InDump(i) /\ \E k \in DOMAIN Chunk(i) : Chunk(i)[k] = s
DumpPure ==
  \A i \in Chunks : InDump(i) => \A k \in DOMAIN Chunk(i) : Chunk(i)[k] \in opened

SnapInv ==
  /\ PushedOnce
  /\ pc = "dump" /\ ~lost => DumpInOrder /\ DumpComplete /\ DumpPure

\* Where there is no subscription, there is nothing to say.
LEMMA SnapOutside == TypeInv /\ pc # "dump" => SnapInv
  <1>. SUFFICES ASSUME TypeInv, pc # "dump" PROVE PushedOnce
    BY DEF SnapInv
  <1>1. dump = <<>> /\ stream = <<>>
    BY DEF TypeInv, NodeType
  <1>2. Chunks = {0} /\ Chunk(0) = <<>>
    BY <1>1 DEF Chunks, Chunk
  <1>3. \A i \in Chunks : DOMAIN Chunk(i) = {}
    BY <1>2
  <1>. QED  BY <1>3 DEF PushedOnce

\* A subscription starts with everything still to come.
LEMMA SnapSubscribe ==
  ASSUME TypeInv, Subscribe
  PROVE  SnapInv'
  <1>1. dump' = <<>> /\ stream' = <<>> /\ toDump' = opened' /\ dumping' = TRUE
    BY DEF Subscribe, TypeInv, NodeType
  <1>2. Chunks' = {0} /\ Chunk(0)' = <<>>
    BY <1>1 DEF Chunks, Chunk
  <1>3. \A i \in Chunks' : DOMAIN Chunk(i)' = {}
    BY <1>2
  <1>4. PushedOnce' /\ DumpPure'
    BY <1>3 DEF PushedOnce, DumpPure
  <1>5. DumpInOrder'
    <2>1. 1 .. Len(stream') = {}
      BY <1>1
    <2>. QED  BY <1>1, <2>1 DEF DumpInOrder
  <1>6. DumpComplete'
    BY <1>1 DEF DumpComplete
  <1>. QED  BY <1>4, <1>5, <1>6 DEF SnapInv

-----------------------------------------------------------------------------
(* Reading an event. *)

LEMMA ChunksType ==
  ASSUME TypeInv
  PROVE  /\ Len(stream) \in Nat /\ dump \in Seq(Statements)
         /\ \A i \in 1 .. Len(stream) : stream[i] \in Event
         /\ \A i \in Chunks : Chunk(i) \in Seq(Statements)
  <1>1. stream \in Seq(Event) /\ dump \in Seq(Statements)
    BY DEF TypeInv, NodeType
  <1>2. Len(stream) \in Nat /\ \A i \in 1 .. Len(stream) : stream[i] \in Event
    BY <1>1
  <1>3. \A e \in Event : e.statements \in Seq(Statements)
    BY DEF Event
  <1>. QED  BY <1>1, <1>2, <1>3 DEF Chunks, Chunk

\* An event with more to come is added to what has been collected.
Reads ==
  /\ stream # <<>> /\ Head(stream).remaining
  /\ dump' = dump \o Head(stream).statements /\ stream' = Tail(stream)

LEMMA ReadsMoves ==
  ASSUME TypeInv, Reads
  PROVE  /\ Len(stream) >= 1 /\ Len(stream') = Len(stream) - 1
         /\ stream[1].remaining
         /\ \A i \in 1 .. Len(stream) - 1 : stream'[i] = stream[i + 1]
         /\ \A i \in 1 .. Len(stream) - 1 : Chunk(i)' = Chunk(i + 1)
         /\ DOMAIN Chunk(0)' = 1 .. Len(Chunk(0)) + Len(Chunk(1))
         /\ \A k \in 1 .. Len(Chunk(0)) : Chunk(0)'[k] = Chunk(0)[k]
         /\ \A k \in 1 .. Len(Chunk(1)) : Chunk(0)'[Len(Chunk(0)) + k] = Chunk(1)[k]
  <1>1. stream \in Seq(Event) /\ stream # <<>>
    BY DEF TypeInv, NodeType, Reads
  <1>2. /\ Len(stream) \in Nat /\ Len(stream) >= 1 /\ Head(stream) = stream[1]
        /\ Len(Tail(stream)) = Len(stream) - 1
        /\ \A i \in 1 .. Len(stream) - 1 : Tail(stream)[i] = stream[i + 1]
    BY <1>1
  <1>3. /\ Len(stream') = Len(stream) - 1 /\ stream[1].remaining
        /\ \A i \in 1 .. Len(stream) - 1 : stream'[i] = stream[i + 1]
    BY <1>2 DEF Reads
  <1>4. \A i \in 1 .. Len(stream) - 1 : Chunk(i)' = Chunk(i + 1)
    <2>. TAKE i \in 1 .. Len(stream) - 1
    <2>1. i # 0 /\ i + 1 # 0
      BY <1>2
    <2>. QED  BY <1>3, <2>1 DEF Chunk
  <1>5. Chunk(0) = dump /\ Chunk(1) = stream[1].statements /\ Chunk(0)' = dump'
    BY DEF Chunk
  <1>6. dump' = dump \o Chunk(1)
    BY <1>2, <1>5 DEF Reads
  <1>7. dump \in Seq(Statements) /\ Chunk(1) \in Seq(Statements)
    BY <1>2, ChunksType DEF Chunks
  <1>8. /\ dump' \in Seq(Statements) /\ Len(dump') = Len(dump) + Len(Chunk(1))
        /\ \A k \in 1 .. Len(dump) : dump'[k] = dump[k]
        /\ \A k \in 1 .. Len(Chunk(1)) : dump'[Len(dump) + k] = Chunk(1)[k]
    BY <1>6, <1>7, ConcatTrue
  <1>9. DOMAIN dump' = 1 .. Len(dump) + Len(Chunk(1))
    BY <1>8
  <1>. QED  BY <1>2, <1>3, <1>4, <1>5, <1>8, <1>9

\* Where a statement of a chunk was before, and where it is after that.
Origin(i, k, p, q) ==
  /\ p \in Chunks /\ q \in DOMAIN Chunk(p) /\ Chunk(i)'[k] = Chunk(p)[q]
  /\ \/ i # 0 /\ p = i + 1 /\ q = k
     \/ i = 0 /\ p = 0 /\ q = k
     \/ i = 0 /\ p = 1 /\ k = Len(Chunk(0)) + q

LEMMA ReadsOrigin ==
  ASSUME TypeInv, Reads, NEW i \in Chunks', NEW k \in DOMAIN Chunk(i)'
  PROVE  \E p \in Chunks : \E q \in DOMAIN Chunk(p) : Origin(i, k, p, q)
  <1>1. /\ Len(stream) \in Nat /\ Len(stream) >= 1 /\ Chunks' = 0 .. Len(stream) - 1
        /\ 0 \in Chunks /\ 1 \in Chunks
    BY ReadsMoves, ChunksType DEF Chunks
  <1>2. CASE i # 0
    <2>1. i \in 1 .. Len(stream) - 1 /\ i + 1 \in Chunks
      BY <1>1, <1>2 DEF Chunks
    <2>2. Chunk(i)' = Chunk(i + 1)
      BY <2>1, ReadsMoves
    <2>. QED  BY <1>2, <2>1, <2>2 DEF Origin
  <1>3. CASE i = 0
    <2>1. /\ Len(Chunk(0)) \in Nat /\ DOMAIN Chunk(0) = 1 .. Len(Chunk(0))
          /\ Len(Chunk(1)) \in Nat /\ DOMAIN Chunk(1) = 1 .. Len(Chunk(1))
      <3>1. Chunk(0) \in Seq(Statements) /\ Chunk(1) \in Seq(Statements)
        BY <1>1, ChunksType
      <3>. QED  BY <3>1
    <2>2. k \in 1 .. Len(Chunk(0)) + Len(Chunk(1))
      BY <1>3, ReadsMoves
    <2>3. CASE k <= Len(Chunk(0))
      <3>1. k \in DOMAIN Chunk(0) /\ Chunk(0)'[k] = Chunk(0)[k]
        BY <2>1, <2>2, <2>3, ReadsMoves
      <3>2. Origin(i, k, 0, k)
        BY <1>1, <1>3, <3>1 DEF Origin
      <3>. QED  BY <1>1, <3>1, <3>2
    <2>4. CASE ~(k <= Len(Chunk(0)))
      <3>. DEFINE q == k - Len(Chunk(0))
      <3>1. q \in 1 .. Len(Chunk(1)) /\ k = Len(Chunk(0)) + q
        BY <2>1, <2>2, <2>4
      <3>. HIDE DEF q
      <3>2. Chunk(0)'[k] = Chunk(1)[q]
        BY <3>1, ReadsMoves
      <3>3. Origin(i, k, 1, q)
        BY <1>1, <1>3, <2>1, <3>1, <3>2 DEF Origin
      <3>. QED  BY <1>1, <2>1, <3>1, <3>3
    <2>. QED  BY <2>3, <2>4
  <1>. QED  BY <1>2, <1>3

LEMMA ReadsTarget ==
  ASSUME TypeInv, Reads, NEW p \in Chunks, NEW q \in DOMAIN Chunk(p)
  PROVE  \E i \in Chunks' : \E k \in DOMAIN Chunk(i)' :
           Chunk(i)'[k] = Chunk(p)[q] /\ i = IF p <= 1 THEN 0 ELSE p - 1
  <1>1. /\ Len(stream) \in Nat /\ Len(stream) >= 1 /\ Chunks' = 0 .. Len(stream) - 1
        /\ 0 \in Chunks /\ 1 \in Chunks /\ 0 \in Chunks'
    BY ReadsMoves, ChunksType DEF Chunks
  <1>2. /\ Len(Chunk(0)) \in Nat /\ DOMAIN Chunk(0) = 1 .. Len(Chunk(0))
        /\ Len(Chunk(1)) \in Nat /\ DOMAIN Chunk(1) = 1 .. Len(Chunk(1))
    <2>1. Chunk(0) \in Seq(Statements) /\ Chunk(1) \in Seq(Statements)
      BY <1>1, ChunksType
    <2>. QED  BY <2>1
  <1>3. CASE p = 0
    <2>1. q \in DOMAIN Chunk(0)' /\ Chunk(0)'[q] = Chunk(p)[q]
      BY <1>2, <1>3, ReadsMoves
    <2>. QED  BY <1>1, <1>3, <2>1
  <1>4. CASE p = 1
    <2>. DEFINE k == Len(Chunk(0)) + q
    <2>1. q \in 1 .. Len(Chunk(1)) /\ k \in 1 .. Len(Chunk(0)) + Len(Chunk(1))
      BY <1>2, <1>4
    <2>2. Chunk(0)'[k] = Chunk(p)[q]
      BY <1>4, <2>1, ReadsMoves
    <2>3. k \in DOMAIN Chunk(0)'
      BY <2>1, ReadsMoves
    <2>. HIDE DEF k
    <2>. QED  BY <1>1, <1>4, <2>2, <2>3
  <1>5. CASE p # 0 /\ p # 1
    <2>. DEFINE i == p - 1
    <2>1. i \in 1 .. Len(stream) - 1 /\ i \in Chunks' /\ i + 1 = p /\ ~(p <= 1)
      BY <1>1, <1>5 DEF Chunks
    <2>2. Chunk(i)' = Chunk(p)
      <3>. HIDE DEF i
      <3>. QED  BY <2>1, ReadsMoves
    <2>. QED  BY <2>1, <2>2
  <1>. QED  BY <1>3, <1>4, <1>5

LEMMA SnapReads ==
  ASSUME TypeInv, SnapInv, Reads,
         UNCHANGED <<pc, opened, arrived, toDump, dumping, lost>>
  PROVE  SnapInv'
  <1>n. /\ Len(stream) \in Nat /\ Len(stream) >= 1 /\ Len(stream') = Len(stream) - 1
        /\ Chunks = 0 .. Len(stream) /\ Chunks' = 0 .. Len(stream) - 1
        /\ stream[1].remaining
        /\ \A j \in 1 .. Len(stream) - 1 : stream'[j] = stream[j + 1]
    BY ReadsMoves, ChunksType DEF Chunks
  <1>1. PushedOnce'
    <2>. SUFFICES ASSUME NEW i \in Chunks', NEW j \in Chunks',
                         NEW k \in DOMAIN Chunk(i)', NEW l \in DOMAIN Chunk(j)'
                  PROVE  /\ Chunk(i)'[k] \in (opened \ toDump) \cup arrived
                         /\ Chunk(i)'[k] = Chunk(j)'[l] => i = j /\ k = l
      BY DEF PushedOnce
    <2>1. PICK p \in Chunks : \E q \in DOMAIN Chunk(p) : Origin(i, k, p, q)
      BY ReadsOrigin
    <2>2. PICK q \in DOMAIN Chunk(p) : Origin(i, k, p, q)
      BY <2>1
    <2>3. PICK r \in Chunks : \E s \in DOMAIN Chunk(r) : Origin(j, l, r, s)
      BY ReadsOrigin
    <2>4. PICK s \in DOMAIN Chunk(r) : Origin(j, l, r, s)
      BY <2>3
    <2>5. Chunk(i)'[k] \in (opened \ toDump) \cup arrived
      BY <2>2 DEF Origin, SnapInv, PushedOnce
    <2>6. ASSUME Chunk(i)'[k] = Chunk(j)'[l] PROVE i = j /\ k = l
      <3>1. p = r /\ q = s
        <4>1. Chunk(p)[q] = Chunk(r)[s]
          BY <2>2, <2>4, <2>6 DEF Origin
        <4>. QED  BY <4>1 DEF SnapInv, PushedOnce
      <3>2. i \in Nat /\ j \in Nat
        BY <1>n
      <3>. QED  BY <2>2, <2>4, <3>1, <3>2 DEF Origin
    <2>. QED  BY <2>5, <2>6
  <1>2. ASSUME pc = "dump", ~lost PROVE DumpInOrder' /\ DumpComplete' /\ DumpPure'
    <2>1. DumpInOrder /\ DumpComplete /\ DumpPure
      BY <1>2 DEF SnapInv
    <2>2. DumpInOrder'
      <3>1. CASE dumping
        BY <1>n, <2>1, <3>1 DEF DumpInOrder
      <3>2. CASE ~dumping
        <4>1. PICK j \in 1 .. Len(stream) : ~stream[j].remaining
          BY <2>1, <3>2 DEF DumpInOrder
        <4>2. j - 1 \in 1 .. Len(stream) - 1 /\ (j - 1) + 1 = j
          BY <1>n, <4>1
        <4>3. ~stream'[j - 1].remaining
          BY <1>n, <4>1, <4>2
        <4>. QED  BY <1>n, <2>1, <3>2, <4>2, <4>3 DEF DumpInOrder
      <3>. QED  BY <3>1, <3>2
    <2>3. DumpComplete'
      <3>. SUFFICES ASSUME NEW s \in opened \ toDump
                    PROVE  \E i \in Chunks' : /\ InDump(i)'
                                              /\ \E k \in DOMAIN Chunk(i)' :
                                                   Chunk(i)'[k] = s
        BY DEF DumpComplete
      <3>1. PICK p \in Chunks : InDump(p) /\ \E q \in DOMAIN Chunk(p) : Chunk(p)[q] = s
        BY <2>1 DEF DumpComplete
      <3>2. PICK q \in DOMAIN Chunk(p) : Chunk(p)[q] = s
        BY <3>1
      <3>3. PICK i \in Chunks' : /\ \E k \in DOMAIN Chunk(i)' : Chunk(i)'[k] = s
                                 /\ i = IF p <= 1 THEN 0 ELSE p - 1
        BY <3>2, ReadsTarget
      <3>4. InDump(i)'
        <4>. SUFFICES ASSUME NEW j \in 1 .. i - 1 PROVE stream'[j].remaining
          BY DEF InDump
        <4>1. j + 1 \in 1 .. p - 1 /\ j \in 1 .. Len(stream) - 1
          BY <1>n, <3>3
        <4>. QED  BY <1>n, <3>1, <4>1 DEF InDump
      <3>. QED  BY <3>3, <3>4
    <2>4. DumpPure'
      <3>. SUFFICES ASSUME NEW i \in Chunks', InDump(i)', NEW k \in DOMAIN Chunk(i)'
                    PROVE  Chunk(i)'[k] \in opened
        BY DEF DumpPure
      <3>1. PICK p \in Chunks : \E q \in DOMAIN Chunk(p) : Origin(i, k, p, q)
        BY ReadsOrigin
      <3>2. PICK q \in DOMAIN Chunk(p) : Origin(i, k, p, q)
        BY <3>1
      <3>3. InDump(p)
        <4>. SUFFICES ASSUME NEW j \in 1 .. p - 1 PROVE stream[j].remaining
          BY DEF InDump
        <4>1. CASE j = 1
          BY <1>n, <4>1
        <4>2. CASE j # 1
          <5>1. /\ i \in Nat /\ i \in 0 .. Len(stream) - 1 /\ p = i + 1
                /\ j - 1 \in 1 .. i - 1 /\ j - 1 \in 1 .. Len(stream) - 1
                /\ (j - 1) + 1 = j
            BY <1>n, <3>2, <4>2 DEF Origin
          <5>2. stream'[j - 1].remaining
            BY <5>1 DEF InDump
          <5>. QED  BY <1>n, <5>1, <5>2
        <4>. QED  BY <4>1, <4>2
      <3>. QED  BY <2>1, <3>2, <3>3 DEF DumpPure, Origin
    <2>. QED  BY <2>2, <2>3, <2>4
  <1>. QED  BY <1>1, <1>2 DEF SnapInv

-----------------------------------------------------------------------------
(* Pushing an event. *)

LEMMA PushMoves ==
  ASSUME TypeInv, UNCHANGED dump, NEW event, stream' = Append(stream, event),
         NEW n, n = Len(stream) + 1
  PROVE  /\ Len(stream) \in Nat /\ Len(stream') = n
         /\ Chunks = 0 .. Len(stream) /\ Chunks' = 0 .. n
         /\ n \in Nat /\ n \in Chunks' /\ n \notin Chunks
         /\ \A i \in Chunks : i \in Chunks'
         /\ \A i \in Chunks' : i \in Chunks \/ i = n
         /\ \A j \in 1 .. Len(stream) : stream'[j] = stream[j]
         /\ stream'[n] = event
         /\ \A i \in Chunks : Chunk(i)' = Chunk(i) /\ (InDump(i)' <=> InDump(i))
         /\ Chunk(n)' = event.statements
         /\ InDump(n)' <=> \A j \in 1 .. Len(stream) : stream[j].remaining
  <1>1. /\ Len(stream) \in Nat /\ Len(stream') = n
        /\ \A j \in 1 .. Len(stream) : stream'[j] = stream[j]
        /\ stream'[n] = event
    <2>1. stream \in Seq(Event)
      BY DEF TypeInv, NodeType
    <2>. QED  BY <2>1
  <1>2. Chunks = 0 .. Len(stream) /\ Chunks' = 0 .. n
    BY <1>1 DEF Chunks
  <1>3. /\ n \in Nat /\ n \in Chunks' /\ n \notin Chunks
        /\ \A i \in Chunks : i \in Chunks'
        /\ \A i \in Chunks' : i \in Chunks \/ i = n
    BY <1>1, <1>2
  <1>4. ASSUME NEW i \in Chunks
        PROVE  Chunk(i)' = Chunk(i) /\ (InDump(i)' <=> InDump(i))
    <2>1. i = 0 \/ i \in 1 .. Len(stream)
      BY <1>1, <1>2
    <2>2. \A j \in 1 .. i - 1 : j \in 1 .. Len(stream)
      BY <1>1, <2>1
    <2>3. Chunk(i)' = Chunk(i)
      BY <1>1, <2>1 DEF Chunk
    <2>4. InDump(i)' <=> InDump(i)
      BY <1>1, <2>2 DEF InDump
    <2>. QED  BY <2>3, <2>4
  <1>5. Chunk(n)' = event.statements
    <2>1. n # 0
      BY <1>1
    <2>. QED  BY <1>1, <2>1 DEF Chunk
  <1>6. InDump(n)' <=> \A j \in 1 .. Len(stream) : stream[j].remaining
    <2>1. n - 1 = Len(stream)
      BY <1>1
    <2>2. InDump(n)' <=> \A j \in 1 .. n - 1 : stream'[j].remaining
      BY DEF InDump
    <2>. QED  BY <1>1, <2>1, <2>2
  <1>. QED  BY <1>1, <1>2, <1>3, <1>4, <1>5, <1>6

\* If an event is left out, there is less to say.
LEMMA SnapLost ==
  ASSUME SnapInv, UNCHANGED <<pc, dump, stream, opened>>, lost' = TRUE,
         toDump' \subseteq toDump, arrived \subseteq arrived'
  PROVE  SnapInv'
  <1>1. Chunks' = Chunks /\ \A i : Chunk(i)' = Chunk(i)
    BY DEF Chunks, Chunk
  <1>2. PushedOnce'
    BY <1>1 DEF SnapInv, PushedOnce
  <1>3. lost'
    OBVIOUS
  <1>. QED  BY <1>2, <1>3 DEF SnapInv

\* What is pushed has not been pushed before.
LEMMA PushedOncePush ==
  ASSUME TypeInv, PushedOnce, UNCHANGED <<dump, opened>>, NEW event,
         stream' = Append(stream, event),
         toDump' \subseteq toDump, arrived \subseteq arrived',
         \A k \in DOMAIN event.statements :
           /\ event.statements[k] \in (opened \ toDump') \cup arrived'
           /\ event.statements[k] \notin (opened \ toDump) \cup arrived,
         \A k, l \in DOMAIN event.statements :
           event.statements[k] = event.statements[l] => k = l
  PROVE  PushedOnce'
  <1>0. PICK n : n = Len(stream) + 1
    OBVIOUS
  <1>1. /\ \A i \in Chunks' : i \in Chunks \/ i = n
        /\ \A i \in Chunks : Chunk(i)' = Chunk(i)
        /\ Chunk(n)' = event.statements
    BY <1>0, PushMoves
  <1>2. \A i \in Chunks : \A k \in DOMAIN Chunk(i) :
          /\ Chunk(i)[k] \in (opened \ toDump) \cup arrived
          /\ Chunk(i)[k] \in (opened \ toDump') \cup arrived'
    BY DEF PushedOnce
  <1>. SUFFICES ASSUME NEW i \in Chunks', NEW j \in Chunks',
                       NEW k \in DOMAIN Chunk(i)', NEW l \in DOMAIN Chunk(j)'
                PROVE  /\ Chunk(i)'[k] \in (opened \ toDump') \cup arrived'
                       /\ Chunk(i)'[k] = Chunk(j)'[l] => i = j /\ k = l
    BY DEF PushedOnce
  <1>3. CASE i \in Chunks /\ j \in Chunks
    BY <1>1, <1>2, <1>3 DEF PushedOnce
  <1>4. CASE i = n /\ j \in Chunks
    BY <1>1, <1>2, <1>4
  <1>5. CASE i \in Chunks /\ j = n
    BY <1>1, <1>2, <1>5
  <1>6. CASE i = n /\ j = n
    BY <1>1, <1>6
  <1>. QED  BY <1>1, <1>3, <1>4, <1>5, <1>6

LEMMA SnapPushDump ==
  ASSUME TypeInv, SnapInv, PushDump
  PROVE  SnapInv'
  <1>1. PICK batch \in SUBSET toDump :
          /\ toDump' = toDump \ batch /\ dumping' = (toDump' # {})
          /\ \E statements \in SetToSeqs(batch) :
               Push([statements |-> statements, remaining |-> dumping'])
    BY DEF PushDump
  <1>2. PICK statements \in SetToSeqs(batch) :
          Push([statements |-> statements, remaining |-> dumping'])
    BY <1>1
  <1>. DEFINE event == [statements |-> statements, remaining |-> dumping']
  <1>3. UNCHANGED <<pc, dump, opened, arrived>> /\ pc = "dump" /\ dumping
    BY DEF PushDump, NodeFrame
  <1>4. /\ \A k \in DOMAIN statements : statements[k] \in batch
        /\ \A k, l \in DOMAIN statements : statements[k] = statements[l] => k = l
        /\ \A s \in batch : \E k \in DOMAIN statements : statements[k] = s
    <2>1. IsFiniteSet(batch)
      BY FS_Subset, StatementsAssumption DEF TypeInv, NodeType
    <2>2. /\ statements \in Seq(batch)
          /\ \A k, l \in DOMAIN statements : k # l => statements[k] # statements[l]
          /\ \A s \in batch : \E k \in DOMAIN statements : statements[k] = s
      BY <1>2, <2>1, SetToSeqsType
    <2>. QED  BY <2>2
  <1>5. toDump \subseteq opened /\ opened \cap arrived = {}
    BY DEF TypeInv, NodeType
  <1>6. CASE lost' = TRUE /\ UNCHANGED stream
    BY <1>1, <1>3, <1>6, SnapLost
  <1>7. CASE stream' = Append(stream, event) /\ UNCHANGED lost
    <2>1. event.statements = statements /\ event.remaining = dumping'
      OBVIOUS
    <2>. HIDE DEF event
    <2>2. PushedOnce'
      <3>1. /\ toDump' \subseteq toDump /\ arrived \subseteq arrived'
            /\ UNCHANGED <<dump, opened>>
        BY <1>1, <1>3
      <3>2. \A k \in DOMAIN event.statements :
              /\ event.statements[k] \in (opened \ toDump') \cup arrived'
              /\ event.statements[k] \notin (opened \ toDump) \cup arrived
        BY <1>1, <1>3, <1>4, <1>5, <2>1
      <3>3. \A k, l \in DOMAIN event.statements :
              event.statements[k] = event.statements[l] => k = l
        BY <1>4, <2>1
      <3>. QED  BY <1>7, <3>1, <3>2, <3>3, PushedOncePush DEF SnapInv
    <2>3. ASSUME ~lost PROVE DumpInOrder' /\ DumpComplete' /\ DumpPure'
      <3>0. DumpInOrder /\ DumpComplete /\ DumpPure
        BY <1>3, <2>3 DEF SnapInv
      <3>. PICK n : n = Len(stream) + 1
        OBVIOUS
      <3>1. /\ Len(stream) \in Nat /\ Len(stream') = n /\ n \in Chunks'
            /\ \A i \in Chunks : i \in Chunks'
            /\ \A i \in Chunks' : i \in Chunks \/ i = n
            /\ \A j \in 1 .. Len(stream) : stream'[j] = stream[j]
            /\ stream'[n] = event
            /\ \A i \in Chunks : Chunk(i)' = Chunk(i) /\ (InDump(i)' <=> InDump(i))
            /\ Chunk(n)' = statements
            /\ InDump(n)' <=> \A j \in 1 .. Len(stream) : stream[j].remaining
        BY <1>3, <1>7, <2>1, PushMoves
      <3>2. \A j \in 1 .. Len(stream) : stream[j].remaining
        BY <1>3, <3>0 DEF DumpInOrder
      <3>3. n \in 1 .. n /\ \A j \in 1 .. n : j \in 1 .. Len(stream) \/ j = n
        BY <3>1
      <3>4. DumpInOrder'
        <4>1. CASE dumping'
          BY <2>1, <3>1, <3>2, <3>3, <4>1 DEF DumpInOrder
        <4>2. CASE ~dumping'
          BY <1>1, <2>1, <3>1, <3>3, <4>2 DEF DumpInOrder
        <4>. QED  BY <4>1, <4>2
      <3>5. DumpComplete'
        <4>. SUFFICES ASSUME NEW s \in opened' \ toDump'
                      PROVE  \E i \in Chunks' : /\ InDump(i)'
                                                /\ \E k \in DOMAIN Chunk(i)' :
                                                     Chunk(i)'[k] = s
          BY DEF DumpComplete
        <4>1. CASE s \in batch
          BY <1>4, <3>1, <3>2, <4>1
        <4>2. CASE s \notin batch
          <5>1. s \in opened \ toDump
            BY <1>1, <1>3, <4>2
          <5>2. PICK i \in Chunks :
                  InDump(i) /\ \E k \in DOMAIN Chunk(i) : Chunk(i)[k] = s
            BY <3>0, <5>1 DEF DumpComplete
          <5>. QED  BY <3>1, <5>2
        <4>. QED  BY <4>1, <4>2
      <3>6. DumpPure'
        <4>. SUFFICES ASSUME NEW i \in Chunks', InDump(i)', NEW k \in DOMAIN Chunk(i)'
                      PROVE  Chunk(i)'[k] \in opened
          BY <1>3 DEF DumpPure
        <4>1. CASE i = n
          BY <1>4, <1>5, <3>1, <4>1
        <4>2. CASE i \in Chunks
          BY <3>0, <3>1, <4>2 DEF DumpPure
        <4>. QED  BY <3>1, <4>1, <4>2
      <3>. QED  BY <3>4, <3>5, <3>6
    <2>. QED  BY <1>7, <2>2, <2>3 DEF SnapInv
  <1>. QED  BY <1>2, <1>6, <1>7 DEF Push

LEMMA SnapPushLive ==
  ASSUME TypeInv, SnapInv, PushLive
  PROVE  SnapInv'
  <1>1. PICK s \in Matching(Statements) \ (opened \cup arrived) :
          /\ arrived' = arrived \cup {s}
          /\ Push([statements |-> <<s>>, remaining |-> FALSE])
    BY DEF PushLive
  <1>. DEFINE event == [statements |-> <<s>>, remaining |-> FALSE]
  <1>2. UNCHANGED <<pc, dump, opened, toDump, dumping>> /\ pc = "dump" /\ ~dumping
    BY DEF PushLive, NodeFrame
  <1>3. CASE lost' = TRUE /\ UNCHANGED stream
    BY <1>1, <1>2, <1>3, SnapLost
  <1>4. CASE stream' = Append(stream, event) /\ UNCHANGED lost
    <2>1. event.statements = <<s>>
      OBVIOUS
    <2>. HIDE DEF event
    <2>2. PushedOnce'
      <3>1. /\ toDump' \subseteq toDump /\ arrived \subseteq arrived'
            /\ UNCHANGED <<dump, opened>>
        BY <1>1, <1>2
      <3>2. DOMAIN event.statements = {1} /\ event.statements[1] = s
        BY <2>1
      <3>3. \A k \in DOMAIN event.statements :
              /\ event.statements[k] \in (opened \ toDump') \cup arrived'
              /\ event.statements[k] \notin (opened \ toDump) \cup arrived
        BY <1>1, <3>2
      <3>4. \A k, l \in DOMAIN event.statements :
              event.statements[k] = event.statements[l] => k = l
        BY <3>2
      <3>. QED  BY <1>4, <3>1, <3>3, <3>4, PushedOncePush DEF SnapInv
    <2>3. ASSUME ~lost PROVE DumpInOrder' /\ DumpComplete' /\ DumpPure'
      <3>0. DumpInOrder /\ DumpComplete /\ DumpPure
        BY <1>2, <2>3 DEF SnapInv
      <3>. PICK n : n = Len(stream) + 1
        OBVIOUS
      <3>1. /\ Len(stream) \in Nat /\ Len(stream') = n
            /\ \A i \in Chunks : i \in Chunks'
            /\ \A i \in Chunks' : i \in Chunks \/ i = n
            /\ \A j \in 1 .. Len(stream) : stream'[j] = stream[j]
            /\ \A i \in Chunks : Chunk(i)' = Chunk(i) /\ (InDump(i)' <=> InDump(i))
            /\ InDump(n)' <=> \A j \in 1 .. Len(stream) : stream[j].remaining
        BY <1>2, <1>4, PushMoves
      <3>2. \A j \in 1 .. Len(stream) : j \in 1 .. n
        BY <3>1
      <3>3. toDump = {} /\ \E j \in 1 .. Len(stream) : ~stream[j].remaining
        BY <1>2, <3>0 DEF DumpInOrder
      <3>4. DumpInOrder'
        BY <1>2, <3>1, <3>2, <3>3 DEF DumpInOrder
      <3>5. DumpComplete'
        <4>. SUFFICES ASSUME NEW t \in opened \ toDump
                      PROVE  \E i \in Chunks' : /\ InDump(i)'
                                                /\ \E k \in DOMAIN Chunk(i)' :
                                                     Chunk(i)'[k] = t
          BY <1>2 DEF DumpComplete
        <4>1. PICK i \in Chunks :
                InDump(i) /\ \E k \in DOMAIN Chunk(i) : Chunk(i)[k] = t
          BY <3>0 DEF DumpComplete
        <4>. QED  BY <3>1, <4>1
      <3>6. DumpPure'
        <4>. SUFFICES ASSUME NEW i \in Chunks', InDump(i)', NEW k \in DOMAIN Chunk(i)'
                      PROVE  Chunk(i)'[k] \in opened
          BY <1>2 DEF DumpPure
        <4>1. i \in Chunks
          BY <3>1, <3>3
        <4>. QED  BY <3>0, <3>1, <4>1 DEF DumpPure
      <3>. QED  BY <3>4, <3>5, <3>6
    <2>. QED  BY <1>4, <2>2, <2>3 DEF SnapInv
  <1>. QED  BY <1>1, <1>3, <1>4 DEF Push

LEMMA SnapStep == TypeInv /\ TypeInv' /\ SnapInv /\ [Next]_vars => SnapInv'
  <1>. SUFFICES ASSUME TypeInv, TypeInv', SnapInv, [Next]_vars PROVE SnapInv'
    OBVIOUS
  <1>1. CASE UNCHANGED vars
    BY <1>1 DEF vars, nodeVars, SnapInv, PushedOnce, DumpInOrder, DumpComplete,
                DumpPure, Chunks, Chunk, InDump
  <1>2. CASE pc' # "dump"
    <2>1. (TypeInv /\ pc # "dump" => SnapInv)'
      BY SnapOutside, PTL
    <2>. QED  BY <1>2, <2>1
  <1>3. CASE Subscribe
    BY <1>3, SnapSubscribe
  <1>4. CASE ReadDump /\ pc' = "dump"
    <2>1. Head(stream).remaining
      BY <1>4 DEF ReadDump, EndQuery, Goto, Return
    <2>2. Reads /\ UNCHANGED <<pc, opened, arrived, toDump, dumping, lost>>
      BY <1>4, <2>1 DEF ReadDump, Reads
    <2>. QED  BY <2>2, SnapReads
  <1>5. CASE PushDump
    BY <1>5, SnapPushDump
  <1>6. CASE PushLive
    BY <1>6, SnapPushLive
  <1>7. Parse \/ ParseSeed \/ Connect \/ Validate \/ RunCommand \/ SubscribeFails
          \/ ReadFails => pc' # "dump"
    BY DEF Parse, ParseSeed, Connect, AfterConnect, Validate, RunCommand,
           SubscribeFails, ReadFails, EndQuery, Goto, Return
  <1>. QED  BY <1>1, <1>2, <1>3, <1>4, <1>5, <1>6, <1>7 DEF Next, Bench, Node

-----------------------------------------------------------------------------
(* The report. *)

\* What reading an event makes of what has been collected.
Collects(collected) == collected = dump \o Head(stream).statements

\* Once the dump is complete, what has been collected is what was pushed of it.
LEMMA CollectedTrue ==
  ASSUME TypeInv, SnapInv, pc = "dump", stream # <<>>, ~Head(stream).remaining,
         NEW collected, Collects(collected)
  PROVE  /\ collected \in Seq(Statements)
         /\ IsInjective(collected)
         /\ Range(collected) \subseteq opened \cup arrived
         /\ ~lost => Range(collected) = opened
  <1>1. /\ Len(stream) \in Nat /\ Len(stream) >= 1 /\ Head(stream) = stream[1]
        /\ 0 \in Chunks /\ 1 \in Chunks /\ Chunks = 0 .. Len(stream)
    <2>1. stream \in Seq(Event)
      BY DEF TypeInv, NodeType
    <2>. QED  BY <2>1 DEF Chunks
  <1>2. Chunk(0) = dump /\ Chunk(1) = Head(stream).statements
    BY <1>1 DEF Chunk
  <1>3. Chunk(0) \in Seq(Statements) /\ Chunk(1) \in Seq(Statements)
    BY <1>1, ChunksType
  <1>4. /\ collected \in Seq(Statements)
        /\ Len(collected) = Len(Chunk(0)) + Len(Chunk(1))
        /\ \A k \in 1 .. Len(Chunk(0)) : collected[k] = Chunk(0)[k]
        /\ \A k \in 1 .. Len(Chunk(1)) : collected[Len(Chunk(0)) + k] = Chunk(1)[k]
    <2>1. collected = Chunk(0) \o Chunk(1)
      BY <1>2 DEF Collects
    <2>2. ASSUME NEW s \in Seq(Statements), NEW t \in Seq(Statements),
                 collected = s \o t
          PROVE  /\ collected \in Seq(Statements)
                 /\ Len(collected) = Len(s) + Len(t)
                 /\ \A k \in 1 .. Len(s) : collected[k] = s[k]
                 /\ \A k \in 1 .. Len(t) : collected[Len(s) + k] = t[k]
      BY <2>2, ConcatTrue
    <2>. QED  BY <1>3, <2>1, <2>2, Zenon
  <1>5. /\ Len(Chunk(0)) \in Nat /\ DOMAIN Chunk(0) = 1 .. Len(Chunk(0))
        /\ Len(Chunk(1)) \in Nat /\ DOMAIN Chunk(1) = 1 .. Len(Chunk(1))
        /\ DOMAIN collected = 1 .. Len(Chunk(0)) + Len(Chunk(1))
    BY <1>3, <1>4
  <1>6. \A k \in DOMAIN collected :
          \E p \in {0, 1} : \E q \in DOMAIN Chunk(p) :
            /\ collected[k] = Chunk(p)[q]
            /\ k = IF p = 0 THEN q ELSE Len(Chunk(0)) + q
    <2>. TAKE k \in DOMAIN collected
    <2>1. CASE k <= Len(Chunk(0))
      <3>1. k \in DOMAIN Chunk(0) /\ collected[k] = Chunk(0)[k]
        BY <1>4, <1>5, <2>1
      <3>. QED  BY <3>1
    <2>2. CASE ~(k <= Len(Chunk(0)))
      <3>. DEFINE q == k - Len(Chunk(0))
      <3>1. q \in 1 .. Len(Chunk(1)) /\ k = Len(Chunk(0)) + q
        BY <1>5, <2>2
      <3>. HIDE DEF q
      <3>2. collected[k] = Chunk(1)[q]
        BY <1>4, <3>1
      <3>. QED  BY <1>5, <3>1, <3>2
    <2>. QED  BY <2>1, <2>2
  <1>7. \A p \in {0, 1} : \A q \in DOMAIN Chunk(p) :
          \E k \in DOMAIN collected : collected[k] = Chunk(p)[q]
    <2>1. ASSUME NEW q \in DOMAIN Chunk(0)
          PROVE  \E k \in DOMAIN collected : collected[k] = Chunk(0)[q]
      <3>1. q \in 1 .. Len(Chunk(0)) /\ q \in DOMAIN collected
        BY <1>5
      <3>2. collected[q] = Chunk(0)[q]
        BY <1>4, <3>1
      <3>. QED  BY <3>1, <3>2
    <2>2. ASSUME NEW q \in DOMAIN Chunk(1)
          PROVE  \E k \in DOMAIN collected : collected[k] = Chunk(1)[q]
      <3>. DEFINE k == Len(Chunk(0)) + q
      <3>1. k \in DOMAIN collected /\ collected[k] = Chunk(1)[q]
        BY <1>4, <1>5
      <3>. HIDE DEF k
      <3>. QED  BY <3>1
    <2>. QED  BY <2>1, <2>2
  <1>8. ASSUME NEW k \in DOMAIN collected, NEW l \in DOMAIN collected,
               collected[k] = collected[l]
        PROVE  k = l
    <2>1. PICK p \in {0, 1} : \E q \in DOMAIN Chunk(p) :
            collected[k] = Chunk(p)[q] /\ k = IF p = 0 THEN q ELSE Len(Chunk(0)) + q
      BY <1>6
    <2>2. PICK q \in DOMAIN Chunk(p) :
            collected[k] = Chunk(p)[q] /\ k = IF p = 0 THEN q ELSE Len(Chunk(0)) + q
      BY <2>1
    <2>3. PICK r \in {0, 1} : \E s \in DOMAIN Chunk(r) :
            collected[l] = Chunk(r)[s] /\ l = IF r = 0 THEN s ELSE Len(Chunk(0)) + s
      BY <1>6
    <2>4. PICK s \in DOMAIN Chunk(r) :
            collected[l] = Chunk(r)[s] /\ l = IF r = 0 THEN s ELSE Len(Chunk(0)) + s
      BY <2>3
    <2>5. p \in Chunks /\ r \in Chunks /\ Chunk(p)[q] = Chunk(r)[s]
      BY <1>1, <1>8, <2>2, <2>4
    <2>6. p = r /\ q = s
      BY <2>5 DEF SnapInv, PushedOnce
    <2>. QED  BY <2>2, <2>4, <2>6
  <1>9. \A k \in DOMAIN collected : collected[k] \in (opened \ toDump) \cup arrived
    BY <1>1, <1>6 DEF SnapInv, PushedOnce
  <1>10. ASSUME ~lost PROVE Range(collected) = opened
    <2>0. DumpInOrder /\ DumpComplete /\ DumpPure
      BY <1>10 DEF SnapInv
    <2>1. toDump = {}
      BY <1>1, <2>0 DEF DumpInOrder
    <2>2. InDump(0) /\ InDump(1)
      BY DEF InDump
    <2>3. \A k \in DOMAIN collected : collected[k] \in opened
      BY <1>1, <1>6, <2>0, <2>2 DEF DumpPure
    <2>4. ASSUME NEW s \in opened
          PROVE  \E k \in DOMAIN collected : collected[k] = s
      <3>1. PICK i \in Chunks : InDump(i) /\ \E k \in DOMAIN Chunk(i) : Chunk(i)[k] = s
        BY <2>0, <2>1 DEF DumpComplete
      <3>2. i \in {0, 1}
        <4>1. 1 \notin 1 .. i - 1
          BY <1>1, <3>1 DEF InDump
        <4>. QED  BY <1>1, <4>1
      <3>. QED  BY <1>7, <3>1, <3>2
    <2>. QED  BY <2>3, <2>4 DEF Range
  <1>. QED  BY <1>4, <1>8, <1>9, <1>10 DEF Range, IsInjective

\* A report without an error is the node's contents when it answered the
\* subscription, if no event has been left out, and nothing that the node did not
\* have otherwise (query_endpoint, collect_initial_dump).
THEOREM SnapshotIsTrue == Spec => SnapshotTrue
  <1>1. ASSUME TypeInv, NEW report, EndQuery(report)
        PROVE  Last(perEndpoint') = report
    <2>1. perEndpoint \in Seq(Report \cup {report})
      BY <1>1 DEF TypeInv, ReportsType
    <2>2. perEndpoint' = Append(perEndpoint, report)
      BY <1>1 DEF EndQuery
    <2>. QED  BY <2>1, <2>2 DEF Last
  <1>2. ASSUME TypeInv, SnapInv, Next PROVE ReportFaithful
    <2>1. CASE ReadDump /\ ~Head(stream).remaining
      <3>1. PICK collected : Collects(collected)
        BY DEF Collects
      <3>2. PICK report : report = Summary(collected)
        OBVIOUS
      <3>3. Last(perEndpoint') = report
        BY <1>1, <1>2, <2>1, <3>1, <3>2 DEF ReadDump, Collects
      <3>4. stream # <<>> /\ pc = "dump" /\ ~Head(stream).remaining
        BY <2>1 DEF ReadDump
      <3>5. /\ collected \in Seq(Statements) /\ IsInjective(collected)
            /\ Range(collected) \subseteq opened \cup arrived
            /\ ~lost => Range(collected) = opened
        BY <1>2, <3>1, <3>4, CollectedTrue
      <3>6. /\ Listed(report) = Readable(Range(collected))
            /\ Cardinality(Listed(report)) = Len(report.statements)
            /\ \A i, j \in DOMAIN report.statements :
                 i < j => report.statements[i].hash.expiry <=
                            report.statements[j].hash.expiry
            /\ report.undecodable =
                 Cardinality(Range(collected) \ Readable(Range(collected)))
        BY <3>2, <3>5, SummaryTrue
      <3>7. Listed(report) \subseteq {s \in opened \cup arrived : s.decodable}
        BY <3>5, <3>6 DEF Readable
      <3>8. ASSUME ~lost
            PROVE  /\ Listed(report) = {s \in opened : s.decodable}
                   /\ report.undecodable =
                        Cardinality(opened \ {s \in opened : s.decodable})
        BY <3>5, <3>6, <3>8 DEF Readable
      <3>. QED  BY <3>3, <3>6, <3>7, <3>8 DEF Listed, ReportFaithful
    <2>2. CASE SubscribeFails \/ ReadFails
      <3>1. Last(perEndpoint') = Failed
        BY <1>1, <1>2, <2>2 DEF SubscribeFails, ReadFails
      <3>2. Last(perEndpoint').error
        BY <3>1 DEF Failed
      <3>. QED  BY <3>2 DEF ReportFaithful
    <2>3. CASE ~(ReadDump /\ ~Head(stream).remaining) /\ ~SubscribeFails /\ ~ReadFails
      <3>1. UNCHANGED perEndpoint
        BY <1>2, <2>3
           DEF Next, Bench, Node, Parse, ParseSeed, Connect, Validate, RunCommand,
               BeforeRun, Subscribe, ReadDump, PushDump, PushLive, NodeFrame
      <3>2. Len(perEndpoint) \in Nat
        BY <1>2 DEF TypeInv, ReportsType
      <3>. QED  BY <3>1, <3>2 DEF ReportFaithful
    <2>. QED  BY <2>1, <2>2, <2>3
  <1>3. Init => SnapInv
    <2>1. Init => pc # "dump"
      BY DEF Init
    <2>. QED  BY <2>1, TypeInit, SnapOutside
  <1>4. Spec => [](TypeInv /\ SnapInv)
    BY <1>3, TypeInit, TypeStep, SnapStep, IndInit, IndStep, PTL DEF Spec
  <1>. QED  BY <1>2, <1>4, PTL DEF Spec, SnapshotTrue
=============================================================================
