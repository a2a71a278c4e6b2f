------------------------- MODULE WorkerFlagsProofs -------------------------
(***************************************************************************)
(* Theorems about the worker's start-up, for every command line: the       *)
(* filter and the parser agree on what the arguments are, flags that are   *)
(* not the worker's change nothing, and the worker serves what was meant.  *)
(***************************************************************************)
EXTENDS WorkerFlags, WellFoundedInduction, SequenceTheorems, TLAPS

----------------------------------------------------------------------------
(* Flattening a sequence of sequences.                                     *)

\* A set of natural numbers that is not empty has a least element.
LEMMA LeastOf ==
    ASSUME NEW T, T \subseteq Nat, T # {}
    PROVE  \E x \in T : \A y \in T : x <= y
<1> DEFINE R == OpToRel(<, Nat)
<1>1. IsWellFoundedOn(R, Nat)
  BY NatLessThanWellFounded, Zenon
<1>2. \A x, y \in Nat : y < x => <<y, x>> \in R
  BY DEF OpToRel
<1> HIDE DEF R
<1>3. PICK x \in T : \A y \in T : ~(<<y, x>> \in R)
  BY <1>1, WFMin, ZenonT(20)
<1>4. \A y \in T : ~(y < x)
  BY <1>2, <1>3, Zenon
<1>5. \A y \in T : x <= y
  BY <1>4
<1> QED
  BY <1>5

\* f holds the flattening of every prefix of seqs.
Flattens(f, seqs) ==
    f = [k \in 1..Len(seqs) |-> IF k = 1 THEN seqs[k] ELSE f[k - 1] \o seqs[k]]

\* The first m places of such a function can be filled, for every m.
Fills(f, seqs, m) ==
    f = [k \in 1..m |-> IF k = 1 THEN seqs[k] ELSE f[k - 1] \o seqs[k]]

LEMMA FlattensExists ==
    ASSUME NEW S, NEW seqs \in Seq(Seq(S)), Len(seqs) # 0
    PROVE  \E f : Flattens(f, seqs)
<1> DEFINE n == Len(seqs)
           T == {m \in 1..n : ~\E f : Fills(f, seqs, m)}
<1>1. n \in Nat /\ n >= 1
  OBVIOUS
<1>2. SUFFICES T = {}
  <2>1. n \in 1..n
    BY <1>1
  <2> QED
    BY <1>2, <2>1, Zenon DEF Fills, Flattens
<1>3. SUFFICES ASSUME T # {} PROVE FALSE
  OBVIOUS
<1>4. PICK m \in 1..n : /\ ~\E f : Fills(f, seqs, m)
                        /\ \A k \in 1..n : k < m => \E f : Fills(f, seqs, k)
  <2>1. T \subseteq Nat
    BY <1>1
  <2>2. PICK m \in T : \A k \in T : m <= k
    <3> HIDE DEF T
    <3> QED BY <1>3, <2>1, LeastOf, Zenon
  <2>3. \A k \in 1..n : k < m => k \notin T
    BY <2>1, <2>2
  <2> QED BY <2>2, <2>3
<1> HIDE DEF T
<1>5. CASE m = 1
  <2>1. Fills([k \in 1..1 |-> seqs[1]], seqs, 1)
    BY DEF Fills
  <2> QED
    BY <1>4, <1>5, <2>1
<1>6. CASE m # 1
  <2>1. m - 1 \in 1..n /\ m - 1 < m
    <3>1. m \in Nat /\ m > 1 /\ m <= n
      BY <1>1, <1>4, <1>6
    <3> QED BY <1>1, <3>1
  <2>2. PICK f : Fills(f, seqs, m - 1)
    BY <1>4, <2>1
  <2> DEFINE g == [k \in 1..m |-> IF k = m THEN f[m - 1] \o seqs[m] ELSE f[k]]
  <2>3. ASSUME NEW k \in 1..m
        PROVE  g[k] = IF k = 1 THEN seqs[k] ELSE g[k - 1] \o seqs[k]
    <3>1. m \in Nat /\ k \in Nat
      BY <1>4
    <3>2. CASE k = m
      <4>1. m - 1 \in 1..m /\ m - 1 # m
        BY <2>1, <3>1
      <4>2. g[k - 1] = f[k - 1] /\ g[k] = f[k - 1] \o seqs[k]
        BY <3>2, <4>1
      <4> HIDE DEF g
      <4> QED BY <1>6, <3>2, <4>2
    <3>3. CASE k # m
      <4>1. k \in 1..(m - 1)
        BY <3>1, <3>3
      <4>2. f[k] = IF k = 1 THEN seqs[k] ELSE f[k - 1] \o seqs[k]
        BY <2>2, <4>1 DEF Fills
      <4>3. k # 1 => k - 1 \in 1..m /\ k - 1 # m
        BY <3>1, <4>1
      <4>4. g[k] = f[k]
        BY <3>3
      <4>5. k # 1 => g[k - 1] = f[k - 1]
        BY <4>3
      <4> HIDE DEF g
      <4> QED
        BY <4>2, <4>4, <4>5
    <3> QED
      BY <3>2, <3>3
  <2>4. g = [k \in 1..m |-> IF k = 1 THEN seqs[k] ELSE g[k - 1] \o seqs[k]]
    <3>1. g = [k \in 1..m |-> g[k]]
      OBVIOUS
    <3> HIDE DEF g
    <3> QED BY <2>3, <3>1
  <2>5. Fills(g, seqs, m)
    BY <2>4 DEF Fills
  <2> QED
    BY <1>4, <2>5
<1> QED
  BY <1>5, <1>6

\* Unit k of seqs begins at s[k] in the flattened sequence.
Tiles(s, seqs) ==
    LET n == Len(seqs)
        flat == FlattenSeq(seqs)
    IN  /\ s \in [1..(n + 1) -> 1..(Len(flat) + 1)]
        /\ s[1] = 1 /\ s[n + 1] = Len(flat) + 1
        /\ \A k \in 1..n :
              /\ s[k + 1] = s[k] + Len(seqs[k])
              /\ \A j \in 1..Len(seqs[k]) : flat[s[k] + j - 1] = seqs[k][j]
        /\ \A j, k \in 1..(n + 1) : j <= k => s[j] <= s[k]

IsPrefixOf(x, y) == Len(x) <= Len(y) /\ \A k \in 1..Len(x) : y[k] = x[k]

LEMMA PrefixReflexive ==
    ASSUME NEW S, NEW x \in Seq(S)
    PROVE  IsPrefixOf(x, x)
BY DEF IsPrefixOf

LEMMA PrefixTransitive ==
    ASSUME NEW S, NEW x \in Seq(S), NEW y \in Seq(S), NEW z \in Seq(S),
           IsPrefixOf(x, y), IsPrefixOf(y, z)
    PROVE  IsPrefixOf(x, z)
BY DEF IsPrefixOf

LEMMA ConcatGrows ==
    ASSUME NEW S, NEW x \in Seq(S), NEW y \in Seq(S)
    PROVE  x \o y \in Seq(S) /\ IsPrefixOf(x, x \o y)
<1>1. Len(x) \in Nat /\ Len(y) \in Nat
  OBVIOUS
<1> QED
  BY <1>1, ConcatProperties DEF IsPrefixOf

\* What the filled places hold: sequences, each the beginning of the next.
Grows(f, S, k) ==
    f[k] \in Seq(S) /\ \A j \in 1..k : f[j] \in Seq(S) /\ IsPrefixOf(f[j], f[k])

LEMMA Shift ==
    ASSUME NEW x \in Nat, NEW y \in Nat, NEW j \in 1..y
    PROVE  /\ x + j \in 1..(x + y) /\ ~(x + j <= x)
           /\ x + j - x = j /\ x + 1 + j - 1 = x + j
OBVIOUS

LEMMA FlattenTiles ==
    ASSUME NEW S, NEW seqs \in Seq(Seq(S))
    PROVE  FlattenSeq(seqs) \in Seq(S) /\ \E s : Tiles(s, seqs)
<1> DEFINE n == Len(seqs)
           flat == FlattenSeq(seqs)
<1>1. n \in Nat /\ \A k \in 1..n : seqs[k] \in Seq(S) /\ Len(seqs[k]) \in Nat
  OBVIOUS
<1>2. CASE n = 0
  <2>1. flat = <<>> /\ Len(flat) = 0
    BY <1>2 DEF FlattenSeq
  <2>2. Tiles([k \in {1} |-> 1], seqs)
    <3>1. 1..(n + 1) = {1} /\ 1..(Len(flat) + 1) = {1} /\ 1..n = {}
      BY <1>2, <2>1
    <3> QED BY <1>2, <2>1, <3>1 DEF Tiles
  <2> QED BY <2>1, <2>2
<1>3. CASE n # 0
  <2>1. PICK f : Flattens(f, seqs) /\ flat = f[n]
    <3>1. \E g : Flattens(g, seqs)
      BY <1>3, FlattensExists
    <3> QED
      BY <1>3, <3>1, Zenon DEF Flattens, FlattenSeq
  <2>2. f[1] = seqs[1] /\ \A k \in 2..n : f[k] = f[k - 1] \o seqs[k]
    <3>1. \A k \in 1..n : f[k] = IF k = 1 THEN seqs[k] ELSE f[k - 1] \o seqs[k]
      BY <2>1, Zenon DEF Flattens
    <3>2. 1 \in 1..n /\ \A k \in 2..n : k \in 1..n /\ k # 1
      BY <1>1, <1>3
    <3> QED BY <3>1, <3>2
  <2> DEFINE T == {k \in 1..n : ~Grows(f, S, k)}
  <2>3. T = {}
    <3>1. SUFFICES ASSUME T # {} PROVE FALSE
      OBVIOUS
    <3>2. PICK m \in 1..n : /\ ~Grows(f, S, m)
                            /\ \A k \in 1..n : k < m => Grows(f, S, k)
      <4>1. T \subseteq Nat
        BY <1>1
      <4>2. PICK m \in T : \A k \in T : m <= k
        <5> HIDE DEF T
        <5> QED BY <3>1, <4>1, LeastOf, Zenon
      <4>3. \A k \in 1..n : k < m => k \notin T
        BY <4>1, <4>2
      <4> QED BY <4>2, <4>3
    <3> HIDE DEF T
    <3>3. CASE m = 1
      <4>1. f[1] \in Seq(S)
        BY <1>1, <1>3, <2>2
      <4>2. IsPrefixOf(f[1], f[1]) /\ \A j \in 1..1 : j = 1
        BY <4>1, PrefixReflexive
      <4>3. Grows(f, S, 1)
        BY <4>1, <4>2, Zenon DEF Grows
      <4> QED BY <3>2, <3>3, <4>3
    <3>4. CASE m # 1
      <4>1. m - 1 \in 1..n /\ m \in 2..n /\ Grows(f, S, m - 1)
        BY <1>1, <3>2, <3>4
      <4>2. f[m] = f[m - 1] \o seqs[m] /\ f[m - 1] \in Seq(S) /\ seqs[m] \in Seq(S)
        BY <1>1, <2>2, <4>1 DEF Grows
      <4>3. f[m] \in Seq(S) /\ IsPrefixOf(f[m - 1], f[m])
        BY <4>2, ConcatGrows, Zenon
      <4>4. ASSUME NEW j \in 1..m
            PROVE  f[j] \in Seq(S) /\ IsPrefixOf(f[j], f[m])
        <5>1. CASE j = m
          BY <4>3, <5>1, PrefixReflexive, Zenon
        <5>2. CASE j # m
          <6>1. j \in 1..(m - 1)
            BY <4>1, <5>2
          <6>2. f[j] \in Seq(S) /\ IsPrefixOf(f[j], f[m - 1])
            BY <4>1, <6>1, Zenon DEF Grows
          <6> QED BY <4>2, <4>3, <6>2, PrefixTransitive, Zenon
        <5> QED BY <5>1, <5>2
      <4>5. Grows(f, S, m)
        BY <4>3, <4>4, Zenon DEF Grows
      <4> QED BY <3>2, <4>5
    <3> QED BY <3>3, <3>4
  <2>4. \A k \in 1..n : Grows(f, S, k)
    BY <2>3
  <2> HIDE DEF T
  <2> DEFINE s == [k \in 1..(n + 1) |-> IF k = 1 THEN 1 ELSE Len(f[k - 1]) + 1]
  <2>5. flat \in Seq(S) /\ \A k \in 1..n : f[k] \in Seq(S) /\ Len(f[k]) \in Nat
    BY <1>1, <1>3, <2>1, <2>4 DEF Grows
  <2>6. ASSUME NEW j \in 1..n, NEW k \in j..n PROVE Len(f[j]) <= Len(f[k])
    <3>1. k \in 1..n /\ j \in 1..k
      BY <1>1
    <3> QED BY <2>4, <3>1 DEF Grows, IsPrefixOf
  <2>7. \A k \in 1..(n + 1) : s[k] \in 1..(Len(flat) + 1)
    <3>1. ASSUME NEW k \in 1..(n + 1), k # 1 PROVE Len(f[k - 1]) \in Nat /\ Len(f[k - 1]) <= Len(f[n])
      <4>1. k - 1 \in 1..n /\ n \in (k - 1)..n
        BY <1>1, <3>1
      <4> QED BY <2>5, <2>6, <4>1
    <3>2. Len(flat) \in Nat
      BY <2>5
    <3> QED BY <2>1, <3>1, <3>2
  <2>8. s[1] = 1 /\ s[n + 1] = Len(flat) + 1
    BY <1>1, <1>3, <2>1
  <2>9. ASSUME NEW k \in 1..n
        PROVE  /\ s[k + 1] = s[k] + Len(seqs[k])
               /\ \A j \in 1..Len(seqs[k]) : flat[s[k] + j - 1] = seqs[k][j]
    <3>1. s[k + 1] = Len(f[k]) + 1
      BY <1>1
    <3>2. /\ Len(f[k]) = s[k] - 1 + Len(seqs[k])
          /\ \A j \in 1..Len(seqs[k]) : f[k][s[k] + j - 1] = seqs[k][j]
      <4>1. CASE k = 1
        <5>1. s[k] = 1 /\ f[k] = seqs[k]
          BY <1>1, <2>2, <4>1
        <5> QED BY <1>1, <5>1
      <4>2. CASE k # 1
        <5>1. k \in 2..n /\ k - 1 \in 1..n
          BY <1>1, <4>2
        <5>2. f[k] = f[k - 1] \o seqs[k] /\ f[k - 1] \in Seq(S) /\ seqs[k] \in Seq(S)
          BY <1>1, <2>2, <2>5, <5>1
        <5>3. s[k] = Len(f[k - 1]) + 1
          BY <1>1, <4>2
        <5> HIDE DEF s
        <5>4. Len(f[k - 1]) \in Nat /\ Len(seqs[k]) \in Nat
          BY <5>2
        <5>5. Len(f[k]) = Len(f[k - 1]) + Len(seqs[k])
          BY <5>2, ConcatProperties
        <5>6. ASSUME NEW j \in 1..Len(seqs[k])
              PROVE  f[k][s[k] + j - 1] = seqs[k][j]
          <6>1. /\ Len(f[k - 1]) + j \in 1..(Len(f[k - 1]) + Len(seqs[k]))
                /\ ~(Len(f[k - 1]) + j <= Len(f[k - 1]))
                /\ Len(f[k - 1]) + j - Len(f[k - 1]) = j
            BY <5>4, Shift
          <6>2. f[k][Len(f[k - 1]) + j] = seqs[k][j]
            BY <5>2, <6>1, ConcatProperties
          <6>3. s[k] + j - 1 = Len(f[k - 1]) + j
            BY <5>3, <5>4, Shift
          <6> QED BY <6>2, <6>3
        <5>7. Len(f[k]) = s[k] - 1 + Len(seqs[k])
          BY <5>3, <5>4, <5>5
        <5> QED BY <5>6, <5>7
      <4> QED BY <4>1, <4>2
    <3>3. s[k] \in Nat /\ s[k] >= 1 /\ Len(seqs[k]) \in Nat /\ Len(f[k]) \in Nat
      BY <1>1, <2>5, <2>7
    <3>4. \A j \in 1..Len(f[k]) : flat[j] = f[k][j]
      <4>1. n \in 1..n /\ k \in 1..n
        BY <1>1, <1>3
      <4> QED BY <2>1, <2>4, <4>1 DEF Grows, IsPrefixOf
    <3> HIDE DEF s, flat
    <3>5. ASSUME NEW j \in 1..Len(seqs[k])
          PROVE  flat[s[k] + j - 1] = seqs[k][j]
      <4>1. s[k] - 1 \in Nat /\ s[k] - 1 + j = s[k] + j - 1
        BY <3>3
      <4>2. s[k] - 1 + j \in 1..(s[k] - 1 + Len(seqs[k]))
        BY <3>3, <4>1, Shift
      <4>3. s[k] + j - 1 \in 1..Len(f[k])
        BY <3>2, <4>1, <4>2
      <4> QED BY <3>2, <3>4, <4>3
    <3>6. s[k + 1] = s[k] + Len(seqs[k])
      BY <3>1, <3>2, <3>3
    <3> QED BY <3>5, <3>6
  <2>10. ASSUME NEW j \in 1..(n + 1), NEW k \in 1..(n + 1), j <= k PROVE s[j] <= s[k]
    <3>1. CASE j = 1
      BY <2>7, <2>8, <3>1
    <3>2. CASE j # 1
      <4>1. j - 1 \in 1..n /\ k - 1 \in (j - 1)..n /\ k # 1
        BY <1>1, <2>10, <3>2
      <4>2. Len(f[j - 1]) <= Len(f[k - 1]) /\ Len(f[j - 1]) \in Nat /\ Len(f[k - 1]) \in Nat
        <5>1. k - 1 \in 1..n
          BY <1>1, <4>1
        <5> QED BY <2>5, <2>6, <4>1, <5>1
      <4>3. s[j] = Len(f[j - 1]) + 1 /\ s[k] = Len(f[k - 1]) + 1
        BY <3>2, <4>1
      <4> HIDE DEF s
      <4> QED BY <4>2, <4>3
    <3> QED BY <3>1, <3>2
  <2>11. s \in [1..(n + 1) -> 1..(Len(flat) + 1)]
    BY <2>7
  <2> HIDE DEF s, flat
  <2>12. Tiles(s, seqs)
    BY <2>8, <2>9, <2>10, <2>11 DEF Tiles, flat
  <2> QED
    BY <2>5, <2>12 DEF flat
<1> QED
  BY <1>2, <1>3

----------------------------------------------------------------------------
(* Types.                                                                  *)

Tokens == [k \in DOMAIN line |-> line[k].tokens]

\* What the filter keeps of a well-formed line.
Ours == [k \in DOMAIN line |-> IF Sets(line[k]) THEN line[k].tokens ELSE <<>>]

LEMMA LineType ==
    ASSUME line \in Lines
    PROVE  /\ line \in Seq(Unit) /\ Len(line) \in Nat /\ DOMAIN line = 1..Len(line)
           /\ \A k \in 1..Len(line) : line[k] \in Unit
           /\ Tokens \in Seq(Seq(Token)) /\ Len(Tokens) = Len(line)
           /\ Ours \in Seq(Seq(Token)) /\ Len(Ours) = Len(line)
<1>1. line \in Seq(Unit)
  BY LinesAssumption
<1>2. Len(line) \in Nat /\ DOMAIN line = 1..Len(line) /\ \A k \in 1..Len(line) : line[k] \in Unit
  BY <1>1
<1>3. \A k \in 1..Len(line) : line[k].tokens \in Seq(Token)
  BY <1>2 DEF Unit
<1>4. <<>> \in Seq(Token)
  OBVIOUS
<1>5. Tokens \in Seq(Seq(Token)) /\ Len(Tokens) = Len(line)
  BY <1>2, <1>3 DEF Tokens
<1>6. \A k \in 1..Len(line) : (IF Sets(line[k]) THEN line[k].tokens ELSE <<>>) \in Seq(Token)
  BY <1>3, <1>4
<1>7. Ours \in Seq(Seq(Token)) /\ Len(Ours) = Len(line)
  BY <1>2, <1>6 DEF Ours
<1> QED
  BY <1>1, <1>2, <1>5, <1>7

LEMMA ArgsType ==
    ASSUME line \in Lines
    PROVE  args \in Seq(Token) /\ Len(args) \in Nat
<1>1. args = FlattenSeq(Tokens)
  BY DEF args, Tokens
<1>2. args \in Seq(Token)
  BY <1>1, LineType, FlattenTiles
<1> QED
  BY <1>2

\* The command line is never written.
LEMMA LineFixed ==
    ASSUME line' = line
    PROVE  /\ args' = args /\ Tokens' = Tokens /\ Ours' = Ours
           /\ WellFormed' = WellFormed /\ Intended' = Intended
BY DEF args, Tokens, Ours, WellFormed, Intended

\* The words the defaults are made of are words.
LEMMA DefaultsType == Defaults \in [Defined -> Token]
<1>1. {"true", "false", "loopback", "info", "text"} \subseteq Words
  BY WordsAssumption
<1>2. \A w \in Words \cup {NoWord} : Word(w) \in Token
  BY DEF Word, Token
<1> QED
  BY <1>1, <1>2 DEF Defaults

\* The type invariant is inductive by itself.
LEMMA InitType ==
    ASSUME Init
    PROVE  TypeOK
BY ArgsType, DefaultsType DEF Init, TypeOK

LEMMA NextType ==
    ASSUME TypeOK, [Next]_vars
    PROVE  TypeOK'
<1> USE DEF TypeOK
<1>0. args \in Seq(Token) /\ Len(args) \in Nat /\ Len(out) \in Nat
  BY ArgsType
<1>1. line' = line /\ args' = args
  <2>1. line' = line
    BY DEF Next, Drop, Keep, Filtered, SetFlag, ParseError, ParseEnds, Serve, Started, vars
  <2> QED BY <2>1, LineFixed
<1>2. CASE UNCHANGED vars
  BY <1>1, <1>2 DEF vars
<1>3. CASE Drop
  BY <1>0, <1>1, <1>3 DEF Drop, Filtering
<1>4. CASE Keep
  <2>1. a \in Token /\ i \in Nat
    BY <1>0, <1>4 DEF Keep, Filtering, a
  <2>2. CASE TakesNext(a)
    <3>1. args[i + 1] \in Token /\ i' = i + 2 /\ i' \in 1..(Len(args) + 1)
      BY <1>0, <1>4, <2>1, <2>2 DEF Keep, TakesNext
    <3>2. out' = out \o <<a, args[i + 1]>> /\ <<a, args[i + 1]>> \in Seq(Token)
      BY <1>4, <2>1, <2>2, <3>1 DEF Keep
    <3>3. out' \in Seq(Token) /\ Len(out') = Len(out) + 2
      BY <3>2
    <3> QED
      BY <1>0, <1>1, <1>4, <3>1, <3>3 DEF Keep
  <2>3. CASE ~TakesNext(a)
    <3>1. out' \in Seq(Token) /\ Len(out') = Len(out) + 1 /\ i' = i + 1
      BY <1>4, <2>1, <2>3 DEF Keep
    <3> QED
      BY <1>0, <1>1, <1>4, <3>1 DEF Keep, Filtering
  <2> QED BY <2>2, <2>3
<1>5. CASE Filtered
  BY <1>1, <1>5 DEF Filtered
<1>6. CASE SetFlag
  <2>1. t \in Token /\ t.inline \in Words \cup {NoWord, NoInline}
    <3>1. p \in 1..Len(out)
      BY <1>0, <1>6 DEF SetFlag, Parsing
    <3>2. t \in Token
      BY <3>1 DEF t
    <3> QED BY <3>2 DEF Token
  <2>2. Word("true") \in Token /\ (t.inline # NoInline => Word(t.inline) \in Token)
    BY <2>1, WordsAssumption DEF Word, Token
  <2>3. settings' \in [Defined -> Token] /\ p' \in 1..(Len(out) + 1)
    <3>1. CASE NeedsNext(t)
      <4>1. out[p + 1] \in Token
        BY <1>0, <1>6, <3>1 DEF SetFlag, Parsing
      <4> QED BY <1>0, <1>6, <3>1, <4>1 DEF SetFlag, Parsing
    <3>2. CASE ~NeedsNext(t)
      BY <1>0, <1>6, <2>2, <3>2 DEF SetFlag, Parsing
    <3> QED BY <3>1, <3>2
  <2> QED
    BY <1>1, <1>6, <2>3 DEF SetFlag
<1>7. CASE ParseError
  BY <1>1, <1>7 DEF ParseError, Ends
<1>8. CASE ParseEnds
  BY <1>1, <1>8 DEF ParseEnds
<1>9. CASE Serve
  BY <1>1, <1>9 DEF Serve, Outcomes, Transport, Ends
<1>10. CASE Started
  BY <1>1, <1>10 DEF Started, vars
<1> QED
  BY <1>2, <1>3, <1>4, <1>5, <1>6, <1>7, <1>8, <1>9, <1>10 DEF Next

\* Types of the worker's start-up: no argument is read past the end, by the
\* filter or by the parser, and what is kept and set are arguments
\* (filterKnownFlags, flag.Parse, main.go).
THEOREM TypeCorrect == Spec => []TypeOK
<1>1. Init => TypeOK
  BY InitType
<1>2. TypeOK /\ [Next]_vars => TypeOK'
  BY NextType
<1> QED
  BY <1>1, <1>2, PTL DEF Spec

----------------------------------------------------------------------------
(* Filter and parser cut what is kept at the same places.                  *)

\* Where an argument of out that starts at h ends.
After(h) == IF NeedsNext(out[h]) /\ h < Len(out) THEN h + 2 ELSE h + 1

\* The flags kept stand at the places in H; the last of them may lack a value,
\* and only when the arguments are at their end.
Heads(H) ==
    /\ 1 \in H /\ Len(out) + 1 \in H
    /\ \A h \in H : h <= Len(out) =>
          /\ out[h].dashes > 0 /\ out[h].name \in Defined
          /\ After(h) \in H
          /\ NeedsNext(out[h]) /\ h = Len(out) => i > Len(args)

Agree ==
    /\ \E H \in SUBSET (1..(Len(out) + 1)) : Heads(H) /\ p \in H
    /\ pc = "filter" => p = 1
    /\ ParserReadsAll

\* The flags that take a value are the ones the filter looks for.
LEMMA TakesOrNeeds ==
    ASSUME NEW tok \in Token, tok.name \in Defined
    PROVE  TakesNext(tok) <=> (NeedsNext(tok) /\ i < Len(args))
BY DEF TakesNext, NeedsNext, ValueFlags, BoolFlags, Defined

LEMMA NextAgree ==
    ASSUME TypeOK, Agree, [Next]_vars
    PROVE  Agree'
<1>0. /\ args \in Seq(Token) /\ Len(args) \in Nat /\ Len(out) \in Nat /\ out \in Seq(Token)
      /\ i \in Nat /\ p \in Nat
  BY ArgsType DEF TypeOK
<1>1. line' = line /\ args' = args
  <2>1. line' = line
    BY DEF Next, Drop, Keep, Filtered, SetFlag, ParseError, ParseEnds, Serve, Started, vars
  <2> QED BY <2>1, LineFixed
<1>2. PICK H \in SUBSET (1..(Len(out) + 1)) : Heads(H) /\ p \in H
  BY DEF Agree
<1>3. ASSUME out' = out, p' \in H, i' >= i, i' \in Nat
      PROVE  \E G \in SUBSET (1..(Len(out) + 1))' : Heads(G)' /\ p' \in G
  <2>1. i > Len(args) => (i > Len(args))'
    BY <1>0, <1>1, <1>3
  <2>2. \A h : After(h)' = After(h)
    BY <1>3 DEF After
  <2>3. Heads(H)'
    BY <1>2, <1>3, <2>1, <2>2 DEF Heads
  <2> QED BY <1>2, <1>3, <2>3
<1>4. CASE UNCHANGED vars
  BY <1>0, <1>1, <1>2, <1>3, <1>4 DEF vars, Agree, ParserReadsAll
<1>5. CASE Drop
  BY <1>0, <1>2, <1>3, <1>5 DEF Drop, Filtering, Agree, ParserReadsAll
<1>6. CASE Keep
  <2>1. a \in Token /\ a.dashes > 0 /\ a.name \in Defined /\ i <= Len(args)
    <3>1. i \in 1..Len(args)
      BY <1>0, <1>6 DEF Keep, Filtering, TypeOK
    <3>2. a \in Token
      BY <1>0, <3>1 DEF a
    <3> QED BY <1>0, <1>6, <3>1, <3>2 DEF Keep
  <2>2. \E n \in {1, 2} :
          /\ out' \in Seq(Token) /\ Len(out') = Len(out) + n /\ i' = i + n
          /\ \A h \in 1..Len(out) : out'[h] = out[h]
          /\ out'[Len(out) + 1] = a
          /\ n = 2 <=> TakesNext(a)
    <3>1. CASE TakesNext(a)
      <4>1. args[i + 1] \in Token /\ i' = i + 2 /\ out' = out \o <<a, args[i + 1]>>
        BY <1>0, <1>6, <2>1, <3>1 DEF Keep, TakesNext
      <4>2. <<a, args[i + 1]>> \in Seq(Token)
        BY <2>1, <4>1
      <4>3. /\ out' \in Seq(Token) /\ Len(out') = Len(out) + 2
            /\ \A h \in 1..Len(out) : out'[h] = out[h]
            /\ out'[Len(out) + 1] = a
        BY <1>0, <4>1, <4>2
      <4> QED BY <3>1, <4>1, <4>3
    <3>2. CASE ~TakesNext(a)
      <4>1. i' = i + 1 /\ out' = Append(out, a)
        BY <1>6, <3>2 DEF Keep
      <4>2. /\ out' \in Seq(Token) /\ Len(out') = Len(out) + 1
            /\ \A h \in 1..Len(out) : out'[h] = out[h]
            /\ out'[Len(out) + 1] = a
        BY <1>0, <2>1, <4>1
      <4> QED BY <3>2, <4>1, <4>2
    <3> QED BY <3>1, <3>2
  <2>3. PICK n \in {1, 2} :
          /\ out' \in Seq(Token) /\ Len(out') = Len(out) + n /\ i' = i + n
          /\ \A h \in 1..Len(out) : out'[h] = out[h]
          /\ out'[Len(out) + 1] = a
          /\ n = 2 <=> TakesNext(a)
    BY <2>2
  <2>4. TakesNext(a) <=> (NeedsNext(a) /\ i < Len(args))
    BY <2>1, TakesOrNeeds
  <2>14. PICK G : G = H \cup {Len(out) + n + 1}
    OBVIOUS
  <2>5. G \in SUBSET (1..(Len(out') + 1)) /\ 1 \in G /\ Len(out') + 1 \in G /\ p' \in G
    <3>1. 1 \in H /\ p' \in H
      BY <1>2, <1>6 DEF Keep, Heads
    <3>2. Len(out') + 1 = Len(out) + n + 1
      BY <1>0, <2>3
    <3>3. G \subseteq 1..(Len(out) + n + 1)
      <4>1. Len(out) \in Nat /\ n \in Nat
        BY <1>0
      <4>2. \A h \in H : h \in 1..(Len(out) + n + 1)
        BY <4>1
      <4>3. Len(out) + n + 1 \in 1..(Len(out) + n + 1)
        BY <4>1
      <4> QED BY <2>14, <4>2, <4>3, Zenon
    <3> QED BY <2>14, <3>1, <3>2, <3>3
  <2>6. ASSUME NEW h \in G, h <= Len(out')
        PROVE  /\ out'[h].dashes > 0 /\ out'[h].name \in Defined
               /\ After(h)' \in G
               /\ NeedsNext(out'[h]) /\ h = Len(out') => i' > Len(args)
    <3>1. h \in H /\ h \in Nat /\ h \in 1..(Len(out) + 1)
      <4>1. Len(out) \in Nat /\ n \in Nat /\ Len(out') = Len(out) + n
        BY <1>0, <2>3
      <4>2. h # Len(out) + n + 1
        BY <2>6, <4>1
      <4>3. h \in H
        BY <2>14, <4>2, Zenon
      <4> QED BY <4>3
    <3>2. CASE h <= Len(out)
      <4>1. out'[h] = out[h] /\ out[h].dashes > 0 /\ out[h].name \in Defined /\ After(h) \in H
        BY <1>0, <1>2, <2>3, <3>1, <3>2 DEF Heads
      <4>2. h < Len(out') /\ (NeedsNext(out[h]) /\ h = Len(out) => i > Len(args))
        BY <1>0, <1>2, <2>3, <3>1, <3>2 DEF Heads
      <4>3. NeedsNext(out[h]) => h < Len(out)
        BY <1>0, <2>1, <3>1, <3>2, <4>2
      <4>4. After(h)' = After(h)
        BY <1>0, <4>1, <4>2, <4>3 DEF After
      <4>5. After(h)' \in G
        BY <2>14, <4>1, <4>4, Zenon
      <4> QED BY <1>0, <3>1, <4>1, <4>2, <4>5
    <3>3. CASE h = Len(out) + 1
      <4>1. out'[h] = a
        BY <2>3, <3>3
      <4>2. CASE n = 2
        <5>1. NeedsNext(a) /\ h < Len(out')
          BY <1>0, <2>3, <2>4, <3>3, <4>2
        <5>2. After(h)' = h + 2 /\ h + 2 = Len(out') + 1
          BY <1>0, <2>3, <3>3, <4>1, <4>2, <5>1 DEF After
        <5> QED BY <1>0, <2>1, <2>5, <4>1, <5>1, <5>2
      <4>3. CASE n = 1
        <5>1. h = Len(out') /\ (NeedsNext(a) => i = Len(args))
          BY <1>0, <2>1, <2>3, <2>4, <3>3, <4>3
        <5>2. After(h)' = h + 1 /\ h + 1 = Len(out') + 1
          BY <1>0, <2>3, <3>3, <4>3, <5>1 DEF After
        <5>3. NeedsNext(a) => i' > Len(args)
          BY <1>0, <2>3, <4>3, <5>1
        <5> QED BY <2>1, <2>5, <4>1, <5>2, <5>3
      <4> QED BY <4>2, <4>3
    <3> QED BY <1>0, <3>1, <3>2, <3>3
  <2>7. Heads(G)'
    <3>1. \A h \in G : h <= Len(out') =>
             /\ out'[h].dashes > 0 /\ out'[h].name \in Defined
             /\ After(h)' \in G
             /\ NeedsNext(out'[h]) /\ h = Len(out') => i' > Len(args')
      BY <1>1, <2>6
    <3> QED BY <2>5, <3>1, Zenon DEF Heads
  <2>8. \E F \in SUBSET (1..(Len(out) + 1))' : Heads(F)' /\ p' \in F
    BY <2>5, <2>7
  <2> QED BY <1>6, <2>8 DEF Keep, Filtering, Agree, ParserReadsAll
<1>7. CASE Filtered
  BY <1>0, <1>2, <1>3, <1>7 DEF Filtered, Agree, ParserReadsAll
<1>8. CASE SetFlag
  <2>1. p <= Len(out) /\ After(p) \in H
    BY <1>0, <1>2, <1>8 DEF SetFlag, Parsing, Heads
  <2>2. p' = After(p)
    BY <1>0, <1>8, <2>1 DEF SetFlag, After, t
  <2> QED BY <1>0, <1>2, <1>3, <1>8, <2>1, <2>2 DEF SetFlag, Parsing, Agree, ParserReadsAll
<1>9. CASE ParseError
  <2>1. pc' = "exit2" /\ i' = i /\ out' = out /\ p' = p
    BY <1>9 DEF ParseError
  <2>2. \E G \in SUBSET (1..(Len(out) + 1))' : Heads(G)' /\ p' \in G
    <3>1. p' \in H /\ out' = out /\ i' >= i /\ i' \in Nat
      BY <1>0, <1>2, <2>1
    <3> QED BY <1>3, <3>1, Zenon
  <2>3. pc' # "filter"
    BY <2>1
  <2>4. ParserReadsAll'
    BY <2>1 DEF ParserReadsAll
  <2> QED BY <2>2, <2>3, <2>4 DEF Agree
<1>10. CASE ParseEnds
  <2>1. p <= Len(out) => out[p].dashes > 0 /\ out[p].name # NoWord
    <3>1. p <= Len(out) => out[p].dashes > 0 /\ out[p].name \in Defined
      BY <1>2 DEF Heads
    <3>2. NoWord \notin Defined
      BY WordsAssumption
    <3> QED BY <3>1, <3>2
  <2>2. p <= Len(out) => out[p].dashes \in 0..3
    <3>1. p <= Len(out) => p \in 1..Len(out)
      BY <1>0 DEF TypeOK
    <3>2. p <= Len(out) => out[p] \in Token
      BY <1>0, <3>1
    <3> QED BY <3>2 DEF Token
  <2>3. ~(p <= Len(out))
    BY <1>10, <2>1, <2>2 DEF ParseEnds, Stops, t
  <2>4. p = Len(out) + 1
    BY <1>0, <2>3 DEF TypeOK
  <2> QED BY <1>0, <1>2, <1>3, <1>10, <2>4 DEF ParseEnds, Agree, ParserReadsAll
<1>11. CASE Serve
  <2>1. p = Len(out) + 1
    BY <1>11 DEF Serve, Agree, ParserReadsAll
  <2>2. pc' # "filter"
    BY <1>11 DEF Serve, Outcomes, Transport
  <2> QED BY <1>0, <1>2, <1>3, <1>11, <2>1, <2>2 DEF Serve, Agree, ParserReadsAll
<1>12. CASE Started
  BY <1>0, <1>1, <1>2, <1>3, <1>12 DEF Started, vars, Agree, ParserReadsAll
<1> QED
  BY <1>4, <1>5, <1>6, <1>7, <1>8, <1>9, <1>10, <1>11, <1>12 DEF Next

LEMMA InitAgree ==
    ASSUME Init
    PROVE  Agree
<1>1. out = <<>> /\ Len(out) = 0 /\ p = 1 /\ pc = "filter"
  BY DEF Init
<1>2. Heads({1})
  BY <1>1 DEF Heads
<1> QED
  BY <1>1, <1>2 DEF Agree, ParserReadsAll

\* On every command line, well-formed or not, the parser gets to the end of what
\* the filter kept unless it reports an error (filterKnownFlags, flag.Parse).
THEOREM ParserReadsAllHolds == Spec => []ParserReadsAll
<1>1. Init => TypeOK /\ Agree
  BY InitType, InitAgree
<1>2. TypeOK /\ Agree /\ [Next]_vars => TypeOK' /\ Agree'
  BY NextType, NextAgree
<1>3. Agree => ParserReadsAll
  BY DEF Agree
<1> QED
  BY <1>1, <1>2, <1>3, PTL DEF Spec

----------------------------------------------------------------------------
(* Well-formed command lines.                                              *)

\* Where the units begin in the flattened sequence.
Begin(seqs) == CHOOSE s \in [1..(Len(seqs) + 1) -> 1..(Len(FlattenSeq(seqs)) + 1)] :
                  Tiles(s, seqs)

Flat == FlattenSeq(Ours)

at == Begin(Tokens)
kept == Begin(Ours)

\* The filter is in unit c, past its first argument only when it is not the
\* worker's, and has kept the worker's units before c.
FilterIn(c) ==
    /\ at[c] <= i
    /\ c <= Len(line) => (i < at[c + 1] /\ (Sets(line[c]) => i = at[c]))
    /\ Len(out) = kept[c] - 1
    /\ \A k \in 1..Len(out) : out[k] = Flat[k]

\* What is meant for f by the last of the units that name it.
LastMeant(on, f) == IF on = {} THEN Defaults[f]
                    ELSE line[CHOOSE k \in on : \A j \in on : j <= k].value

\* What is meant for each flag by the units before q.
MeantBefore(q) ==
    [f \in Defined |-> LastMeant({k \in DOMAIN line : k < q /\ line[k].name = f}, f)]

Units == 1..(Len(line) + 1)

OnTrack ==
    /\ pc = "filter" => p = 1 /\ \E c \in Units : FilterIn(c)
    /\ pc # "filter" => out = Flat
    /\ \E q \in Units : kept[q] = p
    /\ \A q \in Units : kept[q] = p => settings = MeantBefore(q)
    /\ pc # "exit2"
    /\ pc \notin {"filter", "parse"} => settings = Intended
    /\ pc \in Ends => pc \in Outcomes(settings)

LEMMA Begins ==
    ASSUME NEW seqs \in Seq(Seq(Token))
    PROVE  FlattenSeq(seqs) \in Seq(Token) /\ Tiles(Begin(seqs), seqs)
<1>1. FlattenSeq(seqs) \in Seq(Token) /\ \E s : Tiles(s, seqs)
  BY FlattenTiles
<1>2. \A s : Tiles(s, seqs) => s \in [1..(Len(seqs) + 1) -> 1..(Len(FlattenSeq(seqs)) + 1)]
  BY Zenon DEF Tiles
<1>3. \E s \in [1..(Len(seqs) + 1) -> 1..(Len(FlattenSeq(seqs)) + 1)] : Tiles(s, seqs)
  BY <1>1, <1>2, Zenon
<1> QED
  BY <1>1, <1>3, Zenon DEF Begin

\* Where unit k stands among the arguments.
LEMMA ArgsLayout ==
    ASSUME line \in Lines
    PROVE  /\ at \in [Units -> 1..(Len(args) + 1)]
           /\ at[1] = 1 /\ at[Len(line) + 1] = Len(args) + 1
           /\ \A k \in 1..Len(line) :
                 /\ at[k + 1] = at[k] + Len(line[k].tokens)
                 /\ \A j \in 1..Len(line[k].tokens) :
                       args[at[k] + j - 1] = line[k].tokens[j]
<1>1. Tokens \in Seq(Seq(Token)) /\ Len(Tokens) = Len(line)
  BY LineType
<1>2. \A k \in 1..Len(line) : Tokens[k] = line[k].tokens
  BY LineType DEF Tokens
<1>3. Tiles(at, Tokens) /\ args = FlattenSeq(Tokens)
  BY <1>1, Begins, Zenon DEF at, args, Tokens
<1>4. /\ at \in [Units -> 1..(Len(args) + 1)]
      /\ at[1] = 1 /\ at[Len(line) + 1] = Len(args) + 1
  BY <1>1, <1>3, Zenon DEF Tiles, Units
<1>5. \A k \in 1..Len(line) :
         /\ at[k + 1] = at[k] + Len(Tokens[k])
         /\ \A j \in 1..Len(Tokens[k]) : args[at[k] + j - 1] = Tokens[k][j]
  BY <1>1, <1>3, Zenon DEF Tiles
<1>6. ASSUME NEW k \in 1..Len(line)
      PROVE  /\ at[k + 1] = at[k] + Len(line[k].tokens)
             /\ \A j \in 1..Len(line[k].tokens) :
                   args[at[k] + j - 1] = line[k].tokens[j]
  <2>1. Tokens[k] = line[k].tokens
    BY <1>2
  <2> QED BY <1>5, <2>1, Zenon
<1> QED
  BY <1>4, <1>6, Zenon

\* ... and among those kept, when it is kept.
LEMMA KeptLayout ==
    ASSUME line \in Lines
    PROVE  /\ Flat \in Seq(Token) /\ Len(Flat) \in Nat
           /\ kept \in [Units -> 1..(Len(Flat) + 1)]
           /\ kept[1] = 1 /\ kept[Len(line) + 1] = Len(Flat) + 1
           /\ \A k \in 1..Len(line) : Sets(line[k]) =>
                 /\ kept[k + 1] = kept[k] + Len(line[k].tokens)
                 /\ \A j \in 1..Len(line[k].tokens) :
                       Flat[kept[k] + j - 1] = line[k].tokens[j]
           /\ \A k \in 1..Len(line) : ~Sets(line[k]) => kept[k + 1] = kept[k]
           /\ \A j, k \in Units : j <= k => kept[j] <= kept[k]
<1>1. Ours \in Seq(Seq(Token)) /\ Len(Ours) = Len(line)
  BY LineType
<1>2. \A k \in 1..Len(line) : /\ Sets(line[k]) => Ours[k] = line[k].tokens
                             /\ ~Sets(line[k]) => Ours[k] = <<>>
  BY LineType DEF Ours
<1>3. Tiles(kept, Ours) /\ Flat \in Seq(Token)
  BY <1>1, Begins, Zenon DEF kept, Flat
<1>4. Len(Flat) \in Nat /\ Len(line) \in Nat
  BY <1>3, LineType
<1>5. /\ kept \in [Units -> 1..(Len(Flat) + 1)]
      /\ kept[1] = 1 /\ kept[Len(line) + 1] = Len(Flat) + 1
      /\ \A j, k \in Units : j <= k => kept[j] <= kept[k]
  BY <1>1, <1>3, Zenon DEF Tiles, Flat, Units
<1>6. \A k \in 1..Len(line) :
         /\ kept[k + 1] = kept[k] + Len(Ours[k])
         /\ \A j \in 1..Len(Ours[k]) : Flat[kept[k] + j - 1] = Ours[k][j]
  BY <1>1, <1>3, Zenon DEF Tiles, Flat
<1>7. ASSUME NEW k \in 1..Len(line), ~Sets(line[k])
      PROVE  kept[k + 1] = kept[k]
  <2>1. Len(Ours[k]) = 0 /\ kept[k] \in Nat
    BY <1>2, <1>4, <1>5, <1>7 DEF Units
  <2> QED BY <1>6, <2>1
<1>8. ASSUME NEW k \in 1..Len(line), Sets(line[k])
      PROVE  /\ kept[k + 1] = kept[k] + Len(line[k].tokens)
             /\ \A j \in 1..Len(line[k].tokens) :
                   Flat[kept[k] + j - 1] = line[k].tokens[j]
  <2>1. Ours[k] = line[k].tokens
    BY <1>8, LineType DEF Ours
  <2> QED BY <1>6, <2>1, Zenon
<1> QED
  BY <1>3, <1>4, <1>5, <1>7, <1>8, Zenon

LEMMA LayoutFixed ==
    ASSUME line' = line
    PROVE  /\ args' = args /\ at' = at /\ kept' = kept /\ Flat' = Flat /\ Units' = Units
           /\ WellFormed' = WellFormed /\ Intended' = Intended
           /\ \A q : MeantBefore(q)' = MeantBefore(q)
BY LineFixed DEF at, kept, Flat, Units, MeantBefore, LastMeant

\* What a unit for the worker is made of.
LEMMA UnitOfOurs ==
    ASSUME NEW u \in Unit, Sets(u)
    PROVE  /\ u.tokens \in Seq(Token) /\ Len(u.tokens) \in {1, 2}
           /\ u.tokens[1] \in Token /\ u.tokens[1].dashes \in {1, 2}
           /\ u.tokens[1].name = u.name /\ u.name \in Defined /\ u.name # NoWord
           /\ ~BadBool(u.tokens[1])
           /\ NeedsNext(u.tokens[1]) <=> Len(u.tokens) = 2
           /\ NeedsNext(u.tokens[1]) => u.value = u.tokens[2]
           /\ ~NeedsNext(u.tokens[1]) =>
                 u.value = IF u.tokens[1].inline = NoInline THEN Word("true")
                           ELSE Word(u.tokens[1].inline)
<1>1. u.tokens \in Seq(Token) /\ (Len(u.tokens) >= 1 => u.tokens[1] \in Token)
  BY DEF Unit
<1>2. NoWord \notin Defined
  BY WordsAssumption
<1>3. NeedsNext(u.tokens[1]) => ~BadBool(u.tokens[1])
  BY DEF NeedsNext, BadBool
<1> QED
  BY <1>1, <1>2, <1>3 DEF Sets

\* What the units before q set: the last of them that names a flag decides.
LEMMA LastDecides ==
    ASSUME line \in Lines, NEW q \in Units, NEW f \in Defined
    PROVE  /\ (\A k \in 1..Len(line) : k < q => line[k].name # f) =>
                 MeantBefore(q)[f] = Defaults[f]
           /\ \A k \in 1..Len(line) :
                 (/\ k < q /\ line[k].name = f
                  /\ \A j \in 1..Len(line) : k < j /\ j < q => line[j].name # f) =>
                 MeantBefore(q)[f] = line[k].value
<1> DEFINE on == {k \in DOMAIN line : k < q /\ line[k].name = f}
           max == CHOOSE k \in on : \A j \in on : j <= k
<1>1. MeantBefore(q)[f] = IF on = {} THEN Defaults[f] ELSE line[max].value
  BY Zenon DEF MeantBefore, LastMeant
<1>2. DOMAIN line = 1..Len(line) /\ Len(line) \in Nat
  BY LineType
<1>3. ASSUME \A k \in 1..Len(line) : k < q => line[k].name # f
      PROVE  MeantBefore(q)[f] = Defaults[f]
  BY <1>1, <1>2, <1>3
<1>4. ASSUME NEW k \in 1..Len(line), k < q, line[k].name = f,
             \A j \in 1..Len(line) : k < j /\ j < q => line[j].name # f
      PROVE  MeantBefore(q)[f] = line[k].value
  <2>1. k \in on /\ \A j \in on : j <= k /\ j \in Nat
    BY <1>2, <1>4
  <2>2. max \in on /\ \A j \in on : j <= max
    BY <2>1, Zenon
  <2> HIDE DEF max, on
  <2>3. max <= k /\ k <= max /\ max \in Nat /\ k \in Nat
    BY <2>1, <2>2
  <2>4. max = k
    BY <2>3
  <2> QED BY <1>1, <2>1, <2>4 DEF max, on
<1> QED
  BY <1>3, <1>4

\* Units that name no flag of the worker's between two places make no difference.
LEMMA SameMeant ==
    ASSUME line \in Lines, NEW q \in Units, NEW h \in Units, q <= h,
           \A k \in 1..Len(line) : q <= k /\ k < h => line[k].name \notin Defined
    PROVE  MeantBefore(h) = MeantBefore(q)
<1>1. DOMAIN line = 1..Len(line) /\ Len(line) \in Nat /\ q \in Nat /\ h \in Nat
  BY LineType DEF Units
<1>2. ASSUME NEW f \in Defined
      PROVE  {k \in DOMAIN line : k < h /\ line[k].name = f}
                = {k \in DOMAIN line : k < q /\ line[k].name = f}
  <2>1. ASSUME NEW k \in DOMAIN line
        PROVE  (k < h /\ line[k].name = f) <=> (k < q /\ line[k].name = f)
    <3>1. k < q => k < h
      BY <1>1
    <3>2. k < h /\ line[k].name = f => k < q
      BY <1>1
    <3> QED BY <3>1, <3>2
  <2> QED BY <2>1
<1>3. \A f \in Defined : MeantBefore(h)[f] = MeantBefore(q)[f]
  BY <1>2, Zenon DEF MeantBefore
<1> QED
  BY <1>3, Zenon DEF MeantBefore

LEMMA AllMeant ==
    ASSUME line \in Lines
    PROVE  MeantBefore(Len(line) + 1) = Intended
<1>1. DOMAIN line = 1..Len(line) /\ Len(line) \in Nat
  BY LineType
<1>2. \A f : {k \in DOMAIN line : k < Len(line) + 1 /\ line[k].name = f}
               = {k \in DOMAIN line : line[k].name = f}
  BY <1>1
<1>3. \A f \in Defined : MeantBefore(Len(line) + 1)[f] = Intended[f]
  <2>1. TAKE f \in Defined
  <2>2. MeantBefore(Len(line) + 1)[f] = LastMeant({k \in DOMAIN line : line[k].name = f}, f)
    BY <1>2, Zenon DEF MeantBefore
  <2>3. Intended[f] = LastMeant({k \in DOMAIN line : line[k].name = f}, f)
    BY Zenon DEF Intended, LastMeant
  <2> QED BY <2>2, <2>3
<1> QED
  BY <1>3, Zenon DEF MeantBefore, Intended

\* A unit that is not the worker's has something in it, none of it the worker's.
LEMMA UnitNotOurs ==
    ASSUME NEW u \in Unit, ~Sets(u), Sets(u) \/ Foreign(u)
    PROVE  /\ u.tokens \in Seq(Token) /\ Len(u.tokens) \in Nat \ {0}
           /\ \A k \in 1..Len(u.tokens) :
                 u.tokens[k].dashes = 0 \/ u.tokens[k].name \notin Defined
           /\ u.name \notin Defined
<1>1. u.tokens \in Seq(Token) /\ u.tokens # <<>>
  BY DEF Unit
<1>2. NoWord \notin Defined
  BY WordsAssumption
<1> QED
  BY <1>1, <1>2, EmptySeq DEF Foreign

----------------------------------------------------------------------------
(* On a well-formed line, every step stays on track.                       *)

LEMMA Within ==
    ASSUME NEW x \in Nat, NEW n \in Nat, NEW z \in Nat, x <= z, z < x + n
    PROVE  z - x + 1 \in 1..n /\ x + (z - x + 1) - 1 = z
OBVIOUS

LEMMA AppendTwo ==
    ASSUME NEW S, NEW s \in Seq(S), NEW x \in S, NEW y \in S
    PROVE  /\ s \o <<x, y>> \in Seq(S) /\ Len(s \o <<x, y>>) = Len(s) + 2
           /\ \A k \in 1..Len(s) : (s \o <<x, y>>)[k] = s[k]
           /\ (s \o <<x, y>>)[Len(s) + 1] = x /\ (s \o <<x, y>>)[Len(s) + 2] = y
OBVIOUS

LEMMA AppendOne ==
    ASSUME NEW S, NEW s \in Seq(S), NEW x \in S
    PROVE  /\ Append(s, x) \in Seq(S) /\ Len(Append(s, x)) = Len(s) + 1
           /\ \A k \in 1..Len(s) : Append(s, x)[k] = s[k]
           /\ Append(s, x)[Len(s) + 1] = x
OBVIOUS

LEMMA InitOnTrack ==
    ASSUME Init, WellFormed
    PROVE  OnTrack
<1>1. /\ line \in Lines /\ pc = "filter" /\ i = 1 /\ out = <<>> /\ p = 1 /\ Len(out) = 0
      /\ settings = Defaults
  BY DEF Init
<1>2. Len(line) \in Nat /\ 1 \in Units /\ \A k \in 1..Len(line) : line[k] \in Unit
  BY <1>1, LineType DEF Units
<1>3. FilterIn(1)
  <2>1. 1 <= Len(line) => at[1 + 1] > 1
    <3>1. SUFFICES ASSUME 1 <= Len(line) PROVE at[1 + 1] > 1
      OBVIOUS
    <3>2. line[1] \in Unit /\ 1 \in 1..Len(line)
      BY <1>2, <3>1
    <3>3. Len(line[1].tokens) \in Nat /\ Len(line[1].tokens) >= 1
      BY <3>2, EmptySeq DEF Unit
    <3> QED BY <1>1, <3>2, <3>3, ArgsLayout
  <2>2. at[1] = 1 /\ kept[1] = 1
    BY <1>1, ArgsLayout, KeptLayout
  <2>3. 1 <= Len(line) => 1 < at[1 + 1]
    <3>1. 1 <= Len(line) => at[1 + 1] \in Nat
      BY <1>1, <1>2, ArgsLayout DEF Units
    <3> QED BY <2>1, <3>1
  <2> QED BY <1>1, <2>2, <2>3 DEF FilterIn
<1>4. kept[1] = 1
  BY <1>1, KeptLayout
<1>5. ASSUME NEW q \in Units, kept[q] = p
      PROVE  settings = MeantBefore(q)
  <2>1. ASSUME NEW k \in 1..Len(line), k < q
        PROVE  line[k].name \notin Defined
    <3>1. k \in Units /\ k + 1 \in Units /\ k + 1 <= q
      BY <1>2, <2>1 DEF Units
    <3>2. kept[k] \in Nat /\ kept[k] >= 1 /\ kept[k + 1] <= 1
      BY <1>1, <1>5, <3>1, KeptLayout
    <3>3. ~Sets(line[k])
      <4>1. SUFFICES ASSUME Sets(line[k]) PROVE FALSE
        OBVIOUS
      <4>2. Len(line[k].tokens) \in {1, 2}
        BY <1>2, <4>1, UnitOfOurs
      <4>3. kept[k + 1] = kept[k] + Len(line[k].tokens)
        BY <1>1, <4>1, KeptLayout, Zenon
      <4>4. kept[k + 1] \in Nat
        BY <1>1, <3>1, KeptLayout
      <4>5. Len(line[k].tokens) >= 1
        BY <4>2
      <4> QED BY <3>2, <4>2, <4>3, <4>4, <4>5
    <3>4. Sets(line[k]) \/ Foreign(line[k])
      BY <1>1, LineType, Zenon DEF WellFormed
    <3> QED BY <1>2, <3>3, <3>4, UnitNotOurs
  <2>2. \A f \in Defined : MeantBefore(q)[f] = Defaults[f]
    BY <1>1, <2>1, LastDecides
  <2>3. MeantBefore(q) = [f \in Defined |-> MeantBefore(q)[f]]
    BY Zenon DEF MeantBefore
  <2>4. Defaults = [f \in Defined |-> Defaults[f]]
    BY DefaultsType
  <2> QED BY <1>1, <2>2, <2>3, <2>4, Zenon
<1> QED
  BY <1>1, <1>2, <1>3, <1>4, <1>5 DEF OnTrack, Ends

\* While it filters, the parser and the settings stay where they are.
LEMMA FilterOnTrack ==
    ASSUME OnTrack, pc = "filter", pc' = "filter", UNCHANGED <<line, p, settings>>,
           NEW c \in Units, FilterIn(c)'
    PROVE  OnTrack'
<1>1. /\ line' = line /\ p' = p /\ settings' = settings
      /\ kept' = kept /\ Units' = Units /\ \A q : MeantBefore(q)' = MeantBefore(q)
  BY LayoutFixed
<1>2. \E q \in Units' : kept'[q] = p'
  BY <1>1 DEF OnTrack
<1>3. \A q \in Units' : kept'[q] = p' => settings' = MeantBefore(q)'
  BY <1>1 DEF OnTrack
<1>4. p' = 1 /\ \E d \in Units' : FilterIn(d)'
  BY <1>1 DEF OnTrack
<1> QED
  BY <1>2, <1>3, <1>4 DEF OnTrack, Ends

\* The unit the filter is in when there are arguments left.
LEMMA UnitInFilter ==
    ASSUME TypeOK, WellFormed, NEW c \in Units, FilterIn(c), i <= Len(args)
    PROVE  /\ c \in 1..Len(line) /\ c + 1 \in Units /\ line[c] \in Unit
           /\ at[c] \in Nat /\ at[c + 1] \in Nat /\ kept[c] \in Nat
           /\ at[c + 1] = at[c] + Len(line[c].tokens)
           /\ at[c] <= i /\ i < at[c + 1] /\ i \in Nat
           /\ Len(out) \in Nat /\ Len(out) = kept[c] - 1
           /\ a = line[c].tokens[i - at[c] + 1]
           /\ Sets(line[c]) \/ Foreign(line[c])
<1>1. /\ Len(line) \in Nat /\ DOMAIN line = 1..Len(line)
      /\ \A k \in 1..Len(line) : line[k] \in Unit
      /\ Len(args) \in Nat /\ i \in Nat /\ Len(out) \in Nat
  BY LineType, ArgsType DEF TypeOK
<1>2. c # Len(line) + 1
  BY <1>1, ArgsLayout DEF FilterIn, TypeOK
<1>3. c \in 1..Len(line) /\ c + 1 \in Units
  BY <1>1, <1>2 DEF Units
<1>4. at[c] \in Nat /\ at[c + 1] \in Nat /\ kept[c] \in Nat
  <2>1. /\ at \in [Units -> 1..(Len(args) + 1)] /\ kept \in [Units -> 1..(Len(Flat) + 1)]
        /\ Len(Flat) \in Nat /\ Len(args) \in Nat
    BY <1>1, ArgsLayout, KeptLayout DEF TypeOK
  <2>2. at[c] \in 1..(Len(args) + 1) /\ at[c + 1] \in 1..(Len(args) + 1) /\ kept[c] \in 1..(Len(Flat) + 1)
    BY <1>3, <2>1
  <2> QED BY <2>1, <2>2
<1>5. at[c + 1] = at[c] + Len(line[c].tokens)
  BY <1>3, ArgsLayout DEF TypeOK
<1>6. at[c] <= i /\ i < at[c + 1] /\ Len(out) = kept[c] - 1
  BY <1>1, <1>3 DEF FilterIn
<1>7. Len(line[c].tokens) \in Nat
  BY <1>1, <1>3 DEF Unit
<1>8. i - at[c] + 1 \in 1..Len(line[c].tokens) /\ at[c] + (i - at[c] + 1) - 1 = i
  <2>1. i < at[c] + Len(line[c].tokens)
    BY <1>5, <1>6
  <2> QED BY <1>1, <1>4, <1>6, <1>7, <2>1, Within, Zenon
<1>9. a = line[c].tokens[i - at[c] + 1]
  BY <1>3, <1>8, ArgsLayout DEF TypeOK, a
<1>10. Sets(line[c]) \/ Foreign(line[c])
  BY <1>1, <1>3, Zenon DEF WellFormed
<1> QED
  BY <1>1, <1>3, <1>4, <1>5, <1>6, <1>9, <1>10

\* Having kept what unit c is kept for, the filter is at the start of the next.
LEMMA NextUnit ==
    ASSUME TypeOK, WellFormed, line' = line, NEW c \in 1..Len(line),
           i' = at[c + 1], Len(out') = kept[c + 1] - 1,
           \A k \in 1..Len(out') : out'[k] = Flat[k]
    PROVE  FilterIn(c + 1)'
<1>1. /\ Len(line) \in Nat /\ DOMAIN line = 1..Len(line)
      /\ \A k \in 1..Len(line) : line[k] \in Unit
  BY LineType DEF TypeOK
<1>2. /\ at' = at /\ kept' = kept /\ Flat' = Flat /\ c \in Nat
  BY LayoutFixed
<1>3. ASSUME c + 1 <= Len(line)
      PROVE  at[c + 1] < at[c + 1 + 1]
  <2>1. c + 1 \in 1..Len(line) /\ c + 1 \in Units
    BY <1>1, <1>3 DEF Units
  <2>2. line[c + 1] \in Unit /\ at[c + 1] \in Nat
    BY <1>1, <2>1, ArgsLayout, ArgsType DEF TypeOK
  <2>3. Len(line[c + 1].tokens) \in Nat /\ Len(line[c + 1].tokens) >= 1
    BY <2>2, EmptySeq DEF Unit
  <2>4. at[c + 1 + 1] = at[c + 1] + Len(line[c + 1].tokens)
    BY <2>1, ArgsLayout DEF TypeOK
  <2> QED BY <2>2, <2>3, <2>4
<1>4. at[c + 1] <= i'
  <2>1. c + 1 \in Units /\ Len(args) \in Nat
    BY <1>1, ArgsType DEF Units, TypeOK
  <2>2. at[c + 1] \in Nat
    BY <2>1, ArgsLayout DEF TypeOK
  <2> QED BY <2>2
<1> QED
  BY <1>2, <1>3, <1>4 DEF FilterIn

LEMMA DropOnTrack ==
    ASSUME TypeOK, WellFormed, OnTrack, Drop
    PROVE  OnTrack'
<1>1. /\ pc = "filter" /\ pc' = "filter" /\ i <= Len(args) /\ i' = i + 1
      /\ line' = line /\ out' = out /\ p' = p /\ settings' = settings
      /\ a.dashes = 0 \/ a.name \notin Defined
  BY DEF Drop, Filtering
<1>2. PICK c \in Units : FilterIn(c)
  BY <1>1 DEF OnTrack
<1>3. /\ c \in 1..Len(line) /\ c + 1 \in Units /\ line[c] \in Unit
      /\ at[c] \in Nat /\ at[c + 1] \in Nat
      /\ at[c] <= i /\ i < at[c + 1] /\ i \in Nat /\ Len(out) = kept[c] - 1
      /\ a = line[c].tokens[i - at[c] + 1]
      /\ Sets(line[c]) \/ Foreign(line[c])
  BY <1>1, <1>2, UnitInFilter
<1>4. ~Sets(line[c])
  <2>1. SUFFICES ASSUME Sets(line[c]) PROVE FALSE
    OBVIOUS
  <2>2. i = at[c]
    BY <1>2, <1>3, <2>1, LineType DEF FilterIn, TypeOK
  <2>3. i - at[c] + 1 = 1
    BY <1>3, <2>2
  <2>4. a = line[c].tokens[1]
    BY <1>3, <2>3
  <2>5. a.dashes \in {1, 2} /\ a.name \in Defined
    BY <1>3, <2>1, <2>4, UnitOfOurs
  <2> QED BY <1>1, <2>5
<1>5. \A k \in 1..Len(out) : out[k] = Flat[k]
  BY <1>2 DEF FilterIn
<1>6. kept[c + 1] = kept[c]
  BY <1>3, <1>4, KeptLayout DEF TypeOK
<1>7. CASE i + 1 < at[c + 1]
  <2>1. /\ at' = at /\ kept' = kept /\ Flat' = Flat
    BY <1>1, LayoutFixed
  <2>2. at[c] <= i'
    BY <1>1, <1>3
  <2>3. FilterIn(c)'
    BY <1>1, <1>3, <1>4, <1>5, <1>7, <2>1, <2>2 DEF FilterIn
  <2> QED BY <1>1, <2>3, FilterOnTrack
<1>8. CASE ~(i + 1 < at[c + 1])
  <2>1. i' = at[c + 1]
    BY <1>1, <1>3, <1>8
  <2>2. FilterIn(c + 1)'
    BY <1>1, <1>3, <1>5, <1>6, <2>1, NextUnit
  <2> QED BY <1>1, <1>3, <2>2, FilterOnTrack
<1> QED
  BY <1>7, <1>8

LEMMA KeepOnTrack ==
    ASSUME TypeOK, WellFormed, OnTrack, Keep
    PROVE  OnTrack'
<1>1. /\ pc = "filter" /\ pc' = "filter" /\ i <= Len(args) /\ a.dashes > 0 /\ a.name \in Defined
      /\ line' = line /\ p' = p /\ settings' = settings
  BY DEF Keep, Filtering
<1>2. PICK c \in Units : FilterIn(c)
  BY <1>1 DEF OnTrack
<1>3. /\ c \in 1..Len(line) /\ c + 1 \in Units /\ line[c] \in Unit
      /\ at[c] \in Nat /\ at[c + 1] \in Nat /\ kept[c] \in Nat
      /\ at[c + 1] = at[c] + Len(line[c].tokens)
      /\ at[c] <= i /\ i < at[c + 1] /\ i \in Nat
      /\ Len(out) \in Nat /\ Len(out) = kept[c] - 1
      /\ a = line[c].tokens[i - at[c] + 1]
      /\ Sets(line[c]) \/ Foreign(line[c])
  BY <1>1, <1>2, UnitInFilter
<1>4. Sets(line[c])
  <2>1. SUFFICES ASSUME ~Sets(line[c]) PROVE FALSE
    OBVIOUS
  <2>2. i - at[c] + 1 \in 1..Len(line[c].tokens)
    <3>1. Len(line[c].tokens) \in Nat
      BY <1>3, <2>1, UnitNotOurs
    <3>2. i < at[c] + Len(line[c].tokens)
      BY <1>3
    <3> QED BY <1>3, <3>1, <3>2, Within, Zenon
  <2>3. a.dashes = 0 \/ a.name \notin Defined
    BY <1>3, <2>1, <2>2, UnitNotOurs
  <2>4. a.dashes # 0
    BY <1>1
  <2> QED BY <1>1, <2>3, <2>4
<1> DEFINE u == line[c]
<1>5. /\ u.tokens \in Seq(Token) /\ Len(u.tokens) \in {1, 2} /\ u.tokens[1] \in Token
      /\ NeedsNext(u.tokens[1]) <=> Len(u.tokens) = 2
  BY <1>3, <1>4, UnitOfOurs
<1>6. i = at[c] /\ a = u.tokens[1]
  <2>1. i = at[c]
    BY <1>2, <1>3, <1>4, LineType DEF FilterIn, TypeOK
  <2>2. i - at[c] + 1 = 1
    BY <1>3, <2>1
  <2> QED BY <1>3, <2>1, <2>2
<1>7. /\ kept[c + 1] = kept[c] + Len(u.tokens)
      /\ \A j \in 1..Len(u.tokens) : Flat[kept[c] + j - 1] = u.tokens[j]
      /\ \A j \in 1..Len(u.tokens) : args[at[c] + j - 1] = u.tokens[j]
      /\ at[c + 1] <= Len(args) + 1 /\ Len(args) \in Nat
  <2>1. line \in Lines /\ Len(args) \in Nat
    BY ArgsType DEF TypeOK
  <2>2. at[c + 1] \in 1..(Len(args) + 1)
    BY <1>3, <2>1, ArgsLayout
  <2>3. at[c + 1] <= Len(args) + 1
    BY <2>1, <2>2
  <2>4. \A j \in 1..Len(u.tokens) : args[at[c] + j - 1] = u.tokens[j]
    BY <1>3, <2>1, ArgsLayout, Zenon
  <2>5. /\ kept[c + 1] = kept[c] + Len(u.tokens)
        /\ \A j \in 1..Len(u.tokens) : Flat[kept[c] + j - 1] = u.tokens[j]
    BY <1>3, <1>4, <2>1, KeptLayout, Zenon
  <2> QED BY <2>1, <2>3, <2>4, <2>5
<1> HIDE DEF u
<1>8. TakesNext(a) <=> (NeedsNext(a) /\ i < Len(args))
  BY <1>1, <1>5, <1>6, TakesOrNeeds
<1>9. out \in Seq(Token) /\ \A k \in 1..Len(out) : out[k] = Flat[k]
  BY <1>2 DEF FilterIn, TypeOK
<1>10. /\ out' \in Seq(Token) /\ Len(out') = Len(out) + Len(u.tokens) /\ i' = i + Len(u.tokens)
       /\ \A k \in 1..Len(out') : out'[k] = Flat[k]
  <2>1. CASE Len(u.tokens) = 2
    <3>1. i < Len(args)
      BY <1>3, <1>6, <1>7, <2>1 DEF u
    <3>2. TakesNext(a)
      BY <1>5, <1>6, <1>8, <2>1, <3>1
    <3>3. out' = out \o <<a, args[i + 1]>> /\ i' = i + 2
      BY <3>2 DEF Keep
    <3>4. at[c] + 2 - 1 = i + 1
      BY <1>3, <1>6
    <3>5. args[i + 1] = u.tokens[2] /\ u.tokens[2] \in Token
      BY <1>5, <1>7, <2>1, <3>4
    <3>6. kept[c] + 1 - 1 = Len(out) + 1 /\ kept[c] + 2 - 1 = Len(out) + 2
      BY <1>3
    <3>7. Flat[Len(out) + 1] = a /\ Flat[Len(out) + 2] = args[i + 1]
      BY <1>6, <1>7, <2>1, <3>5, <3>6
    <3>9. /\ out' \in Seq(Token) /\ Len(out') = Len(out) + 2
          /\ \A k \in 1..Len(out) : out'[k] = out[k]
          /\ out'[Len(out) + 1] = a /\ out'[Len(out) + 2] = args[i + 1]
      <4>1. a \in Token /\ args[i + 1] \in Token
        BY <1>5, <1>6, <3>5
      <4> DEFINE longer == out \o <<a, args[i + 1]>>
      <4>2. /\ longer \in Seq(Token) /\ Len(longer) = Len(out) + 2
            /\ \A k \in 1..Len(out) : longer[k] = out[k]
            /\ longer[Len(out) + 1] = a /\ longer[Len(out) + 2] = args[i + 1]
        BY <1>9, <4>1, AppendTwo
      <4>3. out' = longer
        BY <3>3
      <4> HIDE DEF longer
      <4> QED BY <4>2, <4>3
    <3>10. \A k \in 1..Len(out') : k \in 1..Len(out) \/ k = Len(out) + 1 \/ k = Len(out) + 2
      <4>1. Len(out) \in Nat /\ Len(out') = Len(out) + 2
        BY <1>3, <3>9
      <4> QED BY <4>1
    <3>11. \A k \in 1..Len(out') : out'[k] = Flat[k]
      BY <1>9, <3>7, <3>9, <3>10
    <3> QED BY <2>1, <3>3, <3>9, <3>11
  <2>2. CASE Len(u.tokens) = 1
    <3>1. ~TakesNext(a)
      BY <1>5, <1>6, <1>8, <2>2
    <3>2. out' = Append(out, a) /\ i' = i + 1
      BY <3>1 DEF Keep
    <3>3. kept[c] + 1 - 1 = Len(out) + 1
      BY <1>3
    <3>4. Flat[Len(out) + 1] = a
      BY <1>6, <1>7, <2>2, <3>3
    <3>5. /\ out' \in Seq(Token) /\ Len(out') = Len(out) + 1
          /\ \A k \in 1..Len(out) : out'[k] = out[k]
          /\ out'[Len(out) + 1] = a
      <4>1. a \in Token
        BY <1>5, <1>6
      <4> DEFINE longer == Append(out, a)
      <4>2. /\ longer \in Seq(Token) /\ Len(longer) = Len(out) + 1
            /\ \A k \in 1..Len(out) : longer[k] = out[k]
            /\ longer[Len(out) + 1] = a
        BY <1>9, <4>1, AppendOne
      <4>3. out' = longer
        BY <3>2
      <4> HIDE DEF longer
      <4> QED BY <4>2, <4>3
    <3>6. \A k \in 1..Len(out') : k \in 1..Len(out) \/ k = Len(out) + 1
      BY <1>3, <3>5
    <3>7. \A k \in 1..Len(out') : out'[k] = Flat[k]
      BY <1>9, <3>4, <3>5, <3>6
    <3> QED BY <2>2, <3>2, <3>5, <3>7
  <2> QED BY <1>5, <2>1, <2>2
<1>11. i' = at[c + 1] /\ Len(out') = kept[c + 1] - 1
  <2>1. at[c + 1] = at[c] + Len(u.tokens) /\ Len(u.tokens) \in Nat
    BY <1>3, <1>5 DEF u
  <2> QED BY <1>3, <1>6, <1>7, <1>10, <2>1
<1>12. FilterIn(c + 1)'
  BY <1>1, <1>3, <1>10, <1>11, NextUnit
<1> QED
  BY <1>1, <1>3, <1>12, FilterOnTrack

LEMMA FilteredOnTrack ==
    ASSUME TypeOK, WellFormed, OnTrack, Filtered
    PROVE  OnTrack'
<1>1. /\ pc = "filter" /\ pc' = "parse" /\ ~(i <= Len(args))
      /\ line' = line /\ out' = out /\ p' = p /\ settings' = settings
  <2>1. i \in Nat /\ Len(args) \in Nat
    BY ArgsType DEF TypeOK
  <2> QED BY <2>1 DEF Filtered
<1>2. PICK c \in Units : FilterIn(c)
  BY <1>1 DEF OnTrack
<1>3. Len(line) \in Nat /\ Len(args) \in Nat /\ i \in Nat /\ Len(out) \in Nat
  BY LineType, ArgsType DEF TypeOK
<1>4. c = Len(line) + 1
  <2>1. SUFFICES ASSUME c # Len(line) + 1 PROVE FALSE
    OBVIOUS
  <2>2. c <= Len(line) /\ c + 1 \in Units
    BY <1>3, <2>1 DEF Units
  <2>3. i < at[c + 1]
    BY <1>2, <2>2 DEF FilterIn
  <2>4. at[c + 1] \in 1..(Len(args) + 1)
    BY <2>2, ArgsLayout DEF TypeOK
  <2> QED BY <1>1, <1>3, <2>3, <2>4
<1>5. out = Flat
  <2>1. kept[Len(line) + 1] = Len(Flat) + 1 /\ Flat \in Seq(Token) /\ Len(Flat) \in Nat
    BY KeptLayout DEF TypeOK
  <2>2. Len(out) = Len(Flat) /\ \A k \in 1..Len(out) : out[k] = Flat[k]
    BY <1>2, <1>3, <1>4, <2>1 DEF FilterIn
  <2>3. out \in Seq(Token)
    BY DEF TypeOK
  <2> QED BY <2>1, <2>2, <2>3, SeqEqual
<1>6. /\ kept' = kept /\ Units' = Units /\ Flat' = Flat
      /\ \A q : MeantBefore(q)' = MeantBefore(q)
  BY <1>1, LayoutFixed
<1>7. \E q \in Units' : kept'[q] = p'
  BY <1>1, <1>6 DEF OnTrack
<1>8. \A q \in Units' : kept'[q] = p' => settings' = MeantBefore(q)'
  BY <1>1, <1>6 DEF OnTrack
<1>9. out' = Flat'
  BY <1>1, <1>5, <1>6
<1> QED
  BY <1>1, <1>7, <1>8, <1>9 DEF OnTrack, Ends

\* What stands where the parser reads: the first argument of a unit of the worker's.
LEMMA UnitInParser ==
    ASSUME TypeOK, WellFormed, OnTrack, Parsing
    PROVE  \E q \in 1..Len(line) :
              /\ line[q] \in Unit /\ Sets(line[q])
              /\ q \in Units /\ q + 1 \in Units
              /\ kept[q] = p /\ kept[q + 1] = p + Len(line[q].tokens)
              /\ t = line[q].tokens[1]
              /\ Len(line[q].tokens) = 2 => out[p + 1] = line[q].tokens[2]
              /\ p + Len(line[q].tokens) <= Len(out) + 1
<1>1. /\ out = Flat /\ p <= Len(out) /\ p \in Nat /\ p >= 1 /\ Len(Flat) \in Nat
      /\ Len(line) \in Nat /\ line \in Lines
  BY LineType, KeptLayout DEF OnTrack, Parsing, TypeOK
<1>2. /\ kept \in [Units -> 1..(Len(Flat) + 1)] /\ kept[1] = 1 /\ kept[Len(line) + 1] = Len(Flat) + 1
      /\ \A j, k \in Units : j <= k => kept[j] <= kept[k]
  BY <1>1, KeptLayout
<1> DEFINE T == {k \in Units : kept[k] > p}
<1>3. PICK h \in Units : kept[h] > p /\ \A k \in Units : k < h => kept[k] <= p
  <2>1. Len(line) + 1 \in T
    BY <1>1, <1>2 DEF Units
  <2>2. T \subseteq Nat
    BY DEF Units
  <2>3. PICK h \in T : \A k \in T : h <= k
    <3> HIDE DEF T
    <3> QED BY <2>1, <2>2, LeastOf
  <2>4. ASSUME NEW k \in Units, k < h PROVE kept[k] <= p
    <3>1. k \notin T
      BY <2>2, <2>3, <2>4
    <3>2. kept[k] \in Nat
      BY <1>1, <1>2
    <3> QED BY <1>1, <3>1, <3>2
  <2> QED BY <2>3, <2>4
<1>4. h # 1
  BY <1>1, <1>2, <1>3
<1>5. PICK q \in 1..Len(line) : h = q + 1
  <2>1. h - 1 \in 1..Len(line) /\ h = h - 1 + 1
    BY <1>1, <1>3, <1>4 DEF Units
  <2> QED BY <2>1
<1>6. q \in Units /\ q + 1 \in Units /\ q \in Nat /\ line[q] \in Unit
  BY <1>1, <1>3, <1>5, LineType DEF Units
<1>7. kept[q] = p
  <2>1. PICK k \in Units : kept[k] = p
    BY DEF OnTrack
  <2>2. k \in Nat /\ kept[k] \in Nat /\ kept[q] \in Nat /\ kept[h] \in Nat
    BY <1>1, <1>2, <1>3, <1>6 DEF Units
  <2>3. kept[q] <= p
    BY <1>3, <1>5, <1>6
  <2>4. ~(q + 1 <= k)
    BY <1>1, <1>2, <1>3, <1>5, <2>1, <2>2
  <2>5. k <= q
    BY <1>6, <2>2, <2>4
  <2>6. p <= kept[q]
    BY <1>2, <1>6, <2>1, <2>5
  <2> QED BY <1>1, <2>2, <2>3, <2>6
<1>8. Sets(line[q])
  <2>1. kept[q + 1] # kept[q]
    BY <1>1, <1>3, <1>5, <1>7
  <2> QED BY <1>1, <2>1, KeptLayout, Zenon
<1>9. /\ kept[q + 1] = kept[q] + Len(line[q].tokens)
      /\ \A j \in 1..Len(line[q].tokens) : Flat[kept[q] + j - 1] = line[q].tokens[j]
  BY <1>1, <1>8, KeptLayout, Zenon
<1>10. Len(line[q].tokens) \in {1, 2}
  BY <1>6, <1>8, UnitOfOurs
<1>11. t = line[q].tokens[1]
  <2>1. 1 \in 1..Len(line[q].tokens)
    <3>1. \A n \in {1, 2} : 1 \in 1..n
      OBVIOUS
    <3> QED BY <1>10, <3>1, Zenon
  <2>2. kept[q] + 1 - 1 = p
    BY <1>1, <1>7
  <2> QED BY <1>1, <1>9, <2>1, <2>2 DEF t
<1>12. Len(line[q].tokens) = 2 => out[p + 1] = line[q].tokens[2]
  <2>1. Len(line[q].tokens) = 2 => 2 \in 1..Len(line[q].tokens)
    OBVIOUS
  <2>2. kept[q] + 2 - 1 = p + 1
    BY <1>1, <1>7
  <2> QED BY <1>1, <1>9, <2>1, <2>2
<1>13. p + Len(line[q].tokens) <= Len(out) + 1
  <2>1. kept[q + 1] \in 1..(Len(Flat) + 1)
    BY <1>2, <1>6
  <2> QED BY <1>1, <1>7, <1>9, <2>1
<1> QED
  BY <1>6, <1>7, <1>8, <1>9, <1>11, <1>12, <1>13

LEMMA SetOnTrack ==
    ASSUME TypeOK, WellFormed, OnTrack, SetFlag
    PROVE  OnTrack'
<1>1. /\ pc = "parse" /\ pc' = "parse" /\ line' = line /\ out' = out /\ Parsing
  BY DEF SetFlag, Parsing
<1>2. PICK q \in 1..Len(line) :
              /\ line[q] \in Unit /\ Sets(line[q])
              /\ q \in Units /\ q + 1 \in Units
              /\ kept[q] = p /\ kept[q + 1] = p + Len(line[q].tokens)
              /\ t = line[q].tokens[1]
              /\ Len(line[q].tokens) = 2 => out[p + 1] = line[q].tokens[2]
  BY <1>1, UnitInParser
<1> DEFINE u == line[q]
<1>3. /\ u.tokens[1].name = u.name /\ u.name \in Defined
      /\ Len(u.tokens) \in {1, 2}
      /\ NeedsNext(t) <=> Len(u.tokens) = 2
      /\ NeedsNext(t) => u.value = u.tokens[2]
      /\ ~NeedsNext(t) => u.value = IF t.inline = NoInline THEN Word("true") ELSE Word(t.inline)
  BY <1>2, UnitOfOurs
<1>4. settings' = [settings EXCEPT ![u.name] = u.value] /\ p' = p + Len(u.tokens)
  <2>1. CASE NeedsNext(t)
    <3>1. settings' = [settings EXCEPT ![t.name] = out[p + 1]] /\ p' = p + 2
      BY <2>1 DEF SetFlag
    <3> QED BY <1>2, <1>3, <2>1, <3>1
  <2>2. CASE ~NeedsNext(t)
    <3>1. /\ settings' = [settings EXCEPT ![t.name] =
                            IF t.inline = NoInline THEN Word("true") ELSE Word(t.inline)]
          /\ p' = p + 1
      BY <2>2 DEF SetFlag
    <3> QED BY <1>2, <1>3, <2>2, <3>1
  <2> QED BY <2>1, <2>2
<1> HIDE DEF u
<1>5. /\ kept' = kept /\ Units' = Units /\ Flat' = Flat
      /\ \A h : MeantBefore(h)' = MeantBefore(h)
  BY <1>1, LayoutFixed
<1>6. \E h \in Units' : kept'[h] = p'
  BY <1>2, <1>4, <1>5 DEF u
<1>7. ASSUME NEW h \in Units, kept[h] = p'
      PROVE  settings' = MeantBefore(h)
  <2>1. /\ Len(line) \in Nat /\ p \in Nat /\ h \in Nat /\ q \in Nat
        /\ \A k \in 1..Len(line) : line[k] \in Unit
        /\ DOMAIN line = 1..Len(line) /\ line \in Lines
    BY LineType DEF TypeOK, Units
  <2>2. /\ kept \in [Units -> 1..(Len(Flat) + 1)] /\ Len(Flat) \in Nat
        /\ \A j, k \in Units : j <= k => kept[j] <= kept[k]
    BY <2>1, KeptLayout
  <2>3. p' > p /\ p' \in Nat /\ kept[q + 1] = p'
    BY <1>2, <1>3, <1>4, <2>1 DEF u
  <2>4. q < h
    <3>1. ~(h <= q)
      BY <1>2, <1>7, <2>1, <2>2, <2>3
    <3> QED BY <2>1, <3>1
  <2>5. ASSUME NEW k \in 1..Len(line), q < k, k < h
        PROVE  line[k].name \notin Defined
    <3>1. k \in Units /\ k + 1 \in Units /\ q + 1 <= k /\ k + 1 <= h
      BY <2>1, <2>5 DEF Units
    <3>2. kept[k] \in Nat /\ kept[k] >= p' /\ kept[k + 1] <= p'
      BY <1>2, <1>7, <2>2, <2>3, <3>1
    <3>3. ~Sets(line[k])
      <4>1. SUFFICES ASSUME Sets(line[k]) PROVE FALSE
        OBVIOUS
      <4>2. Len(line[k].tokens) \in {1, 2}
        BY <2>1, <4>1, UnitOfOurs
      <4>3. kept[k + 1] = kept[k] + Len(line[k].tokens)
        BY <2>1, <4>1, KeptLayout, Zenon
      <4>4. \A n \in {1, 2} : n >= 1 /\ n \in Nat
        OBVIOUS
      <4>5. Len(line[k].tokens) >= 1 /\ Len(line[k].tokens) \in Nat
        BY <4>2, <4>4, Zenon
      <4> QED BY <2>3, <3>2, <4>3, <4>5
    <3>4. Sets(line[k]) \/ Foreign(line[k])
      BY <2>1, Zenon DEF WellFormed
    <3> QED BY <2>1, <3>3, <3>4, UnitNotOurs
  <2>6. MeantBefore(h)[u.name] = u.value
    <3>1. line[q].name = u.name /\ line[q].value = u.value
      BY DEF u
    <3>2. \A j \in 1..Len(line) : q < j /\ j < h => line[j].name # u.name
      BY <1>3, <2>5
    <3> QED BY <1>3, <2>1, <2>4, <3>1, <3>2, LastDecides
  <2>7. settings = MeantBefore(q)
    BY <1>2 DEF OnTrack
  <2>8. ASSUME NEW f \in Defined, f # u.name
        PROVE  MeantBefore(h)[f] = MeantBefore(q)[f]
    <3>1. ASSUME NEW k \in DOMAIN line
          PROVE  (k < h /\ line[k].name = f) <=> (k < q /\ line[k].name = f)
      <4>1. k \in 1..Len(line) /\ k \in Nat
        BY <2>1
      <4>2. CASE k < q
        BY <2>1, <2>4, <4>1, <4>2
      <4>3. CASE k = q
        BY <2>8, <4>3 DEF u
      <4>4. CASE q < k
        BY <2>1, <2>5, <2>8, <4>1, <4>4
      <4> QED BY <2>1, <4>1, <4>2, <4>3, <4>4
    <3>2. {k \in DOMAIN line : k < h /\ line[k].name = f}
             = {k \in DOMAIN line : k < q /\ line[k].name = f}
      BY <3>1
    <3> QED BY <3>2, Zenon DEF MeantBefore
  <2>9. /\ MeantBefore(h) = [f \in Defined |-> MeantBefore(h)[f]]
        /\ MeantBefore(q) = [f \in Defined |-> MeantBefore(q)[f]]
    BY Zenon DEF MeantBefore
  <2>10. settings' = [f \in Defined |-> IF f = u.name THEN u.value ELSE MeantBefore(q)[f]]
    BY <1>3, <1>4, <2>7, <2>9
  <2>11. \A f \in Defined : (IF f = u.name THEN u.value ELSE MeantBefore(q)[f]) = MeantBefore(h)[f]
    BY <2>6, <2>8
  <2> QED BY <2>9, <2>10, <2>11
<1>8. \A h \in Units' : kept'[h] = p' => settings' = MeantBefore(h)'
  BY <1>5, <1>7
<1>9. out' = Flat'
  BY <1>1, <1>5 DEF OnTrack
<1> QED
  BY <1>1, <1>6, <1>8, <1>9 DEF OnTrack, Ends

\* The parser reports no error.
LEMMA NoParseError ==
    ASSUME TypeOK, WellFormed, OnTrack, ParseError
    PROVE  FALSE
<1>1. Parsing
  BY DEF ParseError
<1>2. PICK q \in 1..Len(line) :
              /\ line[q] \in Unit /\ Sets(line[q])
              /\ t = line[q].tokens[1]
              /\ p + Len(line[q].tokens) <= Len(out) + 1
  BY <1>1, UnitInParser
<1>3. /\ t.dashes \in {1, 2} /\ t.name \in Defined /\ ~BadBool(t)
      /\ NeedsNext(t) <=> Len(line[q].tokens) = 2
  BY <1>2, UnitOfOurs
<1>4. ~BadSyntax(t)
  BY <1>3, WordsAssumption DEF BadSyntax
<1>5. ~(NeedsNext(t) /\ p = Len(out))
  <2>1. p \in Nat /\ Len(out) \in Nat
    BY DEF TypeOK
  <2>2. NeedsNext(t) => p + 2 <= Len(out) + 1
    BY <1>2, <1>3
  <2> QED BY <2>1, <2>2
<1> QED
  BY <1>3, <1>4, <1>5, Zenon DEF ParseError

\* Nothing stops the parser before the end.
LEMMA ParseEndsAtEnd ==
    ASSUME TypeOK, WellFormed, OnTrack, ParseEnds
    PROVE  settings = Intended
<1>1. ~(p <= Len(out))
  <2>1. SUFFICES ASSUME p <= Len(out) PROVE FALSE
    OBVIOUS
  <2>2. Parsing /\ Stops(t)
    BY <2>1 DEF ParseEnds, Parsing
  <2>3. PICK q \in 1..Len(line) :
              /\ line[q] \in Unit /\ Sets(line[q])
              /\ t = line[q].tokens[1]
    BY <2>2, UnitInParser
  <2>4. t.dashes \in {1, 2} /\ t.name # NoWord
    BY <2>3, UnitOfOurs
  <2> QED BY <2>2, <2>4 DEF Stops
<1>2. pc = "parse" /\ out = Flat /\ line \in Lines
  BY DEF ParseEnds, OnTrack, TypeOK
<1>3. p = Len(Flat) + 1
  BY <1>1, <1>2 DEF TypeOK
<1>4. kept[Len(line) + 1] = p /\ Len(line) + 1 \in Units
  BY <1>2, <1>3, KeptLayout, LineType DEF Units
<1>5. settings = MeantBefore(Len(line) + 1)
  BY <1>4 DEF OnTrack
<1> QED
  BY <1>2, <1>5, AllMeant

LEMMA NextOnTrack ==
    ASSUME TypeOK, WellFormed, OnTrack, [Next]_vars
    PROVE  WellFormed' /\ OnTrack'
<1>1. line' = line
  BY DEF Next, Drop, Keep, Filtered, SetFlag, ParseError, ParseEnds, Serve, Started, vars
<1>2. /\ WellFormed' = WellFormed /\ at' = at /\ kept' = kept /\ Flat' = Flat /\ Units' = Units
      /\ Intended' = Intended /\ args' = args /\ \A h : MeantBefore(h)' = MeantBefore(h)
  BY <1>1, LayoutFixed
<1>3. ASSUME out' = out, p' = p, settings' = settings
      PROVE  /\ \E q \in Units' : kept'[q] = p'
             /\ \A q \in Units' : kept'[q] = p' => settings' = MeantBefore(q)'
             /\ pc # "filter" => out' = Flat'
  BY <1>2, <1>3 DEF OnTrack
<1>4. CASE ParseEnds
  <2>1. settings = Intended
    BY <1>4, ParseEndsAtEnd
  <2>2. pc = "parse" /\ pc' = "apply" /\ out' = out /\ p' = p /\ settings' = settings
    BY <1>4 DEF ParseEnds
  <2> QED BY <1>2, <1>3, <2>1, <2>2 DEF OnTrack, Ends
<1>5. CASE Serve
  <2>1. /\ pc = "apply" /\ out' = out /\ p' = p /\ settings' = settings
        /\ pc' \in Outcomes(settings)
    BY <1>5 DEF Serve
  <2>2. settings = Intended
    BY <2>1 DEF OnTrack
  <2>3. pc' \in {"http", "unix", "stdio", "fatal"}
    BY <2>1 DEF Outcomes, Transport
  <2>4. pc' \in Outcomes(settings')
    BY <2>1
  <2> QED BY <1>2, <1>3, <2>1, <2>2, <2>3, <2>4 DEF OnTrack
<1>6. CASE UNCHANGED vars
  <2>1. /\ pc' = pc /\ i' = i /\ out' = out /\ p' = p /\ settings' = settings
    BY <1>6 DEF vars
  <2>2. \A c : FilterIn(c)' <=> FilterIn(c)
    BY <1>1, <1>2, <2>1 DEF FilterIn
  <2> QED BY <1>2, <1>3, <2>1, <2>2 DEF OnTrack
<1>7. CASE Started
  BY <1>6, <1>7 DEF Started
<1> QED
  BY <1>2, <1>4, <1>5, <1>6, <1>7, DropOnTrack, KeepOnTrack, FilteredOnTrack, SetOnTrack,
     NoParseError DEF Next

LEMMA TypesAndTrack == Spec => [](TypeOK /\ (WellFormed => OnTrack))
<1>1. Init => TypeOK /\ (WellFormed => OnTrack)
  BY InitType, InitOnTrack
<1>2. TypeOK /\ (WellFormed => OnTrack) /\ [Next]_vars => (TypeOK /\ (WellFormed => OnTrack))'
  <2>1. SUFFICES ASSUME TypeOK, WellFormed => OnTrack, [Next]_vars
                 PROVE  TypeOK' /\ (WellFormed' => OnTrack')
    OBVIOUS
  <2>2. TypeOK'
    BY <2>1, NextType
  <2>3. WellFormed' = WellFormed
    <3>1. line' = line
      BY <2>1 DEF Next, Drop, Keep, Filtered, SetFlag, ParseError, ParseEnds, Serve, Started, vars
    <3> QED BY <3>1, LineFixed
  <2>4. WellFormed => OnTrack'
    BY <2>1, NextOnTrack
  <2> QED BY <2>2, <2>3, <2>4
<1> QED
  BY <1>1, <1>2, PTL DEF Spec

\* Start-up never exits on a command line made of flags of the worker, of any
\* flags that are not, and of stray words (main.go, filterKnownFlags).
THEOREM LauncherFlagsToleratedHolds == Spec => []LauncherFlagsTolerated
<1>1. TypeOK /\ (WellFormed => OnTrack) => LauncherFlagsTolerated
  BY DEF OnTrack, LauncherFlagsTolerated
<1> QED
  BY <1>1, TypesAndTrack, PTL

\* ... and each flag of the worker has the last value meant for it, whatever
\* stands between, so that the transport meant is served (main.go, main).
THEOREM StartsAsIntendedHolds == Spec => []StartsAsIntended
<1>1. TypeOK /\ (WellFormed => OnTrack) => StartsAsIntended
  <2>1. SUFFICES ASSUME WellFormed, OnTrack, pc \in Ends
                 PROVE  /\ settings = Intended
                        /\ pc \in Outcomes(Intended)
    BY DEF StartsAsIntended
  <2>2. pc \notin {"filter", "parse"}
    BY <2>1 DEF Ends
  <2>3. settings = Intended /\ pc \in Outcomes(settings)
    BY <2>1, <2>2 DEF OnTrack
  <2> QED BY <2>3
<1> QED
  BY <1>1, TypesAndTrack, PTL
=============================================================================
