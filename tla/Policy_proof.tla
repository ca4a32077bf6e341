------------------------------ MODULE Policy_proof ------------------------------
(***************************************************************************)
(* What the policy decides about a text of any length: normalization, the  *)
(* clauses around a risk phrase, its stance and the decision.              *)
(***************************************************************************)
EXTENDS Coordinator, FiniteSetTheorems, WellFoundedInduction, SequenceTheorems, TLAPS

-----------------------------------------------------------------------------
(* Numbers, finite sets and folds.  The library states induction over an       *)
(* operator; over a set it follows from the order of the naturals.             *)

(* A nonempty set of naturals has a smallest element.                          *)
LEMMA SmallestExists ==
  ASSUME NEW T \in SUBSET Nat, T # {}
  PROVE  \E x \in T : \A y \in T : x <= y
<1> DEFINE R == OpToRel(<, Nat)
<1>1. IsWellFoundedOn(R, Nat)
  BY NatLessThanWellFounded
<1>2. \A x, y \in Nat : <<y, x>> \in R <=> y < x
  BY DEF OpToRel
<1> HIDE DEF R
<1>3. PICK x \in T : \A y \in T : ~ (<<y, x>> \in R)
  BY <1>1, WFMin
<1>4. \A y \in T : ~(y < x)
  BY <1>2, <1>3
<1> QED
  BY <1>4

(* What holds of 0 and of the successor of each of its numbers holds of every  *)
(* natural.                                                                    *)
LEMMA SetInduction ==
  ASSUME NEW S, 0 \in S, \A n \in Nat : n \in S => n + 1 \in S
  PROVE  Nat \subseteq S
<1> SUFFICES ASSUME Nat \ S # {} PROVE FALSE
  OBVIOUS
<1>1. PICK x \in Nat \ S : \A y \in Nat \ S : x <= y
  BY SmallestExists
<1>2. x # 0 /\ x - 1 \in Nat
  BY <1>1
<1>3. x - 1 \in S
  BY <1>1, <1>2
<1> QED
  BY <1>1, <1>2, <1>3

(* Min and Max of the sets the clauses are cut at.                             *)
LEMMA LeastOf ==
  ASSUME NEW T \in SUBSET Nat, T # {}
  PROVE  Min(T) \in T /\ \A y \in T : Min(T) <= y
BY SmallestExists DEF Min

LEMMA GreatestOf ==
  ASSUME NEW T \in SUBSET Nat, T # {}, NEW n \in Nat, \A y \in T : y <= n
  PROVE  Max(T) \in T /\ \A y \in T : y <= Max(T)
<1> DEFINE Above == {k \in Nat : \A y \in T : y <= k}
<1>1. PICK k \in Above : \A j \in Above : k <= j
  <2>1. n \in Above /\ Above \in SUBSET Nat
    OBVIOUS
  <2> QED
    BY <2>1, SmallestExists
<1>2. k \in T
  <2> SUFFICES ASSUME k \notin T PROVE FALSE
    OBVIOUS
  <2>1. PICK y \in T : TRUE
    OBVIOUS
  <2>2. y <= k /\ y # k /\ y \in Nat /\ k \in Nat
    BY <2>1
  <2>3. k - 1 \in Nat
    BY <2>2
  <2>4. \A z \in T : z <= k /\ z # k
    OBVIOUS
  <2>5. k - 1 \in Above
    BY <2>3, <2>4
  <2> QED
    BY <1>1, <2>2, <2>5
<1>3. \E x \in T : \A y \in T : x >= y
  BY <1>2
<1>4. Max(T) \in T /\ \A y \in T : Max(T) >= y
  BY <1>3 DEF Max
<1> QED
  BY <1>4

(* A fold over a finite set is a function on its subsets.                       *)
Foldable(D, X, base, pick, step) ==
  /\ IsFiniteSet(D) /\ base \in X
  /\ \A s \in SUBSET D : s # {} => pick[s] \in s
  /\ \A x \in X, d \in D : step[<<x, d>>] \in X

IsFold(f, D, X, base, pick, step) ==
  /\ f \in [SUBSET D -> X]
  /\ \A s \in SUBSET D : f[s] = IF s = {} THEN base ELSE step[<<f[s \ {pick[s]}], pick[s]>>]

(* The function a fold is chosen to be exists.                                 *)
LEMMA FoldExists ==
  ASSUME NEW D, NEW X, NEW base, NEW pick, NEW step, Foldable(D, X, base, pick, step)
  PROVE  \E f : IsFold(f, D, X, base, pick, step)
<1> USE DEF Foldable
<1> DEFINE Small(n) == {s \in SUBSET D : Cardinality(s) <= n}
           Good(n, f) == /\ f \in [Small(n) -> X]
                         /\ \A s \in Small(n) :
                              f[s] = IF s = {} THEN base
                                     ELSE step[<<f[s \ {pick[s]}], pick[s]>>]
           Reached == {n \in Nat : \E f : Good(n, f)}
<1>1. \A s \in SUBSET D : IsFiniteSet(s) /\ Cardinality(s) \in Nat
  BY FS_Subset, FS_CardinalityType
<1>2. 0 \in Reached
  <2>1. \A s \in Small(0) : s = {}
    BY <1>1, FS_EmptySet
  <2>2. Good(0, [s \in Small(0) |-> base])
    BY <2>1
  <2> QED
    BY <2>2
<1>3. \A n \in Nat : n \in Reached => n + 1 \in Reached
  <2> SUFFICES ASSUME NEW n \in Nat, n \in Reached PROVE n + 1 \in Reached
    OBVIOUS
  <2>1. PICK f : Good(n, f)
    OBVIOUS
  <2> DEFINE h == [s \in Small(n + 1) |-> IF s = {} THEN base
                                          ELSE step[<<f[s \ {pick[s]}], pick[s]>>]]
  <2>2. \A s \in Small(n + 1) : s # {} => s \ {pick[s]} \in Small(n) /\ s \ {pick[s]} \in Small(n + 1)
    <3> SUFFICES ASSUME NEW s \in Small(n + 1), s # {}
                 PROVE  s \ {pick[s]} \in Small(n) /\ s \ {pick[s]} \in Small(n + 1)
      OBVIOUS
    <3>1. s \in SUBSET D /\ Cardinality(s) <= n + 1 /\ Cardinality(s) \in Nat /\ IsFiniteSet(s)
      BY <1>1
    <3>2. Cardinality(s \ {pick[s]}) = Cardinality(s) - 1
      BY <3>1, FS_RemoveElement
    <3> QED
      BY <3>1, <3>2
  <2>3. h \in [Small(n + 1) -> X]
    <3> SUFFICES ASSUME NEW s \in Small(n + 1) PROVE h[s] \in X
      OBVIOUS
    <3>1. CASE s = {}
      BY <3>1
    <3>2. CASE s # {}
      <4>1. f[s \ {pick[s]}] \in X
        BY <2>1, <2>2, <3>2
      <4>2. pick[s] \in D
        BY <3>2
      <4> QED
        BY <3>2, <4>1, <4>2
    <3> QED
      BY <3>1, <3>2
  <2>4. \A s \in Small(n) : s \in Small(n + 1) /\ h[s] = f[s]
    <3> SUFFICES ASSUME NEW s \in Small(n) PROVE s \in Small(n + 1) /\ h[s] = f[s]
      OBVIOUS
    <3>1. s \in Small(n + 1)
      BY <1>1
    <3>2. f[s] = IF s = {} THEN base ELSE step[<<f[s \ {pick[s]}], pick[s]>>]
      BY <2>1
    <3> QED
      BY <3>1, <3>2
  <2>5. \A s \in Small(n + 1) :
          h[s] = IF s = {} THEN base ELSE step[<<h[s \ {pick[s]}], pick[s]>>]
    BY <2>2, <2>4
  <2> HIDE DEF h
  <2>6. Good(n + 1, h)
    BY <2>3, <2>5
  <2> HIDE DEF Good
  <2> QED
    BY <2>6
<1>4. PICK f : Good(Cardinality(D), f)
  <2> HIDE DEF Reached
  <2>1. Nat \subseteq Reached
    BY <1>2, <1>3, SetInduction
  <2>2. Cardinality(D) \in Reached
    BY <1>1, <2>1
  <2> QED
    BY <2>2 DEF Reached
<1>5. Small(Cardinality(D)) = SUBSET D
  BY FS_Subset, <1>1
<1>6. f \in [SUBSET D -> X]
  BY <1>4, <1>5
<1>7. \A s \in SUBSET D : f[s] = IF s = {} THEN base ELSE step[<<f[s \ {pick[s]}], pick[s]>>]
  BY <1>4, <1>5
<1> QED
  BY <1>6, <1>7 DEF IsFold

-----------------------------------------------------------------------------
(* The text the policy reads. *)

\* Every text is one; that a literal is a STRING is not known to the provers.
Token == STRING \cup {"space", "comma", "full_stop", "but", "word", "check", "forbid", "why",
                      "violation"}

Clean == {out \in Seq(Token) : \A i \in 1..(Len(out) - 1) : out[i] # "space" \/ out[i + 1] # "space"}

LEMMA CleanPairs ==
  ASSUME NEW out \in Seq(Token), \A i \in 1..(Len(out) - 1) : out[i] # "space" \/ out[i + 1] # "space"
  PROVE  out \in Clean
BY DEF Clean

(* Two spaces never stand side by side in what normalization writes.            *)
LEMMA SpacedClean ==
  ASSUME NEW out \in Clean, NEW token \in Token
  PROVE  /\ Spaced(out, token) \in Clean
         /\ token \notin {"zero_width", "space", "newline"} => Spaced(out, token) = Append(out, token)
<1>1. out \in Seq(Token) /\ Len(out) \in Nat /\ <<>> \in Clean /\ "space" \in Token
  BY DEF Clean, Token
<1>2. \A t \in Token : /\ Append(out, t) \in Seq(Token)
                        /\ Len(Append(out, t)) = Len(out) + 1
                        /\ Append(out, t)[Len(out) + 1] = t
                        /\ \A i \in 1..Len(out) : Append(out, t)[i] = out[i]
  BY <1>1, AppendProperties
<1>3. ASSUME NEW t \in Token, out = <<>> \/ t # "space" \/ Last(out) # "space"
      PROVE  Append(out, t) \in Clean
  <2> DEFINE longer == Append(out, t)
  <2>3. longer \in Seq(Token) /\ Len(longer) - 1 = Len(out)
    BY <1>1, <1>2
  <2> SUFFICES ASSUME NEW i \in 1..Len(out) PROVE longer[i] # "space" \/ longer[i + 1] # "space"
    BY <2>3, CleanPairs
  <2>1. CASE i = Len(out)
    BY <1>1, <1>2, <1>3, <2>1 DEF Last
  <2>2. CASE i # Len(out)
    <3>1. i \in 1..(Len(out) - 1) /\ i + 1 \in 1..Len(out) /\ i \in 1..Len(out)
      BY <1>1, <2>2
    <3>2. out[i] # "space" \/ out[i + 1] # "space"
      BY <3>1 DEF Clean
    <3> QED
      BY <1>2, <3>1, <3>2
  <2> QED
    BY <2>1, <2>2
<1>4. CASE token = "zero_width"
  BY <1>1, <1>4 DEF Spaced
<1>5. CASE token \in {"space", "newline"}
  <2>1. Spaced(out, token) = IF out # <<>> /\ Last(out) # "space" THEN Append(out, "space") ELSE out
    BY <1>5 DEF Spaced
  <2> QED
    BY <1>1, <1>3, <1>5, <2>1
<1>6. CASE token \notin {"zero_width", "space", "newline"}
  BY <1>3, <1>6 DEF Spaced
<1> QED
  BY <1>4, <1>5, <1>6

(* The tokens of a text are read from the left, one at a time.                  *)
Reads(raw, g) ==
  /\ g \in [0..Len(raw) -> Clean] /\ g[0] = <<>>
  /\ \A i \in 1..Len(raw) : g[i] = Spaced(g[i - 1], raw[i])

(* Normalization reads the tokens one after the other.                         *)
LEMMA ReadsToTheEnd ==
  ASSUME NEW raw \in Seq(Token)
  PROVE  \E g : Reads(raw, g) /\ FoldLeft(Spaced, <<>>, raw) = g[Len(raw)]
<1> DEFINE D == 1..Len(raw)
           pick == [s \in SUBSET D |-> Max(s)]
           step == [xd \in Clean \X D |-> Spaced(xd[1], raw[xd[2]])]
<1>1. Len(raw) \in Nat /\ DOMAIN raw = D /\ IsFiniteSet(D) /\ <<>> \in Clean
  BY FS_Interval DEF Clean
<1>2. \A s \in SUBSET D : s # {} => pick[s] \in s
  <2> SUFFICES ASSUME NEW s \in SUBSET D, s # {} PROVE Max(s) \in s
    OBVIOUS
  <2>1. s \in SUBSET Nat /\ \A y \in s : y <= Len(raw)
    BY <1>1
  <2> QED
    BY <1>1, <2>1, GreatestOf
<1>3. \A x \in Clean, d \in D : step[<<x, d>>] = Spaced(x, raw[d]) /\ step[<<x, d>>] \in Clean
  <2> SUFFICES ASSUME NEW x \in Clean, NEW d \in D PROVE Spaced(x, raw[d]) \in Clean
    OBVIOUS
  <2> QED
    BY SpacedClean
<1>4. PICK f : IsFold(f, D, Clean, <<>>, pick, step)
  <2>1. Foldable(D, Clean, <<>>, pick, step)
    BY <1>1, <1>2, <1>3 DEF Foldable
  <2> QED
    BY <2>1, FoldExists
<1>5. /\ f \in [SUBSET D -> Clean]
      /\ f = [s \in SUBSET D |-> IF s = {} THEN <<>> ELSE Spaced(f[s \ {Max(s)}], raw[Max(s)])]
  <2>1. f \in [SUBSET D -> Clean]
    BY <1>4 DEF IsFold
  <2>2. ASSUME NEW s \in SUBSET D, s # {}
        PROVE  f[s] = Spaced(f[s \ {Max(s)}], raw[Max(s)])
    <3>1. pick[s] = Max(s) /\ Max(s) \in D /\ f[s \ {Max(s)}] \in Clean
      BY <1>2, <2>1, <2>2
    <3> HIDE DEF step, pick
    <3>2. f[s] = step[<<f[s \ {pick[s]}], pick[s]>>]
      BY <1>4, <2>2 DEF IsFold
    <3> QED
      BY <1>3, <3>1, <3>2
  <2>3. f[{}] = <<>>
    BY <1>4 DEF IsFold
  <2> QED
    BY <2>1, <2>2, <2>3
<1> DEFINE iter == CHOOSE h : h = [s \in SUBSET D |-> IF s = {} THEN <<>>
                                     ELSE Spaced(h[s \ {Max(s)}], raw[Max(s)])]
<1> HIDE DEF pick, step
<1>6. iter = [s \in SUBSET D |-> IF s = {} THEN <<>> ELSE Spaced(iter[s \ {Max(s)}], raw[Max(s)])]
  BY <1>5
<1>7. FoldLeft(Spaced, <<>>, raw) = iter[D]
  BY <1>1 DEF FoldLeft, MapThenFoldSet
<1> HIDE DEF iter
<1> DEFINE g == [i \in 0..Len(raw) |-> iter[1..i]]
<1>8. g[0] = <<>>
  <2>1. 1..0 = {} /\ 0 \in 0..Len(raw) /\ {} \in SUBSET D
    BY <1>1
  <2> QED
    BY <1>6, <2>1
<1>9. \A i \in 1..Len(raw) : g[i] = Spaced(g[i - 1], raw[i])
  <2> SUFFICES ASSUME NEW i \in 1..Len(raw) PROVE iter[1..i] = Spaced(iter[1..(i - 1)], raw[i])
    BY <1>1
  <2>1. 1..i \in SUBSET D /\ i \in 1..i /\ 1..i \in SUBSET Nat /\ i \in Nat
    BY <1>1
  <2>2. Max(1..i) = i
    <3>1. 1..i # {}
      BY <2>1
    <3>2. \A y \in 1..i : y <= i
      BY <2>1
    <3>3. Max(1..i) \in 1..i /\ \A y \in 1..i : y <= Max(1..i)
      BY <2>1, <3>1, <3>2, GreatestOf
    <3> QED
      BY <2>1, <3>3
  <2>3. (1..i) \ {i} = 1..(i - 1)
    BY <2>1
  <2>4. iter[1..i] = Spaced(iter[(1..i) \ {Max(1..i)}], raw[Max(1..i)])
    BY <1>6, <2>1
  <2> QED
    BY <2>2, <2>3, <2>4
<1> HIDE DEF g
<1>10. g \in [0..Len(raw) -> Clean]
  <2> DEFINE Good == {i \in Nat : i <= Len(raw) => g[i] \in Clean}
  <2>1. 0 \in Good
    BY <1>1, <1>8
  <2>2. ASSUME NEW i \in Nat, i \in Good PROVE i + 1 \in Good
    <3> SUFFICES ASSUME i + 1 <= Len(raw) PROVE g[i + 1] \in Clean
      OBVIOUS
    <3>1. g[i + 1] = Spaced(g[i], raw[i + 1]) /\ g[i] \in Clean /\ raw[i + 1] \in Token
      BY <1>1, <1>9, <2>2
    <3> QED
      BY <3>1, SpacedClean
  <2>3. Nat \subseteq Good
    <3> HIDE DEF Good
    <3> QED
      BY <2>1, <2>2, SetInduction
  <2>4. \A i \in 0..Len(raw) : g[i] \in Clean
    BY <1>1, <2>3
  <2> QED
    BY <2>4 DEF g
<1>11. FoldLeft(Spaced, <<>>, raw) = g[Len(raw)]
  BY <1>1, <1>7 DEF g
<1> QED
  BY <1>8, <1>9, <1>10, <1>11 DEF Reads

(* Two readings agree as far as the texts do.                                   *)
LEMMA ReadsAgree ==
  ASSUME NEW raw \in Seq(Token), NEW longer \in Seq(Token), NEW g, NEW h,
         Reads(raw, g), Reads(longer, h), Len(raw) <= Len(longer),
         \A i \in 1..Len(raw) : longer[i] = raw[i]
  PROVE  h[Len(raw)] = g[Len(raw)]
<1> DEFINE Good == {i \in Nat : i <= Len(raw) => h[i] = g[i]}
<1>1. Len(raw) \in Nat /\ Len(longer) \in Nat
  OBVIOUS
<1>2. 0 \in Good
  BY DEF Reads
<1>3. ASSUME NEW i \in Nat, i \in Good PROVE i + 1 \in Good
  <2> SUFFICES ASSUME i + 1 <= Len(raw) PROVE h[i + 1] = g[i + 1]
    OBVIOUS
  <2>1. i + 1 \in 1..Len(raw) /\ i + 1 \in 1..Len(longer) /\ (i + 1) - 1 = i /\ h[i] = g[i]
    BY <1>1, <1>3
  <2>2. g[i + 1] = Spaced(g[i], raw[i + 1]) /\ h[i + 1] = Spaced(h[i], longer[i + 1])
    BY <2>1 DEF Reads
  <2> QED
    BY <2>1, <2>2
<1>4. Nat \subseteq Good
  <2> HIDE DEF Good
  <2> QED
    BY <1>2, <1>3, SetInduction
<1> QED
  BY <1>1, <1>4

Cut(raw) == SubSeq(raw, 1, IF Len(raw) > MaxLength THEN MaxLength ELSE Len(raw))
Trimmed(out) == IF out # <<>> /\ Last(out) = "space" THEN Front(out) ELSE out

(* Only the first MaxLength tokens count.                                      *)
LEMMA CutOf ==
  ASSUME NEW raw \in Seq(Token)
  PROVE  /\ Cut(raw) \in Seq(Token)
         /\ Len(Cut(raw)) = IF Len(raw) > MaxLength THEN MaxLength ELSE Len(raw)
         /\ \A i \in 1..Len(Cut(raw)) : Cut(raw)[i] = raw[i]
<1> DEFINE n == IF Len(raw) > MaxLength THEN MaxLength ELSE Len(raw)
<1>1. n \in Nat /\ n <= Len(raw) /\ Len(raw) \in Nat
  BY DEF MaxLength
<1> HIDE DEF n
<1>2. /\ SubSeq(raw, 1, n) \in Seq(Token) /\ Len(SubSeq(raw, 1, n)) = n
      /\ \A i \in 1..n : SubSeq(raw, 1, n)[i] = raw[i]
  <2>1. \A i \in 1..n : i \in 1..Len(raw) /\ raw[i] \in Token
    BY <1>1
  <2> QED
    BY <1>1, <2>1, SubSeqProperties
<1> QED
  BY <1>2 DEF n, Cut

(* What normalization makes of a text is a reading of its first tokens, without *)
(* a space at the end.                                                          *)
LEMMA NormalizedReads ==
  ASSUME NEW raw \in Seq(Token)
  PROVE  \E g : Reads(Cut(raw), g) /\ Normalized(raw) = Trimmed(g[Len(Cut(raw))])
<1>1. Normalized(raw) = Trimmed(FoldLeft(Spaced, <<>>, Cut(raw)))
  BY DEF Normalized, Trimmed, Cut
<1>2. Cut(raw) \in Seq(Token)
  BY CutOf
<1> QED
  BY <1>1, <1>2, ReadsToTheEnd

LEMMA TrimmedOf ==
  ASSUME NEW out \in Clean
  PROVE  /\ Trimmed(out) \in Seq(Token) /\ Len(Trimmed(out)) <= Len(out)
         /\ \A i \in 1..Len(Trimmed(out)) : Trimmed(out)[i] = out[i]
         /\ Trimmed(out) # <<>> => Trimmed(out)[Len(Trimmed(out))] # "space"
         /\ \/ Len(out) = Len(Trimmed(out))
            \/ Len(out) = Len(Trimmed(out)) + 1 /\ out[Len(out)] = "space"
<1>1. out \in Seq(Token) /\ Len(out) \in Nat
  BY DEF Clean
<1>2. CASE out # <<>> /\ Last(out) = "space"
  <2>1. Trimmed(out) = SubSeq(out, 1, Len(out) - 1) /\ out[Len(out)] = "space" /\ Len(out) > 0
    BY <1>1, <1>2 DEF Trimmed, Front, Last
  <2> DEFINE n == Len(out) - 1
  <2>2. n \in Nat /\ n <= Len(out) /\ Len(out) = n + 1
    BY <1>1, <2>1
  <2>3. /\ SubSeq(out, 1, n) \in Seq(Token) /\ Len(SubSeq(out, 1, n)) = n
        /\ \A i \in 1..n : SubSeq(out, 1, n)[i] = out[i]
    <3>1. \A i \in 1..n : out[i] \in Token
      BY <1>1
    <3> QED
      BY <1>1, <2>2, <3>1, SubSeqProperties
  <2>4. Trimmed(out) = SubSeq(out, 1, n)
    BY <2>1
  <2> HIDE DEF n
  <2>5. n # 0 => Trimmed(out)[n] # "space"
    <3> SUFFICES ASSUME n # 0 PROVE out[n] # "space"
      BY <2>2, <2>3, <2>4
    <3>1. n \in 1..(Len(out) - 1)
      BY <2>2
    <3>2. out[n] # "space" \/ out[n + 1] # "space"
      BY <3>1 DEF Clean
    <3> QED
      BY <2>1, <2>2, <3>2
  <2>6. Trimmed(out) # <<>> => n # 0
    BY <2>3, <2>4
  <2> QED
    BY <2>1, <2>2, <2>3, <2>4, <2>5, <2>6
<1>3. CASE ~(out # <<>> /\ Last(out) = "space")
  <2>1. Trimmed(out) = out
    BY <1>3 DEF Trimmed
  <2>2. out # <<>> => out[Len(out)] # "space"
    BY <1>3 DEF Last
  <2> QED
    BY <1>1, <2>1, <2>2
<1> QED
  BY <1>2, <1>3

(* A normalized text is a text that does not end in a space.                   *)
LEMMA NormalizedText ==
  ASSUME NEW raw \in Seq(Token)
  PROVE  /\ Normalized(raw) \in Seq(Token)
         /\ Normalized(raw) # <<>> => Normalized(raw)[Len(Normalized(raw))] # "space"
<1>1. PICK g : Reads(Cut(raw), g) /\ Normalized(raw) = Trimmed(g[Len(Cut(raw))])
  BY NormalizedReads
<1>2. g[Len(Cut(raw))] \in Clean
  <2>1. Len(Cut(raw)) \in 0..Len(Cut(raw))
    BY CutOf
  <2> QED
    BY <1>1, <2>1 DEF Reads
<1> QED
  BY <1>1, <1>2, TrimmedOf

(* The longer text goes on with a first part of other, after a space at most.   *)
GoesOn(text, longer, other) ==
  /\ text \in Seq(Token) /\ longer \in Seq(Token) /\ Len(text) <= Len(longer)
  /\ \A i \in 1..Len(text) : longer[i] = text[i]
  /\ text # <<>> => text[Len(text)] # "space"
  /\ \/ longer = text
     \/ \E gap \in {0, 1} :
          /\ Len(text) + gap < Len(longer)
          /\ gap = 1 => longer[Len(text) + 1] = "space"
          /\ longer[Len(text) + gap + 1] = other[1]
          /\ \A i \in (Len(text) + gap + 1)..Len(longer) :
               \E k \in DOMAIN other : longer[i] = other[k]

(* Reading other tokens after those of a text, none of them a space.            *)
Follows(h, w, n, j) ==
  /\ h[n + j] \in Clean /\ Len(h[n + j]) = Len(h[n]) + j
  /\ \A i \in 1..Len(h[n]) : h[n + j][i] = h[n][i]
  /\ \A i \in 1..j : h[n + j][Len(h[n]) + i] = w[n + i]

LEMMA ReadsOn ==
  ASSUME NEW w \in Seq(Token), NEW h, Reads(w, h), NEW n \in Nat, n <= Len(w),
         \A i \in (n + 1)..Len(w) : w[i] \notin {"zero_width", "space", "newline"}
  PROVE  \A j \in Nat : n + j <= Len(w) => Follows(h, w, n, j)
<1> DEFINE Good == {j \in Nat : n + j <= Len(w) => Follows(h, w, n, j)}
<1>1. Len(w) \in Nat /\ \A i \in 0..Len(w) : h[i] \in Clean /\ h[i] \in Seq(Token) /\ Len(h[i]) \in Nat
  BY DEF Reads, Clean
<1>2. 0 \in Good
  BY <1>1 DEF Follows
<1>3. ASSUME NEW j \in Nat, j \in Good PROVE j + 1 \in Good
  <2> SUFFICES ASSUME n + (j + 1) <= Len(w) PROVE Follows(h, w, n, j + 1)
    OBVIOUS
  <2> DEFINE m == n + j
  <2>1. m \in Nat /\ m + 1 \in 1..Len(w) /\ m + 1 = n + (j + 1) /\ (m + 1) - 1 = m /\ m \in 0..Len(w)
        /\ m + 1 \in (n + 1)..Len(w)
    BY <1>1
  <2>2. h[m + 1] = Spaced(h[m], w[m + 1]) /\ w[m + 1] \in Token /\ h[m] \in Clean
    BY <1>1, <2>1 DEF Reads
  <2>3. h[m + 1] = Append(h[m], w[m + 1])
    BY <2>1, <2>2, SpacedClean
  <2>4. /\ Len(h[m]) = Len(h[n]) + j
        /\ \A i \in 1..Len(h[n]) : h[m][i] = h[n][i]
        /\ \A i \in 1..j : h[m][Len(h[n]) + i] = w[n + i]
    <3>1. Follows(h, w, n, j)
      BY <1>1, <1>3
    <3> QED
      BY <3>1 DEF Follows
  <2>5. n \in 0..Len(w)
    OBVIOUS
  <2> HIDE DEF m
  <2>6. h[m] \in Seq(Token) /\ h[m + 1] \in Clean /\ Len(h[n]) \in Nat /\ Len(h[m]) \in Nat
    BY <1>1, <2>1, <2>5
  <2> DEFINE old == Len(h[n])
             new == Len(h[m])
  <2>11. old \in Nat /\ new \in Nat /\ new = old + j /\ Len(h[m + 1]) = new + 1
    <3>1. Len(h[m + 1]) = new + 1
      BY <2>2, <2>3, <2>6, AppendProperties
    <3> QED
      BY <2>4, <2>6, <3>1
  <2>7. /\ Len(h[m + 1]) = Len(h[m]) + 1 /\ h[m + 1][Len(h[m]) + 1] = w[m + 1]
        /\ \A i \in 1..Len(h[m]) : h[m + 1][i] = h[m][i]
    BY <2>2, <2>3, <2>6, AppendProperties
  <2>8. \A i \in 1..(j + 1) : h[m + 1][Len(h[n]) + i] = w[n + i]
    <3> SUFFICES ASSUME NEW i \in 1..(j + 1) PROVE h[m + 1][Len(h[n]) + i] = w[n + i]
      OBVIOUS
    <3>1. CASE i = j + 1
      <4>1. n + i = m + 1
        BY <2>1, <3>1
      <4>2. old + i = new + 1
        <5> HIDE DEF old, new
        <5> QED
          BY <2>11, <3>1
      <4> QED
        BY <2>7, <4>1, <4>2
    <3>2. CASE i # j + 1
      <4>1. i \in 1..j /\ Len(h[n]) + i \in 1..Len(h[m])
        BY <2>4, <2>6, <3>2
      <4> QED
        BY <2>4, <2>7, <4>1
    <3> QED
      BY <3>1, <3>2
  <2>9. \A i \in 1..Len(h[n]) : h[m + 1][i] = h[n][i]
    <3> SUFFICES ASSUME NEW i \in 1..Len(h[n]) PROVE h[m + 1][i] = h[n][i]
      OBVIOUS
    <3>1. i \in 1..Len(h[m])
      BY <2>4, <2>6
    <3> QED
      BY <2>4, <2>7, <3>1
  <2>10. Len(h[m + 1]) = Len(h[n]) + (j + 1)
    <3> HIDE DEF old
    <3>1. Len(h[m + 1]) = old + (j + 1)
      <4> HIDE DEF new
      <4> QED
        BY <2>11
    <3> QED
      BY <3>1 DEF old
  <2> QED
    BY <2>1, <2>6, <2>8, <2>9, <2>10 DEF Follows
<1>4. Nat \subseteq Good
  <2> HIDE DEF Good
  <2> QED
    BY <1>2, <1>3, SetInduction
<1> QED
  BY <1>4

(* Normalizing a longer text leaves the shorter one as the beginning of it.    *)
LEMMA NormalizedLonger ==
  ASSUME NEW raw \in Seq(Token), NEW other \in Seq(Token), Len(other) > 0,
         \A k \in DOMAIN other : other[k] \notin {"zero_width", "space", "newline"}
  PROVE  GoesOn(Normalized(raw), Normalized(raw \o other), other)
<1> DEFINE n == Len(raw)
           k == Len(other)
           both == raw \o other
<1>1. n \in Nat /\ k \in Nat /\ k > 0
  OBVIOUS
<1>2. /\ both \in Seq(Token) /\ Len(both) = n + k
      /\ \A i \in 1..n : both[i] = raw[i]
      /\ \A i \in 1..k : both[n + i] = other[i]
  BY <1>1, ConcatProperties
<1> HIDE DEF both
<1>3. PICK g : Reads(Cut(raw), g) /\ Normalized(raw) = Trimmed(g[Len(Cut(raw))])
  BY NormalizedReads
<1>4. PICK h : Reads(Cut(both), h) /\ Normalized(both) = Trimmed(h[Len(Cut(both))])
  BY <1>2, NormalizedReads
<1>5. /\ Cut(raw) \in Seq(Token) /\ Cut(both) \in Seq(Token)
      /\ Len(Cut(raw)) <= n /\ Len(Cut(raw)) <= Len(Cut(both)) /\ Len(Cut(both)) <= n + k
      /\ Len(Cut(raw)) \in Nat /\ Len(Cut(both)) \in Nat
      /\ Len(Cut(raw)) = n \/ Len(Cut(both)) = Len(Cut(raw))
      /\ \A i \in 1..Len(Cut(raw)) : Cut(raw)[i] = raw[i]
      /\ \A i \in 1..Len(Cut(both)) : Cut(both)[i] = both[i]
  <2>1. /\ Cut(raw) \in Seq(Token) /\ Len(Cut(raw)) = IF n > MaxLength THEN MaxLength ELSE n
        /\ \A i \in 1..Len(Cut(raw)) : Cut(raw)[i] = raw[i]
    BY CutOf
  <2>2. /\ Cut(both) \in Seq(Token)
        /\ Len(Cut(both)) = IF n + k > MaxLength THEN MaxLength ELSE n + k
        /\ \A i \in 1..Len(Cut(both)) : Cut(both)[i] = both[i]
    BY <1>2, CutOf
  <2>3. MaxLength \in Nat
    BY DEF MaxLength
  <2> HIDE DEF n, k
  <2>4. /\ Len(Cut(raw)) <= n /\ Len(Cut(raw)) <= Len(Cut(both)) /\ Len(Cut(both)) <= n + k
        /\ Len(Cut(raw)) = n \/ Len(Cut(both)) = Len(Cut(raw))
    BY <1>1, <2>1, <2>2, <2>3
  <2> QED
    BY <2>1, <2>2, <2>4
<1> DEFINE m == Len(Cut(raw))
           w == Cut(both)
           base == g[m]
           end == h[Len(w)]
           text == Normalized(raw)
           longer == Normalized(both)
<1>6. h[m] = base
  <2>1. \A i \in 1..m : w[i] = Cut(raw)[i]
    BY <1>1, <1>2, <1>5
  <2> QED
    BY <1>3, <1>4, <1>5, <2>1, ReadsAgree
<1>7. base \in Clean /\ end \in Clean
  BY <1>3, <1>4, <1>5 DEF Reads
<1>8. base \in Seq(Token) /\ Len(base) \in Nat /\ end \in Seq(Token) /\ Len(end) \in Nat
  BY <1>7 DEF Clean
<1>9. /\ text = Trimmed(base) /\ longer = Trimmed(end)
      /\ text \in Seq(Token) /\ longer \in Seq(Token) /\ Len(text) \in Nat /\ Len(longer) \in Nat
  BY <1>3, <1>4, <1>7, TrimmedOf
<1>10. CASE Len(w) = m
  <2>1. longer = text
    BY <1>6, <1>9, <1>10
  <2>2. text # <<>> => text[Len(text)] # "space"
    BY NormalizedText
  <2> HIDE DEF text, longer
  <2>3. GoesOn(text, longer, other)
    BY <1>9, <2>1, <2>2 DEF GoesOn
  <2> QED
    BY <2>3 DEF text, longer, both
<1>11. CASE Len(w) # m
  <2>1. m = n /\ n < Len(w)
    BY <1>1, <1>5, <1>11
  <2>2. \A i \in (n + 1)..Len(w) : i - n \in 1..k /\ w[i] = other[i - n]
    <3> SUFFICES ASSUME NEW i \in (n + 1)..Len(w) PROVE i - n \in 1..k /\ w[i] = other[i - n]
      OBVIOUS
    <3>1. i - n \in 1..k /\ n + (i - n) = i /\ i \in 1..Len(w)
      BY <1>1, <1>5
    <3> QED
      BY <1>2, <1>5, <3>1
  <2>3. \A i \in (n + 1)..Len(w) : w[i] \notin {"zero_width", "space", "newline"}
    BY <2>2
  <2> DEFINE j == Len(w) - n
  <2>4. j \in Nat /\ j > 0 /\ n + j = Len(w) /\ n <= Len(w) /\ j <= k
    BY <1>1, <1>5, <2>1
  <2>5. /\ Len(end) = Len(base) + j
        /\ \A i \in 1..Len(base) : end[i] = base[i]
        /\ \A i \in 1..j : end[Len(base) + i] = w[n + i]
    <3> HIDE DEF j, w, base, m
    <3>1. w \in Seq(Token) /\ Reads(w, h) /\ h[n] = base
      BY <1>4, <1>5, <1>6, <2>1 DEF w
    <3>2. Follows(h, w, n, j)
      <4> HIDE DEF n
      <4> QED
        BY <1>1, <2>3, <2>4, <3>1, ReadsOn
    <3> QED
      BY <2>4, <3>1, <3>2 DEF Follows, end
  <2>6. \A i \in 1..j : i \in DOMAIN other /\ end[Len(base) + i] = other[i]
    <3> SUFFICES ASSUME NEW i \in 1..j PROVE i \in DOMAIN other /\ end[Len(base) + i] = other[i]
      OBVIOUS
    <3>1. n + i \in (n + 1)..Len(w) /\ (n + i) - n = i /\ i \in 1..k
      BY <1>1, <1>5, <2>4
    <3>2. w[n + i] = other[i]
      BY <2>2, <3>1
    <3>3. end[Len(base) + i] = w[n + i]
      BY <2>5
    <3> QED
      BY <3>1, <3>2, <3>3
  <2> HIDE DEF j, w, base, m, end, text, longer, n
  <2>7. longer = end
    <3>1. end[Len(end)] # "space"
      BY <1>8, <2>4, <2>5, <2>6
    <3> QED
      BY <1>9, <3>1 DEF Trimmed, Last
  <2>8. /\ Len(text) <= Len(base) /\ \A i \in 1..Len(text) : text[i] = base[i]
        /\ text # <<>> => text[Len(text)] # "space"
        /\ \/ Len(base) = Len(text)
           \/ Len(base) = Len(text) + 1 /\ base[Len(base)] = "space"
    BY <1>7, <1>9, TrimmedOf
  <2> DEFINE gap == Len(base) - Len(text)
  <2>9. gap \in {0, 1} /\ Len(text) + gap = Len(base) /\ (gap = 1 => base[Len(text) + 1] = "space")
    BY <1>8, <1>9, <2>8
  <2> HIDE DEF gap
  <2>10. Len(text) + gap < Len(longer) /\ longer[Len(text) + gap + 1] = other[1]
    BY <1>8, <1>9, <2>4, <2>5, <2>6, <2>7, <2>9
  <2>11. gap = 1 => longer[Len(text) + 1] = "space"
    <3> SUFFICES ASSUME gap = 1 PROVE longer[Len(text) + 1] = "space"
      OBVIOUS
    <3>1. Len(text) + 1 \in 1..Len(base)
      BY <1>8, <1>9, <2>9
    <3> QED
      BY <2>5, <2>7, <2>9, <3>1
  <2>12. \A i \in (Len(text) + gap + 1)..Len(longer) : \E l \in DOMAIN other : longer[i] = other[l]
    <3> SUFFICES ASSUME NEW i \in (Len(base) + 1)..Len(end)
                 PROVE  \E l \in DOMAIN other : end[i] = other[l]
      BY <2>7, <2>9
    <3>1. i - Len(base) \in 1..j /\ Len(base) + (i - Len(base)) = i
      BY <1>8, <2>4, <2>5
    <3> QED
      BY <2>6, <3>1
  <2>13. Len(text) <= Len(longer) /\ \A i \in 1..Len(text) : longer[i] = text[i]
    <3>1. Len(text) <= Len(longer)
      BY <1>8, <1>9, <2>10, <2>9
    <3>2. \A i \in 1..Len(text) : i \in 1..Len(base)
      BY <1>8, <1>9, <2>8
    <3> QED
      BY <2>5, <2>7, <2>8, <3>1, <3>2
  <2>14. GoesOn(text, longer, other)
    BY <1>9, <2>8, <2>9, <2>10, <2>11, <2>12, <2>13 DEF GoesOn
  <2> QED
    BY <2>14 DEF text, longer, both
<1> QED
  BY <1>10, <1>11

-----------------------------------------------------------------------------
(* The clause a risk phrase stands in. *)

PhraseTokens == {"income", "hundred", "delivery", "fake_case", "contract_risk"}

LEMMA PhrasesOf ==
  ASSUME NEW rule \in Rules
  PROVE  /\ Len(rule.phrase) \in Nat
         /\ \A k \in 1..Len(rule.phrase) : rule.phrase[k] \in PhraseTokens
BY DEF Rules, PhraseTokens

(* A candidate is a stretch of the text that spells a rule.                    *)
LEMMA CandidateOf ==
  ASSUME NEW text \in Seq(Token), NEW c \in Candidates(text)
  PROVE  /\ c.rule \in Rules /\ c.first \in 1..Len(text) /\ c.last \in 1..Len(text)
         /\ c.first <= c.last /\ Len(text) \in Nat /\ c.first \in Nat /\ c.last \in Nat
         /\ Spells(text, c.first, c.last, c.rule)
         /\ c \in [rule : Rules, first : DOMAIN text, last : DOMAIN text]
<1>1. Len(text) \in Nat /\ DOMAIN text = 1..Len(text)
  OBVIOUS
<1>2. /\ c \in [rule : Rules, first : DOMAIN text, last : DOMAIN text]
      /\ c.first <= c.last /\ Spells(text, c.first, c.last, c.rule)
  BY DEF Candidates
<1> QED
  BY <1>1, <1>2

(* A phrase is spelt by its own tokens, with spaces between them at most.       *)
LEMMA SpanTokens ==
  ASSUME NEW text \in Seq(Token), NEW c \in Candidates(text), NEW i \in c.first..c.last
  PROVE  text[i] \in PhraseTokens \cup {"space"}
<1> DEFINE span == {j \in c.first..c.last : c.rule.compact => text[j] # "space"}
           Nth(j) == Cardinality({k \in span : k <= j})
<1>1. c.rule \in Rules /\ c.first \in Nat /\ c.last \in Nat
  BY CandidateOf
<1>2. /\ Cardinality(span) = Len(c.rule.phrase)
      /\ \A j \in span : text[j] = c.rule.phrase[Nth(j)]
  BY CandidateOf DEF Spells
<1>3. CASE i \notin span
  BY <1>3
<1>4. CASE i \in span
  <2> DEFINE upTo == {k \in span : k <= i}
  <2>1. IsFiniteSet(span)
    <3>1. IsFiniteSet(c.first..c.last)
      <4>1. c.first \in Int /\ c.last \in Int
        BY <1>1
      <4> QED
        BY <4>1, FS_Interval
    <3>2. span \in SUBSET (c.first..c.last)
      OBVIOUS
    <3> QED
      BY <3>1, <3>2, FS_Subset
  <2>2. upTo \subseteq span /\ i \in upTo
    BY <1>1, <1>4
  <2> HIDE DEF span, upTo
  <2>3. IsFiniteSet(upTo) /\ Cardinality(upTo) <= Cardinality(span)
    BY <2>1, <2>2, FS_Subset
  <2>4. Cardinality(upTo) \in Nat /\ Cardinality(span) \in Nat /\ Cardinality(upTo) # 0
    BY <2>1, <2>2, <2>3, FS_CardinalityType, FS_EmptySet
  <2>5. Cardinality(upTo) \in 1..Len(c.rule.phrase)
    BY <1>2, <2>3, <2>4
  <2>6. text[i] = c.rule.phrase[Cardinality(upTo)]
    BY <1>2, <1>4 DEF upTo
  <2> QED
    BY <1>1, <2>5, <2>6, PhrasesOf
<1> QED
  BY <1>3, <1>4

(* The clause of a phrase reaches from the delimiter before it, or the         *)
(* beginning, to the delimiter after it, or the end.                           *)
LEMMA StartOfClause ==
  ASSUME NEW text \in Seq(Token), NEW c \in Candidates(text)
  PROVE  /\ ClauseStart(text, c) \in 1..c.first
         /\ \A i \in ClauseStart(text, c)..(c.first - 1) : text[i] \notin ClauseDelimiters
         /\ ClauseStart(text, c) # 1 => text[ClauseStart(text, c) - 1] \in ClauseDelimiters
<1> DEFINE found == {i \in 1..(c.first - 1) : text[i] \in ClauseDelimiters}
           all == {0} \cup found
<1>1. c.first \in Nat /\ c.first > 0 /\ c.first - 1 \in Nat
  BY CandidateOf
<1>2. all \in SUBSET Nat /\ all # {} /\ \A i \in all : i <= c.first - 1
  BY <1>1
<1>3. Max(all) \in all /\ \A i \in all : i <= Max(all)
  <2> HIDE DEF all
  <2> QED
    BY <1>1, <1>2, GreatestOf
<1>4. ClauseStart(text, c) = Max(all) + 1
  BY DEF ClauseStart
<1>5. Max(all) \in Nat /\ Max(all) <= c.first - 1 /\ 0 <= Max(all)
  BY <1>1, <1>2, <1>3
<1>6. \A i \in (Max(all) + 1)..(c.first - 1) : text[i] \notin ClauseDelimiters
  <2> SUFFICES ASSUME NEW i \in (Max(all) + 1)..(c.first - 1), text[i] \in ClauseDelimiters PROVE FALSE
    OBVIOUS
  <2>1. i \in all /\ i > Max(all)
    BY <1>1, <1>5
  <2> QED
    BY <1>3, <1>5, <2>1
<1>7. Max(all) # 0 => text[Max(all)] \in ClauseDelimiters
  BY <1>3
<1> HIDE DEF all
<1> QED
  BY <1>1, <1>4, <1>5, <1>6, <1>7

LEMMA EndOfClause ==
  ASSUME NEW text \in Seq(Token), NEW c \in Candidates(text)
  PROVE  /\ ClauseEnd(text, c) \in c.last..Len(text)
         /\ \A i \in (c.last + 1)..ClauseEnd(text, c) : text[i] \notin ClauseDelimiters
         /\ ClauseEnd(text, c) # Len(text) => text[ClauseEnd(text, c) + 1] \in ClauseDelimiters
<1> DEFINE found == {i \in (c.last + 1)..Len(text) : text[i] \in ClauseDelimiters}
           all == {Len(text) + 1} \cup found
<1>1. c.last \in Nat /\ Len(text) \in Nat /\ c.last <= Len(text)
  BY CandidateOf
<1>2. all \in SUBSET Nat /\ all # {} /\ \A i \in all : c.last + 1 <= i /\ i <= Len(text) + 1
  BY <1>1
<1>3. Min(all) \in all /\ \A i \in all : Min(all) <= i
  <2> HIDE DEF all
  <2> QED
    BY <1>2, LeastOf
<1>4. ClauseEnd(text, c) = Min(all) - 1
  BY DEF ClauseEnd
<1>5. Min(all) \in Nat /\ c.last + 1 <= Min(all) /\ Min(all) <= Len(text) + 1
  BY <1>1, <1>2, <1>3
<1>6. \A i \in (c.last + 1)..(Min(all) - 1) : text[i] \notin ClauseDelimiters
  <2> SUFFICES ASSUME NEW i \in (c.last + 1)..(Min(all) - 1), text[i] \in ClauseDelimiters PROVE FALSE
    OBVIOUS
  <2>1. i \in all /\ i < Min(all)
    BY <1>1, <1>5
  <2> QED
    BY <1>3, <1>5, <2>1
<1>7. Min(all) # Len(text) + 1 => text[Min(all)] \in ClauseDelimiters
  BY <1>3
<1> HIDE DEF all
<1> QED
  BY <1>1, <1>4, <1>5, <1>6, <1>7

LEMMA ClauseTokens ==
  ASSUME NEW text \in Seq(Token), NEW c \in Candidates(text),
         NEW i \in ClauseStart(text, c)..ClauseEnd(text, c)
  PROVE  i \in 1..Len(text) /\ text[i] \notin ClauseDelimiters
<1>1. /\ c.first \in Nat /\ c.last \in Nat /\ Len(text) \in Nat /\ c.first <= c.last
      /\ ClauseStart(text, c) \in Nat /\ ClauseEnd(text, c) \in Nat
      /\ ClauseStart(text, c) <= c.first /\ ClauseStart(text, c) >= 1
      /\ c.last <= ClauseEnd(text, c) /\ ClauseEnd(text, c) <= Len(text)
  BY CandidateOf, StartOfClause, EndOfClause
<1>2. CASE i < c.first
  BY <1>1, <1>2, StartOfClause
<1>3. CASE i \in c.first..c.last
  BY <1>1, <1>3, SpanTokens DEF PhraseTokens, ClauseDelimiters, SentenceEnds
<1>4. CASE i > c.last
  BY <1>1, <1>4, EndOfClause
<1> QED
  BY <1>1, <1>2, <1>3, <1>4

-----------------------------------------------------------------------------
(* The stance of a phrase. *)

(* The winner is a match of the highest priority.                              *)
LEMMA WinnerOf ==
  ASSUME NEW matches \in SUBSET Patterns, matches # {}
  PROVE  /\ Winner(matches) \in matches
         /\ \A q \in matches : q.priority <= Winner(matches).priority
<1> DEFINE ranks == {p.priority : p \in matches}
<1>1. \A p \in Patterns : p.priority \in Nat /\ p.priority <= 100
  BY DEF Patterns, Pattern
<1>2. ranks \in SUBSET Nat /\ ranks # {} /\ \A y \in ranks : y <= 100
  BY <1>1
<1>3. Max(ranks) \in ranks /\ \A y \in ranks : y <= Max(ranks)
  <2> HIDE DEF ranks
  <2> QED
    BY <1>2, GreatestOf
<1>4. \E p \in matches : \A q \in matches : q.priority <= p.priority
  BY <1>3
<1> QED
  BY <1>4 DEF Winner

\* What a review withdraws, and what asks for the thing itself.
Excuses == {"PROHIBIT", "AUDIT", "DISCUSS"}

LEMMA PatternsOf ==
  ASSUME NEW p \in Patterns
  PROVE  /\ p.confidence \in Nat /\ p.priority \in Nat
         /\ p.stance \in Excuses \cup {"REQUEST"}
         /\ p.stance \in Excuses <=> p.priority > 75
         /\ p.stance = "PROHIBIT" <=> p.marker = "forbid"
         /\ p.stance \in {"AUDIT", "DISCUSS"} <=> p.marker \in {"check", "identify", "why", "what_risk"}
BY DEF Patterns, Pattern, Excuses

LEMMA MarkersOf ==
  ASSUME NEW m \in {"forbid", "check", "identify", "why", "what_risk"}
  PROVE  \E p \in Patterns : p.marker = m
BY DEF Patterns, Pattern

LEMMA ResolveOneOf ==
  ASSUME NEW text, NEW c
  PROVE  /\ QuotedForReview(text, c) => ResolveOne(text, c) = Stance("QUOTE", 98)
         /\ ~QuotedForReview(text, c) /\ Matches(text, c) # {} =>
              ResolveOne(text, c) =
                Stance(Winner(Matches(text, c)).stance, Winner(Matches(text, c)).confidence)
         /\ ~QuotedForReview(text, c) /\ Matches(text, c) = {} =>
              ResolveOne(text, c) =
                IF c.rule.hint = "UNCERTAIN" THEN Stance("REQUEST", 92)
                ELSE IF EndsItsClause(text, c) THEN Stance("REQUEST", 90)
                ELSE Stance("UNKNOWN", 100)
BY DEF ResolveOne

(* Every candidate is requested, unknown, excused by a pattern or quoted.       *)
LEMMA StanceOf ==
  ASSUME NEW text, NEW c
  PROVE  /\ ResolveOne(text, c).confidence \in Nat
         /\ ResolveOne(text, c).stance \in Excuses \cup {"QUOTE", "REQUEST", "UNKNOWN"}
         /\ ResolveOne(text, c).stance = "QUOTE" <=> QuotedForReview(text, c)
         /\ ResolveOne(text, c).stance \in Excuses <=>
              /\ ~QuotedForReview(text, c) /\ Matches(text, c) # {}
              /\ Winner(Matches(text, c)).stance \in Excuses
<1>1. Matches(text, c) \in SUBSET Patterns
  BY DEF Matches
<1>2. CASE QuotedForReview(text, c)
  BY <1>2, ResolveOneOf DEF Stance, Excuses
<1>3. CASE ~QuotedForReview(text, c) /\ Matches(text, c) # {}
  <2>1. Winner(Matches(text, c)) \in Patterns
    BY <1>1, <1>3, WinnerOf
  <2>2. /\ Winner(Matches(text, c)).confidence \in Nat
        /\ Winner(Matches(text, c)).stance \in Excuses \cup {"REQUEST"}
    BY <2>1, PatternsOf
  <2> QED
    BY <1>3, <2>2, ResolveOneOf DEF Stance, Excuses
<1>4. CASE ~QuotedForReview(text, c) /\ Matches(text, c) = {}
  BY <1>4, ResolveOneOf DEF Stance, Excuses
<1> QED
  BY <1>2, <1>3, <1>4

(* A pattern excuses a phrase by a word of its own clause.                     *)
LEMMA ExcusedIsTakenBack ==
  ASSUME NEW text \in Seq(Token), NEW c \in Candidates(text),
         ResolveOne(text, c).stance \in Excuses
  PROVE  TakenBack(text, c)
<1> DEFINE start == ClauseStart(text, c)
           end == ClauseEnd(text, c)
           p == Winner(Matches(text, c))
<1>1. p \in Matches(text, c) /\ p \in Patterns /\ p.stance \in Excuses
  <2>1. Matches(text, c) \in SUBSET Patterns /\ Matches(text, c) # {} /\ p.stance \in Excuses
    BY StanceOf DEF Matches
  <2> QED
    BY <2>1, WinnerOf
<1> HIDE DEF p
<1>2. /\ c.first \in Nat /\ c.last \in Nat /\ Len(text) \in Nat /\ c.first <= c.last
      /\ start \in Nat /\ end \in Nat /\ start >= 1 /\ start <= c.first
      /\ c.last <= end /\ end <= Len(text)
  BY CandidateOf, StartOfClause, EndOfClause
<1> DEFINE limit == IF p.stance = "PROHIBIT" THEN c.first - 1 ELSE end
<1>3. p.marker \in Tokens(text, start, limit)
  BY <1>1 DEF Matches
<1>4. PICK i \in start..limit : text[i] = p.marker
  BY <1>3 DEF Tokens
<1>5. i \in start..end /\ i \in 1..Len(text) /\ (p.stance = "PROHIBIT" => i < c.first)
  BY <1>2, <1>4
<1>6. SameClause(text, i, c.first)
  <2> SUFFICES ASSUME NEW k \in DOMAIN text, (i < k /\ k < c.first) \/ (c.first < k /\ k < i)
               PROVE  text[k] \notin ClauseDelimiters
    BY DEF SameClause
  <2>1. k \in start..end
    BY <1>2, <1>5
  <2> QED
    BY <2>1, ClauseTokens
<1>7. (text[i] = "forbid" /\ i < c.first) \/ text[i] \in {"check", "identify", "why", "what_risk"}
  BY <1>1, <1>4, <1>5, PatternsOf DEF Excuses
<1> QED
  BY <1>5, <1>6, <1>7 DEF TakenBack

(* No word that takes a phrase back loses to one that asks for it.             *)
LEMMA TakenBackIsNotRequested ==
  ASSUME NEW text \in Seq(Token), NEW c \in Candidates(text), TakenBack(text, c)
  PROVE  ~Requested(text, c)
<1> DEFINE start == ClauseStart(text, c)
           end == ClauseEnd(text, c)
<1>1. PICK i \in DOMAIN text :
        /\ SameClause(text, i, c.first)
        /\ \/ text[i] = "forbid" /\ i < c.first
           \/ text[i] \in {"check", "identify", "why", "what_risk"}
  BY DEF TakenBack
<1>2. /\ c.first \in Nat /\ c.last \in Nat /\ Len(text) \in Nat /\ c.first <= c.last
      /\ c.first \in 1..Len(text)
      /\ start \in Nat /\ end \in Nat /\ start >= 1 /\ start <= c.first
      /\ c.last <= end /\ end <= Len(text)
  BY CandidateOf, StartOfClause, EndOfClause
<1>3. text[i] \notin ClauseDelimiters
  BY <1>1 DEF ClauseDelimiters, SentenceEnds
<1>4. i \in 1..Len(text)
  OBVIOUS
<1>5. start <= i
  <2> SUFFICES ASSUME i < start PROVE FALSE
    BY <1>2, <1>4
  <2>1. start # 1 /\ start - 1 \in DOMAIN text /\ (i = start - 1 \/ (i < start - 1 /\ start - 1 < c.first))
    BY <1>2, <1>4
  <2>2. text[start - 1] \in ClauseDelimiters
    BY <2>1, StartOfClause
  <2> QED
    BY <1>1, <1>3, <2>1, <2>2 DEF SameClause
<1>6. i <= end
  <2> SUFFICES ASSUME i > end PROVE FALSE
    BY <1>2, <1>4
  <2>1. end # Len(text) /\ end + 1 \in DOMAIN text /\ (i = end + 1 \/ (end + 1 < i /\ c.first < end + 1))
    BY <1>2, <1>4
  <2>2. text[end + 1] \in ClauseDelimiters
    BY <2>1, EndOfClause
  <2> QED
    BY <1>1, <1>3, <2>1, <2>2 DEF SameClause
<1>7. PICK p \in Patterns : p.marker = text[i]
  <2>1. text[i] \in {"forbid", "check", "identify", "why", "what_risk"}
    BY <1>1
  <2> QED
    BY <2>1, MarkersOf
<1>8. p.stance \in Excuses /\ (p.stance = "PROHIBIT" => i < c.first)
  BY <1>1, <1>7, PatternsOf DEF Excuses
<1>9. p \in Matches(text, c)
  <2> DEFINE limit == IF p.stance = "PROHIBIT" THEN c.first - 1 ELSE end
  <2>1. i \in start..limit
    BY <1>2, <1>4, <1>5, <1>6, <1>8
  <2>2. p.marker \in Tokens(text, start, limit)
    BY <1>7, <2>1 DEF Tokens
  <2> QED
    BY <2>2 DEF Matches
<1>10. Winner(Matches(text, c)) \in Patterns /\ p.priority <= Winner(Matches(text, c)).priority
  <2>1. Matches(text, c) \in SUBSET Patterns /\ Matches(text, c) # {}
    BY <1>9 DEF Matches
  <2> QED
    BY <1>9, <2>1, WinnerOf
<1>11. Winner(Matches(text, c)).stance \in Excuses
  <2>1. p.priority > 75 /\ p.priority \in Nat /\ Winner(Matches(text, c)).priority \in Nat
    BY <1>8, <1>10, PatternsOf
  <2>2. Winner(Matches(text, c)).priority > 75
    BY <1>10, <2>1
  <2> QED
    BY <1>10, <2>2, PatternsOf
<1>12. ResolveOne(text, c).stance \in Excuses \cup {"QUOTE"}
  BY <1>9, <1>11, StanceOf
<1> QED
  BY <1>12 DEF Requested, Excuses

(* A phrase quoted for review stands between a pair of quotation marks, and    *)
(* the review is asked for outside them, with no end of a sentence between.    *)
LEMMA QuotedStandsInQuotes ==
  ASSUME NEW text \in Seq(Token), NEW c \in Candidates(text), QuotedForReview(text, c)
  PROVE  StandsInQuotes(text, c)
<1> DEFINE p == Min(Quotes(text, c))
           pair == QuotePairs[p]
           open == Max(Openings(text, c, pair))
           close == Min(Closings(text, c, pair))
           starts == {0} \cup {i \in 1..(open - 1) : text[i] \in SentenceEnds}
           ends == {Len(text) + 1} \cup {i \in (close + 1)..Len(text) : text[i] \in SentenceEnds}
           start == Max(starts) + 1
           end == Min(ends) - 1
<1>1. /\ c.first \in 1..Len(text) /\ c.last \in 1..Len(text) /\ c.first <= c.last
      /\ Len(text) \in Nat /\ c.first \in Nat /\ c.last \in Nat /\ c.first - 1 \in Nat
  BY CandidateOf
<1>2. p \in Quotes(text, c)
  <2>1. DOMAIN QuotePairs \in SUBSET Nat
    BY DEF QuotePairs
  <2>2. Quotes(text, c) # {}
    BY DEF QuotedForReview
  <2>3. Quotes(text, c) \in SUBSET Nat
    BY <2>1 DEF Quotes
  <2> QED
    BY <2>2, <2>3, LeastOf
<1>3. p \in DOMAIN QuotePairs /\ Openings(text, c, pair) # {} /\ Closings(text, c, pair) # {}
  BY <1>2 DEF Quotes
<1> HIDE DEF p
<1>4. open \in Openings(text, c, pair)
  <2>1. /\ Openings(text, c, pair) \in SUBSET Nat
        /\ \A i \in Openings(text, c, pair) : i <= c.first - 1
    BY <1>1 DEF Openings
  <2> QED
    BY <1>1, <1>3, <2>1, GreatestOf
<1>5. close \in Closings(text, c, pair)
  <2>1. Closings(text, c, pair) \in SUBSET Nat
    BY <1>1 DEF Closings
  <2> QED
    BY <1>3, <2>1, LeastOf
<1>6. /\ open \in Nat /\ 1 <= open /\ open < c.first /\ text[open] = pair.open
      /\ close \in Nat /\ c.last < close /\ close <= Len(text) /\ text[close] = pair.close
      /\ open - 1 \in Nat
  BY <1>1, <1>4, <1>5 DEF Openings, Closings
<1> HIDE DEF open, close
<1>7. start \in Nat /\ 1 <= start
  <2>1. starts \in SUBSET Nat /\ starts # {} /\ \A i \in starts : i <= open - 1
    BY <1>6
  <2>2. Max(starts) \in starts
    <3> HIDE DEF starts
    <3> QED
      BY <1>6, <2>1, GreatestOf
  <2> QED
    BY <2>1, <2>2
<1>8. end \in Int /\ end <= Len(text)
  <2>1. ends \in SUBSET Nat /\ ends # {} /\ \A i \in ends : i <= Len(text) + 1
    BY <1>1, <1>6
  <2>2. Min(ends) \in ends
    <3> HIDE DEF ends
    <3> QED
      BY <2>1, LeastOf
  <2>3. Min(ends) \in Nat /\ Min(ends) <= Len(text) + 1
    BY <2>1, <2>2
  <2> HIDE DEF ends
  <2> QED
    BY <1>1, <2>3
<1>a. /\ \A e \in start..(open - 1) : text[e] \notin SentenceEnds
      /\ \A e \in (close + 1)..end : text[e] \notin SentenceEnds
  <2>1. starts \in SUBSET Nat /\ starts # {} /\ \A i \in starts : i <= open - 1
    BY <1>6
  <2>2. Max(starts) \in Nat /\ \A i \in starts : i <= Max(starts)
    <3> HIDE DEF starts
    <3> QED
      BY <1>6, <2>1, GreatestOf
  <2>3. \A e \in start..(open - 1) : e \in Nat /\ 1 <= e /\ ~(e <= Max(starts))
    <3> HIDE DEF starts
    <3> QED
      BY <1>6, <1>7, <2>2
  <2>4. \A e \in start..(open - 1) : e \in 1..(open - 1) /\ e \notin starts
    BY <1>6, <1>7, <2>2, <2>3
  <2>5. ends \in SUBSET Nat /\ ends # {} /\ \A i \in ends : i <= Len(text) + 1
    BY <1>1, <1>6
  <2>6. Min(ends) \in Nat /\ \A i \in ends : Min(ends) <= i
    <3> HIDE DEF ends
    <3> QED
      BY <2>5, LeastOf
  <2>7. \A e \in (close + 1)..end : ~(Min(ends) <= e)
    <3> HIDE DEF ends
    <3> QED
      BY <1>6, <2>6
  <2>8. \A e \in (close + 1)..end : e \in (close + 1)..Len(text) /\ e \notin ends
    BY <1>1, <1>6, <1>8, <2>6, <2>7
  <2> QED
    BY <2>4, <2>8 DEF starts, ends
<1>9. QuoteContext(text, c) = Tokens(text, start, open - 1) \cup Tokens(text, close + 1, end)
  BY DEF QuoteContext, p, open, close
<1> HIDE DEF start, end
<1>10. PICK m \in ReviewMarkers : m \in Tokens(text, start, open - 1) \cup Tokens(text, close + 1, end)
  BY <1>9 DEF QuotedForReview
<1>11. \E k \in DOMAIN text :
         /\ text[k] \in ReviewMarkers
         /\ \/ k < open /\ \A e \in k..(open - 1) : text[e] \notin SentenceEnds
            \/ close < k /\ \A e \in (close + 1)..k : text[e] \notin SentenceEnds
  <2>1. CASE m \in Tokens(text, start, open - 1)
    <3>1. PICK k \in start..(open - 1) : text[k] = m
      BY <2>1 DEF Tokens
    <3>2. k \in DOMAIN text /\ k < open
      BY <1>1, <1>6, <1>7
    <3>3. \A e \in k..(open - 1) : e \in start..(open - 1)
      BY <1>6, <1>7, <3>2
    <3> QED
      BY <1>a, <3>1, <3>2, <3>3
  <2>2. CASE m \in Tokens(text, close + 1, end)
    <3>1. PICK k \in (close + 1)..end : text[k] = m
      BY <2>2 DEF Tokens
    <3>2. k \in DOMAIN text /\ close < k
      BY <1>1, <1>6, <1>8
    <3>3. \A e \in (close + 1)..k : e \in (close + 1)..end
      BY <1>6, <1>8, <3>2
    <3> QED
      BY <1>a, <3>1, <3>2, <3>3
  <2> QED
    BY <1>10, <2>1, <2>2
<1>12. open \in DOMAIN text /\ close \in DOMAIN text
  BY <1>1, <1>6
<1> QED
  BY <1>3, <1>6, <1>11, <1>12 DEF StandsInQuotes

(* The safest verdict needs every phrase excused or quoted.                     *)
LEMMA StancesOf ==
  ASSUME NEW text, NEW candidates \in SUBSET Candidates(text), candidates # {}
  PROVE  LET stances == {ResolveOne(text, c) : c \in candidates}
         IN /\ {s.confidence : s \in stances} \in SUBSET Nat
            /\ {s.confidence : s \in stances} # {}
<1>1. \A c \in candidates : ResolveOne(text, c).confidence \in Nat
  BY StanceOf
<1> QED
  BY <1>1

LEMMA RuleFacts ==
  ASSUME NEW rule \in Rules
  PROVE  /\ rule.severity \in {"HIGH", "CRITICAL"} <=> rule.hint = "BLOCKED"
         /\ rule.severity \in {"HIGH", "CRITICAL"} \/ rule.id = "uncertain"
BY DEF Rules

(* What the candidates together decide.                                        *)
LEMMA ResolveOf ==
  ASSUME NEW text, Candidates(text) # {}
  PROVE  LET verdict == Resolve(text, Candidates(text))
         IN /\ verdict.status \in Statuses /\ verdict.confidence \in Nat /\ ~verdict.classifier_used
            /\ verdict.status = "BLOCKED" <=>
                 \E c \in Candidates(text) : c.rule.hint = "BLOCKED" /\ Requested(text, c)
            /\ verdict.status = "SAFE" =>
                 \A c \in Candidates(text) : ResolveOne(text, c).stance \in Excuses \cup {"QUOTE"}
<1> DEFINE found == Candidates(text)
           verdict == Resolve(text, found)
           stances == {ResolveOne(text, c) : c \in found}
           blocks == \E c \in found : c.rule.severity \in {"HIGH", "CRITICAL"} /\ Requested(text, c)
           objects == \E c \in found : c.rule.id = "uncertain" /\ Requested(text, c)
           doubts == \E s \in stances :
                       \/ s.stance = "UNKNOWN"
                       \/ s.stance = "DISCUSS" /\ s.confidence < DiscussSafeMinConfidence
                       \/ s.stance = "QUOTE" /\ s.confidence < QuoteSafeMinConfidence
           least == Min({s.confidence : s \in stances})
<1>1. verdict = IF blocks THEN Decision("BLOCKED", 99, FALSE)
                ELSE IF objects THEN Decision("UNCERTAIN", 85, FALSE)
                ELSE IF doubts THEN Decision("UNCERTAIN", 50, FALSE)
                ELSE Decision("SAFE", least, FALSE)
  BY DEF Resolve
<1>2. \A c \in found : c.rule \in Rules
  BY DEF Candidates
<1>3. blocks <=> \E c \in found : c.rule.hint = "BLOCKED" /\ Requested(text, c)
  BY <1>2, RuleFacts
<1>4. least \in Nat
  <2>1. {s.confidence : s \in stances} \in SUBSET Nat /\ {s.confidence : s \in stances} # {}
    BY StancesOf
  <2> HIDE DEF stances
  <2> QED
    BY <2>1, LeastOf
<1>5. ~blocks /\ ~objects /\ ~doubts =>
        \A c \in found : ResolveOne(text, c).stance \in Excuses \cup {"QUOTE"}
  <2> SUFFICES ASSUME ~blocks, ~objects, ~doubts, NEW c \in found
               PROVE  ResolveOne(text, c).stance \in Excuses \cup {"QUOTE"}
    OBVIOUS
  <2>1. ResolveOne(text, c).stance # "REQUEST"
    BY <1>2, RuleFacts DEF Requested
  <2>2. ResolveOne(text, c).stance # "UNKNOWN"
    OBVIOUS
  <2> QED
    BY <2>1, <2>2, StanceOf
<1> HIDE DEF blocks, objects, doubts, least
<1>6. /\ verdict.status \in Statuses /\ verdict.confidence \in Nat /\ ~verdict.classifier_used
      /\ verdict.status = "BLOCKED" <=> blocks
      /\ verdict.status = "SAFE" <=> ~blocks /\ ~objects /\ ~doubts
  BY <1>1, <1>4 DEF Decision, Statuses
<1> QED
  BY <1>3, <1>5, <1>6

-----------------------------------------------------------------------------
(* Another clause after the text changes nothing about the phrases before it.   *)

LEMMA SameSubSeq ==
  ASSUME NEW s \in Seq(Token), NEW t \in Seq(Token), NEW m \in Nat, NEW n \in Int, m >= 1,
         n <= Len(s), n <= Len(t), \A i \in m..n : s[i] = t[i]
  PROVE  SubSeq(s, m, n) = SubSeq(t, m, n)
<1>1. \A i \in m..n : s[i] \in Token /\ t[i] \in Token
  OBVIOUS
<1>2. /\ SubSeq(s, m, n) \in Seq(Token)
      /\ Len(SubSeq(s, m, n)) = IF m <= n THEN n - m + 1 ELSE 0
      /\ \A i \in 1..(n - m + 1) : SubSeq(s, m, n)[i] = s[m + i - 1]
  BY <1>1, SubSeqProperties
<1>3. /\ SubSeq(t, m, n) \in Seq(Token)
      /\ Len(SubSeq(t, m, n)) = IF m <= n THEN n - m + 1 ELSE 0
      /\ \A i \in 1..(n - m + 1) : SubSeq(t, m, n)[i] = t[m + i - 1]
  BY <1>1, SubSeqProperties
<1> DEFINE u == SubSeq(s, m, n)
           v == SubSeq(t, m, n)
<1>4. Len(u) = Len(v)
  BY <1>2, <1>3
<1>5. \A i \in 1..Len(u) : u[i] = v[i]
  <2> SUFFICES ASSUME NEW i \in 1..Len(u) PROVE u[i] = v[i]
    OBVIOUS
  <2>1. i \in 1..(n - m + 1) /\ m + i - 1 \in m..n
    BY <1>2
  <2> QED
    BY <1>1, <1>2, <1>3, <2>1
<1> HIDE DEF u, v
<1>6. u \in Seq(Token) /\ v \in Seq(Token)
  BY <1>2, <1>3 DEF u, v
<1>7. u = v
  BY <1>4, <1>5, <1>6, SeqEqual
<1> QED
  BY <1>7 DEF u, v

(* The longer text spells the same phrase, in a clause that begins where it    *)
(* did.                                                                        *)
LEMMA StillSpelt ==
  ASSUME NEW text, NEW longer, NEW other, GoesOn(text, longer, other), NEW c \in Candidates(text)
  PROVE  /\ c \in Candidates(longer)
         /\ ClauseStart(longer, c) = ClauseStart(text, c)
<1>1. /\ text \in Seq(Token) /\ longer \in Seq(Token) /\ Len(text) <= Len(longer)
      /\ \A i \in 1..Len(text) : longer[i] = text[i]
      /\ Len(text) \in Nat /\ Len(longer) \in Nat
  BY DEF GoesOn
<1>2. /\ c.first \in 1..Len(text) /\ c.last \in 1..Len(text) /\ c.first <= c.last
      /\ c.first \in Nat /\ c.last \in Nat /\ Spells(text, c.first, c.last, c.rule)
      /\ c \in [rule : Rules, first : DOMAIN text, last : DOMAIN text]
  BY <1>1, CandidateOf
<1>3. \A i \in c.first..c.last : longer[i] = text[i]
  BY <1>1, <1>2
<1>4. Spells(longer, c.first, c.last, c.rule)
  <2> DEFINE old == {i \in c.first..c.last : c.rule.compact => text[i] # "space"}
             new == {i \in c.first..c.last : c.rule.compact => longer[i] # "space"}
  <2>1. new = old
    BY <1>3
  <2>2. /\ {c.first, c.last} \subseteq old
        /\ Cardinality(old) = Len(c.rule.phrase)
        /\ \A i \in old : text[i] = c.rule.phrase[Cardinality({j \in old : j <= i})]
    BY <1>2 DEF Spells
  <2>3. \A i \in old : longer[i] = text[i]
    BY <1>3
  <2> HIDE DEF old
  <2>4. /\ {c.first, c.last} \subseteq new
        /\ Cardinality(new) = Len(c.rule.phrase)
        /\ \A i \in new : longer[i] = c.rule.phrase[Cardinality({j \in new : j <= i})]
    <3> HIDE DEF new
    <3> QED
      BY <2>1, <2>2, <2>3
  <2> QED
    BY <2>4 DEF Spells
<1>5. c \in Candidates(longer)
  <2>1. DOMAIN text \subseteq DOMAIN longer
    BY <1>1
  <2>2. c \in [rule : Rules, first : DOMAIN longer, last : DOMAIN longer]
    BY <1>2, <2>1
  <2> QED
    BY <1>2, <1>4, <2>2 DEF Candidates
<1>6. {i \in 1..(c.first - 1) : longer[i] \in ClauseDelimiters}
        = {i \in 1..(c.first - 1) : text[i] \in ClauseDelimiters}
  <2>1. \A i \in 1..(c.first - 1) : longer[i] = text[i]
    BY <1>1, <1>2
  <2> QED
    BY <2>1
<1>7. ClauseStart(longer, c) = ClauseStart(text, c)
  BY <1>6 DEF ClauseStart
<1> QED
  BY <1>5, <1>7

(* The clause grows by the space before the other clause at most.               *)
LEMMA SameEnd ==
  ASSUME NEW text, NEW longer, NEW other, GoesOn(text, longer, other), NEW c \in Candidates(text),
         other[1] \in ClauseDelimiters
  PROVE  \/ ClauseEnd(longer, c) = ClauseEnd(text, c)
         \/ /\ ClauseEnd(text, c) = Len(text) /\ ClauseEnd(longer, c) = Len(text) + 1
            /\ longer[Len(text) + 1] = "space"
<1>1. /\ text \in Seq(Token) /\ longer \in Seq(Token) /\ Len(text) <= Len(longer)
      /\ \A i \in 1..Len(text) : longer[i] = text[i]
      /\ Len(text) \in Nat /\ Len(longer) \in Nat
  BY DEF GoesOn
<1> DEFINE end == ClauseEnd(text, c)
           new == ClauseEnd(longer, c)
<1>2. /\ c.last \in Nat /\ end \in c.last..Len(text)
      /\ \A i \in (c.last + 1)..end : text[i] \notin ClauseDelimiters
      /\ end # Len(text) => text[end + 1] \in ClauseDelimiters
      /\ c.last >= 1
  BY <1>1, CandidateOf, EndOfClause
<1>3. /\ new \in c.last..Len(longer)
      /\ \A i \in (c.last + 1)..new : longer[i] \notin ClauseDelimiters
      /\ new # Len(longer) => longer[new + 1] \in ClauseDelimiters
  <2>1. c \in Candidates(longer)
    BY StillSpelt
  <2> QED
    BY <1>1, <2>1, EndOfClause
<1> HIDE DEF end, new
<1>4. new >= end
  <2> SUFFICES ASSUME new < end PROVE FALSE
    BY <1>2, <1>3
  <2>1. new # Len(longer) /\ new + 1 \in (c.last + 1)..end /\ new + 1 \in 1..Len(text)
    BY <1>1, <1>2, <1>3
  <2> QED
    BY <1>1, <1>2, <1>3, <2>1
<1>5. CASE end # Len(text)
  <2>1. end + 1 \in 1..Len(text) /\ longer[end + 1] \in ClauseDelimiters
    BY <1>1, <1>2, <1>5
  <2>2. ~(new > end)
    <3> SUFFICES ASSUME new > end PROVE FALSE
      OBVIOUS
    <3>1. end + 1 \in (c.last + 1)..new
      BY <1>2, <1>3
    <3> QED
      BY <1>3, <2>1, <3>1
  <2> QED
    BY <1>2, <1>3, <1>4, <2>2 DEF end, new
<1>6. CASE end = Len(text)
  <2>1. CASE longer = text
    BY <2>1 DEF end, new
  <2>2. ASSUME NEW gap \in {0, 1}, Len(text) + gap < Len(longer),
               gap = 1 => longer[Len(text) + 1] = "space",
               longer[Len(text) + gap + 1] = other[1]
        PROVE  \/ new = end
               \/ new = Len(text) + 1 /\ longer[Len(text) + 1] = "space"
    <3>1. ~(new > Len(text) + gap)
      <4> SUFFICES ASSUME new > Len(text) + gap PROVE FALSE
        OBVIOUS
      <4>1. Len(text) + gap + 1 \in (c.last + 1)..new
        BY <1>1, <1>2, <1>3, <1>6
      <4> QED
        BY <1>3, <2>2, <4>1
    <3> QED
      BY <1>1, <1>2, <1>3, <1>4, <1>6, <2>2, <3>1
  <2>3. new = end \/ (new = Len(text) + 1 /\ longer[Len(text) + 1] = "space")
    BY <2>1, <2>2 DEF GoesOn, end, new
  <2> QED
    BY <1>6, <2>3 DEF end, new
<1> QED
  BY <1>5, <1>6

(* Without quotation marks nothing is quoted.                                  *)
LEMMA NotQuoted ==
  ASSUME NEW text \in Seq(Token), NEW c, \A i \in DOMAIN text : text[i] \notin QuoteMarks,
         c.first - 1 \in Int, c.first - 1 <= Len(text)
  PROVE  ~QuotedForReview(text, c)
<1>1. \A p \in DOMAIN QuotePairs : QuotePairs[p].open \in QuoteMarks
  BY DEF QuotePairs, QuoteMarks
<1>2. \A i \in 1..(c.first - 1) : i \in DOMAIN text
  OBVIOUS
<1>3. \A p \in DOMAIN QuotePairs : Openings(text, c, QuotePairs[p]) = {}
  BY <1>1, <1>2 DEF Openings
<1> QED
  BY <1>3 DEF QuotedForReview, Quotes

(* What the clause of a phrase says does not depend on the clause after it.     *)
LEMMA SameStance ==
  ASSUME NEW text, NEW longer, NEW other, GoesOn(text, longer, other), NEW c \in Candidates(text),
         other[1] \in ClauseDelimiters,
         \A i \in DOMAIN text : text[i] \notin QuoteMarks,
         \A i \in DOMAIN longer : longer[i] \notin QuoteMarks
  PROVE  ResolveOne(longer, c) = ResolveOne(text, c)
<1> DEFINE start == ClauseStart(text, c)
           end == ClauseEnd(text, c)
           new == ClauseEnd(longer, c)
<1>1. /\ text \in Seq(Token) /\ longer \in Seq(Token) /\ Len(text) <= Len(longer)
      /\ \A i \in 1..Len(text) : longer[i] = text[i]
      /\ text # <<>> => text[Len(text)] # "space"
      /\ Len(text) \in Nat /\ Len(longer) \in Nat
  BY DEF GoesOn
<1>2. /\ c \in Candidates(longer) /\ ClauseStart(longer, c) = start
      /\ \/ new = end
         \/ end = Len(text) /\ new = Len(text) + 1 /\ longer[Len(text) + 1] = "space"
  BY StillSpelt, SameEnd
<1>3. /\ c.first \in Nat /\ c.last \in Nat /\ c.first \in 1..Len(text) /\ c.first <= c.last
      /\ start \in Nat /\ end \in Nat /\ start >= 1 /\ start <= c.first
      /\ c.last <= end /\ end <= Len(text) /\ new \in Nat
  BY <1>1, <1>2, CandidateOf, StartOfClause, EndOfClause
<1>4. ~QuotedForReview(text, c) /\ ~QuotedForReview(longer, c)
  <2>1. c.first - 1 \in Int /\ c.first - 1 <= Len(text) /\ c.first - 1 <= Len(longer)
    BY <1>1, <1>3
  <2> QED
    BY <1>1, <2>1, NotQuoted
<1> HIDE DEF start, end, new
<1>5. \A i \in start..end : longer[i] = text[i]
  BY <1>1, <1>3
<1>6. Matches(longer, c) = Matches(text, c)
  <2>1. Tokens(longer, start, c.first - 1) = Tokens(text, start, c.first - 1)
    <3>1. \A i \in start..(c.first - 1) : longer[i] = text[i]
      BY <1>3, <1>5
    <3> QED
      BY <3>1 DEF Tokens
  <2>2. /\ Tokens(text, start, end) \subseteq Tokens(longer, start, new)
        /\ Tokens(longer, start, new) \subseteq Tokens(text, start, end) \cup {"space"}
    <3>1. end <= new /\ \A i \in start..new : i \in start..end \/ longer[i] = "space"
      BY <1>2, <1>3 DEF start, end, new
    <3>2. ASSUME NEW i \in start..end PROVE text[i] \in Tokens(longer, start, new)
      <4>1. i \in start..new /\ longer[i] = text[i]
        BY <1>3, <1>5, <3>1
      <4> QED
        BY <4>1 DEF Tokens
    <3>3. ASSUME NEW i \in start..new PROVE longer[i] \in Tokens(text, start, end) \cup {"space"}
      <4>1. CASE i \in start..end
        BY <1>5, <4>1 DEF Tokens
      <4>2. CASE i \notin start..end
        BY <3>1, <4>2
      <4> QED
        BY <4>1, <4>2
    <3> QED
      BY <3>2, <3>3 DEF Tokens
  <2>3. \A p \in Patterns : p.marker # "space"
    BY DEF Patterns, Pattern
  <2>4. \A p \in Patterns :
          p.marker \in Tokens(longer, start, IF p.stance = "PROHIBIT" THEN c.first - 1 ELSE new)
            <=> p.marker \in Tokens(text, start, IF p.stance = "PROHIBIT" THEN c.first - 1 ELSE end)
    <3> SUFFICES ASSUME NEW p \in Patterns
                 PROVE  p.marker \in Tokens(longer, start, IF p.stance = "PROHIBIT" THEN c.first - 1 ELSE new)
                   <=> p.marker \in Tokens(text, start, IF p.stance = "PROHIBIT" THEN c.first - 1 ELSE end)
      OBVIOUS
    <3>1. CASE p.stance = "PROHIBIT"
      BY <2>1, <3>1
    <3>2. CASE p.stance # "PROHIBIT"
      BY <2>2, <2>3, <3>2
    <3> QED
      BY <3>1, <3>2
  <2> QED
    BY <1>2, <2>4 DEF Matches, start, end, new
<1>7. EndsItsClause(longer, c) = EndsItsClause(text, c)
  <2> DEFINE strip == IF text[end] = "space" THEN end - 1 ELSE end
             stripNew == IF longer[new] = "space" THEN new - 1 ELSE new
             length == c.last - c.first
  <2>1. strip = stripNew
    <3>1. CASE new = end
      <4>1. longer[end] = text[end]
        BY <1>3, <1>5
      <4> QED
        BY <3>1, <4>1
    <3>2. CASE end = Len(text) /\ new = Len(text) + 1 /\ longer[Len(text) + 1] = "space"
      <4>1. text[end] # "space" /\ new - 1 = end
        BY <1>1, <1>3, <3>2
      <4> QED
        BY <3>2, <4>1
    <3> QED
      BY <1>2, <3>1, <3>2 DEF start, end, new
  <2>2. strip \in Int /\ strip <= end /\ length \in Int
    BY <1>3
  <2>3. SubSeq(longer, c.first, c.last) = SubSeq(text, c.first, c.last)
    <3>1. /\ c.first >= 1 /\ c.last \in Int /\ c.last <= Len(longer) /\ c.last <= Len(text)
          /\ \A i \in c.first..c.last : longer[i] = text[i]
      BY <1>1, <1>3
    <3> QED
      BY <1>1, <1>3, <3>1, SameSubSeq
  <2> HIDE DEF strip, length
  <2>4. ASSUME strip - length >= start
        PROVE  SubSeq(longer, strip - length, strip) = SubSeq(text, strip - length, strip)
    <3>1. /\ strip - length \in Nat /\ strip - length >= 1 /\ strip <= Len(longer) /\ strip <= Len(text)
          /\ \A i \in (strip - length)..strip : longer[i] = text[i]
      BY <1>1, <1>3, <1>5, <2>2, <2>4
    <3> QED
      BY <1>1, <2>2, <3>1, SameSubSeq
  <2>5. EndsItsClause(text, c) <=>
          /\ strip - length >= start
          /\ SubSeq(text, strip - length, strip) = SubSeq(text, c.first, c.last)
    BY DEF EndsItsClause, strip, length, start, end
  <2>6. EndsItsClause(longer, c) <=>
          /\ stripNew - length >= start
          /\ SubSeq(longer, stripNew - length, stripNew) = SubSeq(longer, c.first, c.last)
    BY <1>2 DEF EndsItsClause, length, new
  <2>7. EndsItsClause(longer, c) <=> EndsItsClause(text, c)
    <3> HIDE DEF stripNew
    <3> QED
      BY <2>1, <2>3, <2>4, <2>5, <2>6
  <2> QED
    BY <2>7 DEF EndsItsClause
<1>8. CASE Matches(text, c) # {}
  BY <1>4, <1>6, <1>8, ResolveOneOf
<1>9. CASE Matches(text, c) = {}
  BY <1>4, <1>6, <1>7, <1>9, ResolveOneOf
<1> QED
  BY <1>8, <1>9

-----------------------------------------------------------------------------
(* The decision about a text. *)

LEMMA NoTextNoPhrase == Candidates(<<>>) = {}
<1>1. DOMAIN <<>> = {}
  OBVIOUS
<1> QED
  BY <1>1 DEF Candidates

(* A candidate decides alone; without one the classifier may be asked.         *)
LEMMA DecideOf ==
  ASSUME NEW raw, NEW reply
  PROVE  /\ Decide(raw, reply).status \in Statuses
         /\ Decide(raw, reply).confidence \in Int
         /\ Candidates(Normalized(raw)) # {} =>
              Decide(raw, reply) = Resolve(Normalized(raw), Candidates(Normalized(raw)))
         /\ Decide(raw, reply).classifier_used => Candidates(Normalized(raw)) = {}
         /\ Candidates(Normalized(raw)) = {} /\ reply.kind = "absent" =>
              Decide(raw, reply).status = "SAFE"
<1> DEFINE text == Normalized(raw)
           found == Candidates(text)
<1>1. Decide(raw, reply) =
        IF text = <<>> THEN Decision("SAFE", 50, FALSE)
        ELSE IF found # {} THEN Resolve(text, found)
        ELSE IF reply.kind = "absent" THEN Decision("SAFE", 72, FALSE)
        ELSE CoerceClassifierResult(reply)
  BY DEF Decide
<1> HIDE DEF text
<1>2. text = <<>> => found = {}
  BY NoTextNoPhrase
<1>3. CASE found # {}
  <2>1. Decide(raw, reply) = Resolve(text, found)
    BY <1>1, <1>2, <1>3
  <2>2. LET verdict == Resolve(text, found)
        IN verdict.status \in Statuses /\ verdict.confidence \in Nat /\ ~verdict.classifier_used
    BY <1>3, ResolveOf
  <2> HIDE DEF found
  <2> QED
    BY <1>3, <2>1, <2>2 DEF text, found
<1>4. CASE found = {}
  <2>1. /\ CoerceClassifierResult(reply).status \in Statuses
        /\ CoerceClassifierResult(reply).confidence \in Int
    <3>1. CASE reply.kind = "name" /\ reply.status \in Statuses
      BY <3>1 DEF CoerceClassifierResult, Decision
    <3>2. CASE /\ reply.kind = "dict" /\ reply.status \in Statuses /\ reply.confidence \in Percent
      BY <3>2 DEF CoerceClassifierResult, Decision, Percent
    <3>3. CASE /\ ~(reply.kind = "name" /\ reply.status \in Statuses)
               /\ ~(reply.kind = "dict" /\ reply.status \in Statuses /\ reply.confidence \in Percent)
      BY <3>3 DEF CoerceClassifierResult, ClassifierError, Decision, Statuses
    <3> QED
      BY <3>1, <3>2, <3>3
  <2>2. Decide(raw, reply).status \in Statuses /\ Decide(raw, reply).confidence \in Int
    BY <1>1, <1>4, <2>1 DEF Decision, Statuses
  <2>3. reply.kind = "absent" => Decide(raw, reply).status = "SAFE"
    BY <1>1, <1>4 DEF Decision
  <2> QED
    BY <1>4, <2>2, <2>3 DEF text, found
<1> QED
  BY <1>3, <1>4

(* Another clause after a refused text.                                         *)
LEMMA OthersOf ==
  ASSUME NEW other \in OtherClauses
  PROVE  /\ other \in Seq(Token) /\ Len(other) > 0 /\ other[1] \in ClauseDelimiters
         /\ \A k \in DOMAIN other :
              other[k] \notin QuoteMarks \cup {"zero_width", "space", "newline"}
<1> USE DEF Token, QuoteMarks, ClauseDelimiters, SentenceEnds
<1>1. CASE other = <<"comma", "check", "word">>
  BY <1>1
<1>2. CASE other = <<"but", "forbid">>
  BY <1>2
<1>3. CASE other = <<"full_stop", "why", "violation">>
  BY <1>3
<1> QED
  BY <1>1, <1>2, <1>3 DEF OtherClauses

LEMMA NoMarksAfter ==
  ASSUME NEW text, NEW longer, NEW other, GoesOn(text, longer, other),
         \A i \in DOMAIN text : text[i] \notin QuoteMarks,
         \A k \in DOMAIN other : other[k] \notin QuoteMarks
  PROVE  \A i \in DOMAIN longer : longer[i] \notin QuoteMarks
<1>1. /\ text \in Seq(Token) /\ longer \in Seq(Token) /\ Len(text) <= Len(longer)
      /\ \A i \in 1..Len(text) : longer[i] = text[i]
      /\ Len(text) \in Nat /\ Len(longer) \in Nat
  BY DEF GoesOn
<1>2. ASSUME NEW gap \in {0, 1}, gap = 1 => longer[Len(text) + 1] = "space",
             \A i \in (Len(text) + gap + 1)..Len(longer) : \E k \in DOMAIN other : longer[i] = other[k]
      PROVE  \A i \in DOMAIN longer : longer[i] \notin QuoteMarks
  <2> SUFFICES ASSUME NEW i \in 1..Len(longer) PROVE longer[i] \notin QuoteMarks
    BY <1>1
  <2>1. CASE i \in 1..Len(text)
    BY <1>1, <2>1
  <2>2. CASE i = Len(text) + 1 /\ gap = 1
    BY <1>2, <2>2 DEF QuoteMarks
  <2>3. CASE i \in (Len(text) + gap + 1)..Len(longer)
    BY <1>2, <2>3
  <2> QED
    BY <1>1, <2>1, <2>2, <2>3
<1> QED
  BY <1>2 DEF GoesOn

(* A refusal over a phrase outlasts any other clause behind it.                *)
LEMMA RefusedAnyway ==
  ASSUME NEW raw \in Seq(Token), NEW reply, NEW other \in OtherClauses,
         Candidates(Normalized(raw)) # {},
         \A i \in DOMAIN Normalized(raw) : Normalized(raw)[i] \notin QuoteMarks,
         Decide(raw, reply).status = "BLOCKED"
  PROVE  Decide(raw \o other, reply).status = "BLOCKED"
<1> DEFINE text == Normalized(raw)
           longer == Normalized(raw \o other)
<1>1. GoesOn(text, longer, other)
  <2>1. /\ other \in Seq(Token) /\ Len(other) > 0
        /\ \A k \in DOMAIN other : other[k] \notin {"zero_width", "space", "newline"}
    BY OthersOf
  <2> QED
    BY <2>1, NormalizedLonger
<1>2. PICK c \in Candidates(text) : c.rule.hint = "BLOCKED" /\ Requested(text, c)
  BY DecideOf, ResolveOf
<1>3. \A i \in DOMAIN longer : longer[i] \notin QuoteMarks
  <2>1. \A k \in DOMAIN other : other[k] \notin QuoteMarks
    BY OthersOf
  <2> HIDE DEF longer
  <2> QED
    BY <1>1, <2>1, NoMarksAfter
<1> HIDE DEF text, longer
<1>4. c \in Candidates(longer) /\ Requested(longer, c)
  <2>1. c \in Candidates(longer)
    BY <1>1, <1>2, StillSpelt
  <2>2. ResolveOne(longer, c) = ResolveOne(text, c)
    BY <1>1, <1>2, <1>3, OthersOf, SameStance DEF text
  <2> QED
    BY <1>2, <2>1, <2>2 DEF Requested
<1>5. Resolve(longer, Candidates(longer)).status = "BLOCKED"
  BY <1>2, <1>4, ResolveOf
<1> QED
  BY <1>4, <1>5, DecideOf DEF longer

(* What RisksAreHandled says of a decision holds of any text and any reply of   *)
(* the classifier (policy/engine.py:49, policy/stance.py:30).                   *)
THEOREM DecisionsHandleRisks ==
  ASSUME NEW raw \in Seq(Token), NEW reply
  PROVE  LET text == Normalized(raw)
             found == Candidates(text)
             verdict == Decide(raw, reply)
             quoted == \E i \in DOMAIN text : text[i] \in QuoteMarks
         IN /\ verdict.status = "SAFE" =>
                 \A c \in found : TakenBack(text, c) \/ StandsInQuotes(text, c)
            /\ verdict.status = "BLOCKED" /\ found # {} =>
                 \E c \in found : c.rule.hint = "BLOCKED" /\ ~TakenBack(text, c)
            /\ verdict.status = "BLOCKED" /\ found # {} /\ ~quoted =>
                 \A other \in OtherClauses : Decide(raw \o other, reply).status = "BLOCKED"
            /\ verdict.classifier_used => found = {}
            /\ found = {} /\ reply.kind = "absent" => verdict.status = "SAFE"
<1> DEFINE text == Normalized(raw)
           found == Candidates(text)
           verdict == Decide(raw, reply)
<1>1. text \in Seq(Token)
  BY NormalizedText
<1>2. ASSUME verdict.status = "SAFE", NEW c \in found
      PROVE  TakenBack(text, c) \/ StandsInQuotes(text, c)
  <2>1. ResolveOne(text, c).stance \in Excuses \cup {"QUOTE"}
    BY <1>2, DecideOf, ResolveOf
  <2> HIDE DEF text
  <2>2. CASE ResolveOne(text, c).stance \in Excuses
    BY <1>1, <2>2, ExcusedIsTakenBack
  <2>3. CASE ResolveOne(text, c).stance = "QUOTE"
    BY <1>1, <2>3, StanceOf, QuotedStandsInQuotes
  <2> QED
    BY <2>1, <2>2, <2>3
<1>3. ASSUME verdict.status = "BLOCKED", found # {}
      PROVE  \E c \in found : c.rule.hint = "BLOCKED" /\ ~TakenBack(text, c)
  <2>1. PICK c \in found : c.rule.hint = "BLOCKED" /\ Requested(text, c)
    BY <1>3, DecideOf, ResolveOf
  <2> HIDE DEF text
  <2>2. ~TakenBack(text, c)
    BY <1>1, <2>1, TakenBackIsNotRequested
  <2> QED
    BY <2>1, <2>2
<1>4. ASSUME verdict.status = "BLOCKED", found # {}, ~\E i \in DOMAIN text : text[i] \in QuoteMarks
      PROVE  \A other \in OtherClauses : Decide(raw \o other, reply).status = "BLOCKED"
  BY <1>4, RefusedAnyway
<1>5. /\ verdict.classifier_used => found = {}
      /\ found = {} /\ reply.kind = "absent" => verdict.status = "SAFE"
  BY DecideOf
<1> QED
  BY <1>2, <1>3, <1>4, <1>5

================================================================================
