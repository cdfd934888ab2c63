--------------------------- MODULE PacketLinkProofs ---------------------------
(* What TLAPS proves of the packet link, for every capacity, length and kind of *)
(* packet that PacketLink's assumptions admit: its invariants, over every split *)
(* of the two streams into reads and writes. The first sections are the algebra *)
(* the proof is written in: words, recursive definitions, streams, and what the *)
(* parsers take out of the front of a stream. Then one section per side of the  *)
(* link, the inductive invariant, and one lemma per step.                       *)
EXTENDS PacketLink, SequenceTheorems, WellFoundedInduction, TLAPS

-------------------------------------------------------------------------------
(* Induction, over sets of naturals. *)

\* A set of naturals that holds one holds a smallest one.
LEMMA Smallest ==
    ASSUME NEW X \in SUBSET Nat, X # {}
    PROVE  \E m \in X : \A n \in X : m <= n
<1> DEFINE Less == {p \in Nat \X Nat : p[1] < p[2]}
<1>1. IsWellFoundedOn(Less, Nat)
  BY NatLessThanWellFounded, Zenon DEF OpToRel
<1>2. PICK m \in X : \A n \in X : ~(<<n, m>> \in Less)
  <2> HIDE DEF Less
  <2> QED
    BY <1>1, WFMin
<1>3. ASSUME NEW n \in X
      PROVE  m <= n
  <2>1. m \in Nat /\ n \in Nat
    OBVIOUS
  <2>2. ~(n < m)
    BY <2>1, <1>2
  <2> QED
    BY <2>1, <2>2
<1> QED
  BY <1>3

\* A set that holds every natural whose predecessors it holds has them all: the
\* induction behind every lemma on Stream, Frames and FromRelay below.
LEMMA Induction ==
    ASSUME NEW X, \A n \in Nat : (\A m \in 0 .. n - 1 : m \in X) => n \in X
    PROVE  Nat \subseteq X
<1> SUFFICES ASSUME NEW k \in Nat, k \notin X
             PROVE  FALSE
  OBVIOUS
<1>1. PICK m \in Nat \ X : \A n \in Nat \ X : m <= n
  BY Smallest
<1>2. \A n \in 0 .. m - 1 : n \in X
  BY <1>1
<1> QED
  BY <1>1, <1>2

-------------------------------------------------------------------------------
(* Sequences. The provers reason about sequences by these laws: Word and Cat  *)
(* keep them from unfolding what is concatenated.                             *)

Word(S) == Seq(S)
Cat(s, t) == s \o t

\* The empty word, and the letters of a word.
LEMMA WordFacts ==
    \A S : /\ << >> \in Word(S) /\ Len(<< >>) = 0
           /\ \A s \in Word(S) :
                /\ Len(s) \in Nat /\ DOMAIN s = 1 .. Len(s)
                /\ \A i \in 1 .. Len(s) : s[i] \in S
                /\ Len(s) = 0 => s = << >>
                /\ Cat(s, << >>) = s /\ Cat(<< >>, s) = s
BY EmptySeq, LenProperties, ElementOfSeq, ConcatEmptySeq DEF Word, Cat

\* Concatenation is associative.
LEMMA CatAssociative ==
    \A S : \A s, t, u \in Word(S) : Cat(Cat(s, t), u) = Cat(s, Cat(t, u))
BY ConcatAssociative DEF Word, Cat

\* A concatenation is a word as long as its two parts.
LEMMA CatFacts ==
    \A S : \A s, t \in Word(S) :
        Cat(s, t) \in Word(S) /\ Len(Cat(s, t)) = Len(s) + Len(t)
BY ConcatProperties DEF Word, Cat

\* The letters of a concatenation are those of its parts.
LEMMA CatElements ==
    \A S : \A s, t \in Word(S) :
        /\ \A i \in 1 .. Len(s) : Cat(s, t)[i] = s[i]
        /\ \A i \in 1 .. Len(t) : Cat(s, t)[Len(s) + i] = t[i]
<1> SUFFICES ASSUME NEW S, NEW s \in Word(S), NEW t \in Word(S)
             PROVE  /\ \A i \in 1 .. Len(s) : Cat(s, t)[i] = s[i]
                    /\ \A i \in 1 .. Len(t) : Cat(s, t)[Len(s) + i] = t[i]
  OBVIOUS
<1>1. /\ Len(s) \in Nat /\ Len(t) \in Nat
      /\ \A i \in 1 .. Len(s) + Len(t) :
            Cat(s, t)[i] = IF i <= Len(s) THEN s[i] ELSE t[i - Len(s)]
  BY ConcatProperties, LenProperties DEF Word, Cat
<1> QED
  BY <1>1

\* Two words of one length with the same letters are equal.
LEMMA WordEqual ==
    \A S : \A s, t \in Word(S) :
        Len(s) = Len(t) /\ (\A i \in 1 .. Len(s) : s[i] = t[i]) => s = t
BY SeqEqual DEF Word

\* A word is its first n letters followed by the others.
LEMMA CutFacts ==
    \A S : \A s \in Word(S) : \A n \in 0 .. Len(s) :
        /\ Take(s, n) \in Word(S) /\ Drop(s, n) \in Word(S)
        /\ Len(Take(s, n)) = n /\ Len(Drop(s, n)) = Len(s) - n
        /\ \A i \in 1 .. n : Take(s, n)[i] = s[i]
        /\ \A i \in 1 .. Len(s) - n : Drop(s, n)[i] = s[n + i]
        /\ Cat(Take(s, n), Drop(s, n)) = s
<1> SUFFICES ASSUME NEW S, NEW s \in Seq(S), NEW n \in 0 .. Len(s)
             PROVE  /\ Take(s, n) \in Seq(S) /\ Drop(s, n) \in Seq(S)
                    /\ Len(Take(s, n)) = n /\ Len(Drop(s, n)) = Len(s) - n
                    /\ \A i \in 1 .. n : Take(s, n)[i] = s[i]
                    /\ \A i \in 1 .. Len(s) - n : Drop(s, n)[i] = s[n + i]
                    /\ Take(s, n) \o Drop(s, n) = s
  BY DEF Word, Cat
<1>1. Len(s) \in Nat /\ n \in Nat /\ \A i \in 1 .. Len(s) : s[i] \in S
  BY ElementOfSeq, LenProperties
<1>2. Take(s, n) = SubSeq(s, 1, n) /\ Drop(s, n) = SubSeq(s, n + 1, Len(s))
  BY <1>1 DEF Take, Drop, Least
<1>3. /\ SubSeq(s, 1, n) \in Seq(S) /\ Len(SubSeq(s, 1, n)) = n
      /\ \A i \in 1 .. n : SubSeq(s, 1, n)[i] = s[i]
  BY <1>1, SubSeqProperties
<1>4. /\ SubSeq(s, n + 1, Len(s)) \in Seq(S)
      /\ Len(SubSeq(s, n + 1, Len(s))) = Len(s) - n
      /\ \A i \in 1 .. Len(s) - n : SubSeq(s, n + 1, Len(s))[i] = s[n + i]
  BY <1>1, SubSeqProperties
<1>5. SubSeq(s, 1, n) \o SubSeq(s, n + 1, Len(s)) = s
  <2>1. 1 \in 1 .. Len(s) + 1 /\ n \in 1 - 1 .. Len(s) /\ Len(s) \in n .. Len(s)
    BY <1>1
  <2>2. SubSeq(s, 1, n) \o SubSeq(s, n + 1, Len(s)) = SubSeq(s, 1, Len(s))
    BY <2>1, ConcatAdjacentSubSeq, Zenon
  <2> QED
    BY <2>2, SubSeqFull
<1> QED
  BY <1>2, <1>3, <1>4, <1>5

\* A read of at most n bytes takes a front, and leaves the rest.
LEMMA TakeFacts ==
    \A S : \A s \in Word(S) : \A n \in Nat :
        /\ Take(s, n) \in Word(S)
        /\ Len(Take(s, n)) = IF n <= Len(s) THEN n ELSE Len(s)
        /\ Drop(s, Len(Take(s, n))) \in Word(S)
        /\ Cat(Take(s, n), Drop(s, Len(Take(s, n)))) = s
<1> SUFFICES ASSUME NEW S, NEW s \in Word(S), NEW n \in Nat
             PROVE  /\ Take(s, n) \in Word(S)
                    /\ Len(Take(s, n)) = IF n <= Len(s) THEN n ELSE Len(s)
                    /\ Drop(s, Len(Take(s, n))) \in Word(S)
                    /\ Cat(Take(s, n), Drop(s, Len(Take(s, n)))) = s
  OBVIOUS
<1> DEFINE m == IF n <= Len(s) THEN n ELSE Len(s)
<1>1. Len(s) \in Nat
  BY WordFacts
<1>2. m \in 0 .. Len(s)
  BY <1>1
<1>3. Take(s, n) = Take(s, m)
  BY <1>1 DEF Take, Least
<1> QED
  BY <1>2, <1>3, CutFacts

\* Two ways to cut one word: the longer front extends the shorter.
LEMMA Overlap ==
    \A S : \A s, t, u, v \in Word(S) :
        Cat(s, t) = Cat(u, v) /\ Len(s) <= Len(u)
            => \E w \in Word(S) : u = Cat(s, w) /\ t = Cat(w, v)
<1> SUFFICES ASSUME NEW S, NEW s \in Word(S), NEW t \in Word(S), NEW u \in Word(S),
                    NEW v \in Word(S), Cat(s, t) = Cat(u, v), Len(s) <= Len(u)
             PROVE  \E w \in Word(S) : u = Cat(s, w) /\ t = Cat(w, v)
  OBVIOUS
<1> DEFINE a == Take(u, Len(s))
           w == Drop(u, Len(s))
<1>1. Len(s) \in 0 .. Len(u)
  BY WordFacts
<1>2. a \in Word(S) /\ w \in Word(S) /\ Cat(a, w) = u /\ Len(a) = Len(s)
  BY <1>1, CutFacts
<1> HIDE DEF a, w
<1>3. Cat(a, Cat(w, v)) = Cat(s, t)
  BY <1>2, CatAssociative
<1>4. a = s /\ Cat(w, v) = t
  <2> DEFINE x == Cat(w, v)
  <2>1. x \in Word(S) /\ Cat(a, x) = Cat(s, t)
    BY <1>2, <1>3, CatFacts
  <2>2. Len(s) \in Nat /\ Len(t) \in Nat /\ Len(x) \in Nat
    BY <2>1, WordFacts
  <2> HIDE DEF x
  <2>3. /\ \A i \in 1 .. Len(s) : Cat(s, t)[i] = a[i] /\ Cat(s, t)[i] = s[i]
        /\ Len(s) + Len(x) = Len(s) + Len(t)
        /\ \A i \in 1 .. Len(x) : Cat(a, x)[Len(s) + i] = x[i]
        /\ \A i \in 1 .. Len(t) : Cat(s, t)[Len(s) + i] = t[i]
    <3>1. /\ \A i \in 1 .. Len(a) : Cat(a, x)[i] = a[i]
          /\ \A i \in 1 .. Len(x) : Cat(a, x)[Len(a) + i] = x[i]
      <4>1. a \in Word(S) /\ x \in Word(S)
        BY <1>2, <2>1
      <4> QED
        BY <4>1, CatElements
    <3>2. /\ \A i \in 1 .. Len(s) : Cat(s, t)[i] = s[i]
          /\ \A i \in 1 .. Len(t) : Cat(s, t)[Len(s) + i] = t[i]
      BY CatElements
    <3>3. Len(Cat(a, x)) = Len(a) + Len(x) /\ Len(Cat(s, t)) = Len(s) + Len(t)
      BY <1>2, <2>1, CatFacts
    <3> QED
      BY <1>2, <2>1, <3>1, <3>2, <3>3
  <2>4. Len(x) = Len(t) /\ \A i \in 1 .. Len(x) : x[i] = t[i]
    BY <2>1, <2>2, <2>3
  <2>5. \A i \in 1 .. Len(a) : a[i] = s[i]
    BY <1>2, <2>3
  <2> QED
    BY <1>2, <2>1, <2>4, <2>5, WordEqual DEF x
<1> QED
  BY <1>2, <1>4

\* A common front cancels, and Take and Drop undo a concatenation.
LEMMA Cancel ==
    \A S : \A s, t, u \in Word(S) :
        /\ Cat(s, t) = Cat(s, u) => t = u
        /\ Take(Cat(s, t), Len(s)) = s
        /\ Drop(Cat(s, t), Len(s)) = t
<1>1. ASSUME NEW S, NEW s \in Word(S), NEW t \in Word(S), NEW u \in Word(S),
             Cat(s, t) = Cat(s, u)
      PROVE  t = u
  <2>1. PICK w \in Word(S) : s = Cat(s, w) /\ t = Cat(w, u)
    <3>1. Len(s) <= Len(s)
      BY WordFacts
    <3> QED
      BY <1>1, <3>1, Overlap
  <2>2. Len(s) = Len(s) + Len(w)
    BY <2>1, CatFacts
  <2>3. w = << >>
    BY <2>2, WordFacts
  <2> QED
    BY <2>1, <2>3, WordFacts
<1>2. ASSUME NEW S, NEW s \in Word(S), NEW t \in Word(S)
      PROVE  Take(Cat(s, t), Len(s)) = s /\ Drop(Cat(s, t), Len(s)) = t
  <2> DEFINE x == Cat(s, t)
             a == Take(x, Len(s))
             b == Drop(x, Len(s))
  <2>1. x \in Word(S) /\ Len(s) \in 0 .. Len(x)
    BY CatFacts, WordFacts
  <2>2. a \in Word(S) /\ b \in Word(S) /\ Cat(a, b) = x /\ Len(a) = Len(s)
    <3> HIDE DEF x
    <3> QED
      BY <2>1, CutFacts
  <2>3. Cat(s, t) = Cat(a, b)
    BY <2>2
  <2> HIDE DEF a, b, x
  <2>4. PICK w \in Word(S) : a = Cat(s, w) /\ t = Cat(w, b)
    <3>1. Len(s) <= Len(a)
      BY <2>2, WordFacts
    <3>2. a \in Word(S) /\ b \in Word(S)
      BY <2>2
    <3> QED
      BY <2>3, <3>1, <3>2, Overlap
  <2>5. Len(a) = Len(s) + Len(w)
    BY <2>4, CatFacts
  <2>6. w = << >>
    BY <2>2, <2>5, WordFacts
  <2>7. a = s /\ b = t
    BY <2>2, <2>4, <2>6, WordFacts
  <2> QED
    BY <2>7 DEF a, b, x
<1> QED
  BY <1>1, <1>2

\* A prefix is what something can be appended to.
LEMMA PrefixFacts ==
    \A S : \A s, t \in Word(S) : IsPrefix(s, t) <=> \E u \in Word(S) : t = Cat(s, u)
<1> SUFFICES ASSUME NEW S, NEW s \in Word(S), NEW t \in Word(S)
             PROVE  IsPrefix(s, t) <=> \E u \in Word(S) : t = Cat(s, u)
  OBVIOUS
<1>1. Len(s) \in Nat /\ Len(t) \in Nat /\ SubSeq(s, 1, Len(s)) = s
  BY WordFacts, SubSeqFull DEF Word
<1>2. ASSUME IsPrefix(s, t)
      PROVE  \E u \in Word(S) : t = Cat(s, u)
  <2>1. Len(s) \in 0 .. Len(t) /\ Take(t, Len(s)) = s
    BY <1>1, <1>2 DEF IsPrefix, Take, Least
  <2> QED
    BY <2>1, CutFacts
<1>3. ASSUME NEW u \in Word(S), t = Cat(s, u)
      PROVE  IsPrefix(s, t)
  <2>1. Len(t) = Len(s) + Len(u) /\ Len(u) \in Nat
    BY <1>3, CatFacts, WordFacts
  <2>2. Take(t, Len(s)) = s
    BY <1>3, Cancel
  <2>3. Len(s) \in 0 .. Len(t)
    BY <1>1, <2>1
  <2> QED
    BY <1>1, <2>2, <2>3 DEF IsPrefix, Take, Least
<1> QED
  BY <1>2, <1>3

\* Append is concatenation with a word of one letter.
LEMMA AppendFacts ==
    \A S : \A e \in S :
        /\ << e >> \in Word(S) /\ Len(<< e >>) = 1
        /\ \A s \in Word(S) : Append(s, e) = Cat(s, << e >>)
BY AppendIsConcat DEF Word, Cat

\* A word over S whose letters are all in T is a word over T.
LEMMA SplitFacts ==
    \A S, T : \A s, t \in Word(S) : Cat(s, t) \in Word(T) => s \in Word(T) /\ t \in Word(T)
<1> SUFFICES ASSUME NEW S, NEW T, NEW s \in Word(S), NEW t \in Word(S), Cat(s, t) \in Word(T)
             PROVE  s \in Word(T) /\ t \in Word(T)
  OBVIOUS
<1> DEFINE u == Cat(s, t)
<1>1. Len(s) \in Nat /\ Len(t) \in Nat /\ Len(u) = Len(s) + Len(t)
  BY CatFacts, WordFacts
<1>2. /\ \A i \in 1 .. Len(s) : u[i] = s[i]
      /\ \A i \in 1 .. Len(t) : u[Len(s) + i] = t[i]
  BY CatElements
<1>3. \A i \in 1 .. Len(u) : u[i] \in T
  BY WordFacts
<1> HIDE DEF u
<1>4. \A i \in 1 .. Len(s) : s[i] \in T
  BY <1>1, <1>2, <1>3
<1>5. \A i \in 1 .. Len(t) : t[i] \in T
  BY <1>1, <1>2, <1>3
<1>6. ASSUME NEW w \in Word(S), \A i \in 1 .. Len(w) : w[i] \in T
      PROVE  w \in Word(T)
  <2>1. Len(w) \in Nat /\ w \in [1 .. Len(w) -> S]
    BY LenProperties DEF Word
  <2> DEFINE n == Len(w)
  <2>2. w = [i \in 1 .. n |-> w[i]]
    BY <2>1
  <2> HIDE DEF n
  <2>3. n \in Nat /\ \A i \in 1 .. n : w[i] \in T
    BY <1>6, <2>1 DEF n
  <2>4. [i \in 1 .. n |-> w[i]] \in Seq(T)
    BY <2>3, IsASeq
  <2> QED
    BY <2>2, <2>4 DEF Word
<1> QED
  BY <1>4, <1>5, <1>6

\* A nonempty word ends with a letter.
LEMMA LastFacts ==
    \A S : \A s \in Word(S) :
        s # << >> => \E t \in Word(S), e \in S : s = Cat(t, << e >>) /\ Len(s) = Len(t) + 1
<1> SUFFICES ASSUME NEW S, NEW s \in Word(S), s # << >>
             PROVE  \E t \in Word(S), e \in S : s = Cat(t, << e >>) /\ Len(s) = Len(t) + 1
  OBVIOUS
<1>1. PICK t \in Seq(S), e \in S : s = Append(t, e)
  BY SequenceEmptyOrAppend DEF Word
<1>2. s = Cat(t, << e >>) /\ << e >> \in Word(S) /\ Len(<< e >>) = 1 /\ t \in Word(S)
  BY <1>1, AppendFacts DEF Word
<1> QED
  BY <1>2, CatFacts

\* A nonempty word begins with a letter.
LEMMA FirstFacts ==
    \A S : \A s \in Word(S) :
        s # << >> => /\ Len(s) \in Nat /\ Len(s) > 0 /\ s[1] \in S
                     /\ Drop(s, 1) \in Word(S) /\ s = Cat(<< s[1] >>, Drop(s, 1))
<1> SUFFICES ASSUME NEW S, NEW s \in Word(S), s # << >>
             PROVE  /\ Len(s) \in Nat /\ Len(s) > 0 /\ s[1] \in S
                    /\ Drop(s, 1) \in Word(S) /\ s = Cat(<< s[1] >>, Drop(s, 1))
  OBVIOUS
<1>1. Len(s) \in Nat /\ Len(s) > 0
  BY WordFacts
<1>2. 1 \in 0 .. Len(s) /\ 1 \in 1 .. Len(s) /\ s[1] \in S
  BY <1>1, WordFacts
<1>3. /\ Take(s, 1) \in Word(S) /\ Drop(s, 1) \in Word(S)
      /\ Len(Take(s, 1)) = 1 /\ Take(s, 1)[1] = s[1]
      /\ Cat(Take(s, 1), Drop(s, 1)) = s
  <2>1. /\ Take(s, 1) \in Word(S) /\ Drop(s, 1) \in Word(S)
        /\ Len(Take(s, 1)) = 1 /\ Cat(Take(s, 1), Drop(s, 1)) = s
        /\ \A i \in 1 .. 1 : Take(s, 1)[i] = s[i]
    BY <1>2, CutFacts
  <2> QED
    BY <2>1
<1>4. Take(s, 1) = << s[1] >>
  <2>1. << s[1] >> \in Word(S) /\ Len(<< s[1] >>) = 1
    BY <1>2, AppendFacts
  <2>2. << s[1] >>[1] = s[1]
    OBVIOUS
  <2> QED
    BY <1>3, <2>1, <2>2, WordEqual
<1> QED
  BY <1>1, <1>2, <1>3, <1>4

-------------------------------------------------------------------------------
(* Recursion. *)

\* f[i] is what the first i of the functions G make of base.
Iterates(f, S, base, n, G) ==
    /\ f \in [0 .. n -> S]
    /\ f[0] = base
    /\ \A i \in 1 .. n : f[i] = G[i][f[i - 1]]

\* A recursive definition over 0 .. n has a solution.
LEMMA Iteration ==
    \A S : \A base \in S, n \in Nat : \A G \in [1 .. n -> [S -> S]] :
        \E f : Iterates(f, S, base, n, G)
<1> SUFFICES ASSUME NEW S, NEW base \in S, NEW n \in Nat, NEW G \in [1 .. n -> [S -> S]]
             PROVE  \E f \in [0 .. n -> S] :
                       f[0] = base /\ \A i \in 1 .. n : f[i] = G[i][f[i - 1]]
  BY DEF Iterates
<1> DEFINE Good(k, f) == f[0] = base /\ \A i \in 1 .. k : f[i] = G[i][f[i - 1]]
           X == {k \in Nat : k <= n => \E f \in [0 .. k -> S] : Good(k, f)}
<1>1. ASSUME NEW k \in Nat, \A m \in 0 .. k - 1 : m \in X
      PROVE  k \in X
  <2> SUFFICES ASSUME k <= n
               PROVE  \E f \in [0 .. k -> S] : Good(k, f)
    OBVIOUS
  <2>1. CASE k = 0
    <3>1. [i \in 0 .. k |-> base] \in [0 .. k -> S] /\ Good(k, [i \in 0 .. k |-> base])
      BY <2>1
    <3> QED
      BY <3>1
  <2>2. CASE k > 0
    <3>1. k - 1 \in X /\ k - 1 <= n
      <4>1. k - 1 \in 0 .. k - 1 /\ k - 1 <= n
        BY <2>2
      <4> HIDE DEF X
      <4> QED
        BY <1>1, <4>1
    <3>2. PICK f \in [0 .. k - 1 -> S] : Good(k - 1, f)
      BY <3>1
    <3> DEFINE g == [i \in 0 .. k |-> IF i = k THEN G[k][f[k - 1]] ELSE f[i]]
    <3>3. g \in [0 .. k -> S]
      BY <2>2
    <3>4. ASSUME NEW i \in 1 .. k PROVE g[i] = G[i][g[i - 1]]
      <4>1. CASE i = k
        BY <2>2, <4>1
      <4>2. CASE i # k
        BY <3>2, <4>2
      <4> QED
        BY <4>1, <4>2
    <3>5. g[0] = base
      BY <2>2, <3>2
    <3> QED
      BY <3>3, <3>4, <3>5
  <2> QED
    BY <2>1, <2>2
<1>2. n \in X
  <2> HIDE DEF X
  <2> QED
    BY <1>1, Induction
<1> QED
  BY <1>2

-------------------------------------------------------------------------------
(* Packets and their bytes. *)

\* The packets of the link: the device's, the tunnel's replies, the flows' and the id.
AnyKind == Kinds \cup {"id", "reply", "flow"}
Packets == [kind : AnyKind, length : 1 .. MaxPacket, n : Nat]
Octets == Packets \X Nat

\* A packet has as many bytes as its length says, each of them known by its packet
\* and its place there.
LEMMA BytesFacts ==
    \A p \in Packets : /\ Bytes(p) \in Word(Octets) /\ Len(Bytes(p)) = p.length
                       /\ p.length \in 1 .. MaxPacket /\ p.length \in Nat /\ p.length > 0
                       /\ \A i \in 1 .. p.length : Bytes(p)[i] = <<p, i>>
<1> SUFFICES ASSUME NEW p \in Packets
             PROVE  /\ Bytes(p) \in Word(Octets) /\ Len(Bytes(p)) = p.length
                    /\ p.length \in 1 .. MaxPacket /\ p.length \in Nat /\ p.length > 0
                    /\ \A i \in 1 .. p.length : Bytes(p)[i] = <<p, i>>
  OBVIOUS
<1>1. p.length \in 1 .. MaxPacket /\ p.length \in Nat /\ p.length > 0
  BY BuffersAssumption DEF Packets
<1>2. Bytes(p) \in [1 .. p.length -> Octets]
  BY <1>1 DEF Bytes, Octets
<1>3. Bytes(p) \in Seq(Octets)
  BY <1>1, <1>2, SeqDef
<1>4. Len(Bytes(p)) = p.length
  BY <1>1, <1>2, <1>3, LenProperties DEF Bytes
<1> QED
  BY <1>1, <1>3, <1>4 DEF Word, Bytes

\* What FlattenSeq computes.
LEMMA FlattenFacts ==
    ASSUME NEW S, NEW n \in Nat, NEW w \in [1 .. n -> Word(S)],
           NEW f \in [0 .. n -> Word(S)], f[0] = << >>,
           \A i \in 1 .. n : f[i] = Cat(f[i - 1], w[i])
    PROVE  FlattenSeq(w) = f[n]
<1>0. w \in Seq(Word(S)) /\ Len(w) = n
  <2>1. w \in Seq(Word(S))
    BY SeqDef
  <2> QED
    BY <2>1, LenProperties
<1>1. CASE n = 0
  <2>1. w = << >>
    BY <1>0, <1>1, EmptySeq
  <2> QED
    BY <1>0, <1>1, <2>1 DEF FlattenSeq
<1>2. CASE n > 0
  <2> DEFINE Eq(g) == g = [i \in 1 .. Len(w) |-> IF i = 1 THEN w[i] ELSE g[i - 1] \o w[i]]
             h == CHOOSE g : Eq(g)
             e == [i \in 1 .. n |-> f[i]]
  <2>1. FlattenSeq(w) = h[Len(w)]
    BY <1>0, <1>2 DEF FlattenSeq
  <2>2. Eq(e)
    <3>1. ASSUME NEW i \in 1 .. n
          PROVE  e[i] = IF i = 1 THEN w[i] ELSE e[i - 1] \o w[i]
      <4>1. CASE i = 1
        BY <4>1, WordFacts
      <4>2. CASE i # 1
        <5>1. i - 1 \in 1 .. n /\ i - 1 \in 0 .. n /\ i \in 0 .. n
          BY <4>2
        <5>2. e[i] = Cat(e[i - 1], w[i])
          BY <5>1
        <5> HIDE DEF e
        <5> QED
          BY <4>2, <5>2 DEF Cat
      <4> QED
        BY <4>1, <4>2
    <3> QED
      BY <3>1, <1>0
  <2>3. Eq(h)
    BY <2>2
  <2> DEFINE X == {k \in Nat : k \in 1 .. n => h[k] = f[k]}
  <2>4. ASSUME NEW k \in Nat, \A m \in 0 .. k - 1 : m \in X
        PROVE  k \in X
    <3> SUFFICES ASSUME k \in 1 .. n
                 PROVE  h[k] = f[k]
      OBVIOUS
    <3> HIDE DEF h
    <3>1. h[k] = IF k = 1 THEN w[k] ELSE h[k - 1] \o w[k]
      BY <1>0, <2>3
    <3>2. CASE k = 1
      BY <3>1, <3>2, WordFacts
    <3>3. CASE k # 1
      <4>1. h[k - 1] = f[k - 1]
        BY <2>4, <3>3
      <4> QED
        BY <3>1, <3>3, <4>1 DEF Cat
    <3> QED
      BY <3>2, <3>3
  <2>5. n \in X
    <3> HIDE DEF X
    <3> QED
      BY <2>4, Induction
  <2> HIDE DEF h
  <2> QED
    BY <1>0, <1>2, <2>1, <2>5
<1> QED
  BY <1>1, <1>2

\* A function that adds the bytes of one packet after another ends with the stream.
LEMMA StreamIs ==
    ASSUME NEW ps \in Word(Packets), NEW n \in Nat, n = Len(ps),
           NEW f \in [0 .. n -> Word(Octets)], f[0] = << >>,
           \A i \in 1 .. n : f[i] = Cat(f[i - 1], Bytes(ps[i]))
    PROVE  Stream(ps) = f[n]
<1> DEFINE w == [i \in 1 .. n |-> Bytes(ps[i])]
<1>1. Stream(ps) = FlattenSeq(w)
  BY WordFacts DEF Stream
<1>2. w \in [1 .. n -> Word(Octets)]
  BY WordFacts, BytesFacts
<1>3. \A i \in 1 .. n : f[i] = Cat(f[i - 1], w[i])
  OBVIOUS
<1> HIDE DEF w
<1> QED
  BY <1>1, <1>2, <1>3, FlattenFacts

\* No packets, no bytes.
LEMMA StreamEmpty == Stream(<< >>) = << >>
<1> DEFINE f == [i \in 0 .. 0 |-> << >>]
<1>1. << >> \in Word(Packets) /\ Len(<< >>) = 0 /\ << >> \in Word(Octets)
  BY WordFacts
<1>2. f \in [0 .. 0 -> Word(Octets)] /\ f[0] = << >>
  BY <1>1
<1> HIDE DEF f
<1>3. Stream(<< >>) = f[0]
  BY <1>1, <1>2, StreamIs
<1> QED
  BY <1>2, <1>3

\* One packet more adds its bytes at the end of the stream.
LEMMA StreamAppend ==
    \A ps \in Word(Packets), p \in Packets :
        /\ Stream(ps) \in Word(Octets)
        /\ Stream(Cat(ps, << p >>)) = Cat(Stream(ps), Bytes(p))
<1> SUFFICES ASSUME NEW ps \in Word(Packets), NEW p \in Packets
             PROVE  /\ Stream(ps) \in Word(Octets)
                    /\ Stream(Cat(ps, << p >>)) = Cat(Stream(ps), Bytes(p))
  OBVIOUS
<1> DEFINE n == Len(ps)
           qs == Cat(ps, << p >>)
           G == [i \in 1 .. n + 1 |-> [x \in Word(Octets) |-> Cat(x, Bytes(qs[i]))]]
<1>1. /\ n \in Nat /\ n + 1 \in Nat
      /\ qs \in Word(Packets) /\ Len(qs) = n + 1
      /\ \A i \in 1 .. n : qs[i] = ps[i]
      /\ qs[n + 1] = p
  <2>1. << p >> \in Word(Packets) /\ Len(<< p >>) = 1 /\ << p >>[1] = p
    BY AppendFacts
  <2>2. qs \in Word(Packets) /\ Len(qs) = n + 1
    BY <2>1, CatFacts
  <2>3. /\ \A i \in 1 .. n : qs[i] = ps[i]
        /\ \A i \in 1 .. 1 : qs[n + i] = << p >>[i]
    BY <2>1, CatElements
  <2> QED
    BY <2>1, <2>2, <2>3, WordFacts
<1> HIDE DEF qs, n
<1>2. \A i \in 1 .. n + 1 : Bytes(qs[i]) \in Word(Octets)
  BY <1>1, WordFacts, BytesFacts
<1>3. G \in [1 .. n + 1 -> [Word(Octets) -> Word(Octets)]]
  BY <1>2, CatFacts
<1>4. PICK f \in [0 .. n + 1 -> Word(Octets)] :
         f[0] = << >> /\ \A i \in 1 .. n + 1 : f[i] = G[i][f[i - 1]]
  <2> HIDE DEF G
  <2>1. << >> \in Word(Octets)
    BY WordFacts
  <2>2. \E f : Iterates(f, Word(Octets), << >>, n + 1, G)
    BY <1>1, <1>3, <2>1, Iteration
  <2> QED
    BY <2>2 DEF Iterates
<1>5. \A i \in 1 .. n + 1 : f[i] = Cat(f[i - 1], Bytes(qs[i]))
  <2> TAKE i \in 1 .. n + 1
  <2>1. i - 1 \in 0 .. n + 1
    BY <1>1
  <2>2. f[i - 1] \in Word(Octets)
    BY <1>1, <2>1
  <2> QED
    BY <1>4, <2>2
<1> HIDE DEF G
<1>6. Stream(qs) = f[n + 1]
  BY <1>1, <1>4, <1>5, StreamIs
<1> DEFINE g == [i \in 0 .. n |-> f[i]]
<1>7. /\ g \in [0 .. n -> Word(Octets)] /\ g[0] = << >> /\ g[n] = f[n]
      /\ \A i \in 1 .. n : g[i] = Cat(g[i - 1], Bytes(ps[i]))
  BY <1>1, <1>4, <1>5
<1> HIDE DEF g
<1>8. Stream(ps) = f[n]
  BY <1>1, <1>7, StreamIs DEF n
<1>9. f[n + 1] = Cat(f[n], Bytes(p)) /\ f[n] \in Word(Octets)
  <2>1. n + 1 \in 1 .. n + 1 /\ (n + 1) - 1 = n /\ n \in 0 .. n + 1
    BY <1>1
  <2> QED
    BY <1>1, <1>5, <2>1
<1> QED
  BY <1>6, <1>8, <1>9 DEF qs

\* The stream of a concatenation is the concatenation of the streams.
LEMMA StreamFacts ==
    /\ Stream(<< >>) = << >>
    /\ \A ps \in Word(Packets) : Stream(ps) \in Word(Octets)
    /\ \A p \in Packets : Stream(<< p >>) = Bytes(p)
    /\ \A ps, qs \in Word(Packets) : Stream(Cat(ps, qs)) = Cat(Stream(ps), Stream(qs))
<1>1. ASSUME NEW ps \in Word(Packets) PROVE Stream(ps) \in Word(Octets)
  <2>1. CASE ps = << >>
    BY <2>1, StreamEmpty, WordFacts
  <2>2. CASE ps # << >>
    <3>1. PICK p : p \in Packets
      BY <2>2, LastFacts
    <3> QED
      BY <3>1, StreamAppend
  <2> QED
    BY <2>1, <2>2
<1>2. ASSUME NEW p \in Packets PROVE Stream(<< p >>) = Bytes(p)
  <2>1. << >> \in Word(Packets) /\ << p >> \in Word(Packets) /\ Cat(<< >>, << p >>) = << p >>
    BY WordFacts, AppendFacts
  <2>2. Stream(<< p >>) = Cat(<< >>, Bytes(p))
    BY <2>1, StreamEmpty, StreamAppend
  <2> QED
    BY <2>2, BytesFacts, WordFacts
<1> DEFINE Law(qs) ==
             \A ps \in Word(Packets) : Stream(Cat(ps, qs)) = Cat(Stream(ps), Stream(qs))
           X == {n \in Nat : \A qs \in Word(Packets) : Len(qs) = n => Law(qs)}
<1>3. ASSUME NEW n \in Nat, \A m \in 0 .. n - 1 : m \in X
      PROVE  n \in X
  <2> SUFFICES ASSUME NEW qs \in Word(Packets), Len(qs) = n, NEW ps \in Word(Packets)
               PROVE  Stream(Cat(ps, qs)) = Cat(Stream(ps), Stream(qs))
    OBVIOUS
  <2>1. CASE qs = << >>
    <3>1. Stream(ps) \in Word(Octets) /\ Cat(ps, << >>) = ps
      BY <1>1, WordFacts
    <3>2. Cat(Stream(ps), << >>) = Stream(ps)
      BY <3>1, WordFacts
    <3> HIDE DEF X, Law
    <3> QED
      BY <2>1, <3>1, <3>2, StreamEmpty
  <2>2. CASE qs # << >>
    <3>1. PICK rs \in Word(Packets), p \in Packets :
            qs = Cat(rs, << p >>) /\ Len(qs) = Len(rs) + 1
      BY <2>2, LastFacts
    <3>2. Len(rs) \in 0 .. n - 1
      BY <3>1, WordFacts
    <3>3. Law(rs)
      BY <1>3, <3>2
    <3>4. Stream(Cat(ps, rs)) = Cat(Stream(ps), Stream(rs))
      BY <3>3
    <3> HIDE DEF X, Law
    <3>5. /\ << p >> \in Word(Packets) /\ Bytes(p) \in Word(Octets)
          /\ Stream(ps) \in Word(Octets) /\ Stream(rs) \in Word(Octets)
          /\ Cat(ps, rs) \in Word(Packets)
      BY <1>1, AppendFacts, BytesFacts, CatFacts
    <3>6. Cat(ps, qs) = Cat(Cat(ps, rs), << p >>)
      BY <3>1, <3>5, CatAssociative
    <3>7. Stream(Cat(ps, qs)) = Cat(Cat(Stream(ps), Stream(rs)), Bytes(p))
      BY <3>4, <3>5, <3>6, StreamAppend
    <3>8. Stream(qs) = Cat(Stream(rs), Bytes(p))
      BY <3>1, StreamAppend
    <3> QED
      BY <3>5, <3>7, <3>8, CatAssociative
  <2> QED
    BY <2>1, <2>2
<1>4. Nat \subseteq X
  <2> HIDE DEF X
  <2> QED
    BY <1>3, Induction
<1>5. ASSUME NEW qs \in Word(Packets) PROVE Law(qs)
  BY <1>4, WordFacts
<1> QED
  BY <1>1, <1>2, <1>5, StreamEmpty

-------------------------------------------------------------------------------
(* Parsing. *)

\* f[i] is what Frames finds from position i of s on.
Parses(f, s, header) ==
    \A i \in 0 .. Len(s) :
        f[i] = IF WholeAt(s, i, header) THEN Cat(<< s[i + 1][1] >>, f[i + s[i + 1][1].length])
               ELSE << >>

\* A packet that is whole at i ends within the buffer: the length check that
\* precedes read_packet and the tunnel's erase.
LEMMA WholeAtFacts ==
    ASSUME NEW s \in Word(Octets), NEW i \in 0 .. Len(s), NEW header \in Nat \ {0},
           WholeAt(s, i, header)
    PROVE  /\ s[i + 1][1] \in Packets /\ s[i + 1][1].length \in Nat
           /\ s[i + 1][1].length > 0 /\ i + s[i + 1][1].length <= Len(s)
<1>1. Len(s) \in Nat
  BY WordFacts
<1>2. i + 1 \in 1 .. Len(s) /\ i + s[i + 1][1].length <= Len(s)
  BY <1>1 DEF WholeAt
<1>3. s[i + 1] \in Octets
  BY <1>2, WordFacts
<1>4. s[i + 1][1] \in Packets
  BY <1>3 DEF Octets
<1> QED
  BY <1>2, <1>4, BytesFacts

\* The recursion of Frames has a solution on every buffer.
LEMMA ParseExists ==
    ASSUME NEW s \in Word(Octets), NEW header \in Nat \ {0}
    PROVE  \E f \in [0 .. Len(s) -> Word(Packets)] : Parses(f, s, header)
<1> DEFINE n == Len(s)
           Next0(g, i) == IF WholeAt(s, i, header)
                          THEN Cat(<< s[i + 1][1] >>, g[i + s[i + 1][1].length])
                          ELSE << >>
           Good(k, f) == \A i \in n - k .. n : f[i] = Next0(f, i)
           X == {k \in Nat : k <= n => \E f \in [n - k .. n -> Word(Packets)] : Good(k, f)}
<1>0. n \in Nat
  BY WordFacts
<1>1. ASSUME NEW k \in Nat, \A m \in 0 .. k - 1 : m \in X
      PROVE  k \in X
  <2> SUFFICES ASSUME k <= n
               PROVE  \E f \in [n - k .. n -> Word(Packets)] : Good(k, f)
    OBVIOUS
  <2> HIDE DEF n
  <2>1. CASE k = 0
    <3> DEFINE f == [i \in n .. n |-> << >>]
    <3>1. ~WholeAt(s, n, header)
      BY <1>0 DEF WholeAt, n
    <3>2. f \in [n .. n -> Word(Packets)] /\ Good(0, f)
      BY <1>0, <3>1, WordFacts
    <3>3. n - 0 = n
      BY <1>0
    <3> HIDE DEF Good
    <3> QED
      BY <2>1, <3>2, <3>3
  <2>2. CASE k > 0
    <3>1. k - 1 \in X /\ k - 1 <= n
      <4>1. k - 1 \in 0 .. k - 1 /\ k - 1 <= n
        BY <1>0, <2>2
      <4> HIDE DEF X
      <4> QED
        BY <1>1, <4>1
    <3>2. PICK f \in [n - (k - 1) .. n -> Word(Packets)] : Good(k - 1, f)
      BY <3>1
    <3> DEFINE j == n - k
               e == Next0(f, j)
               g == [i \in n - k .. n |-> IF i = j THEN e ELSE f[i]]
    <3>3. e \in Word(Packets)
      <4>1. CASE WholeAt(s, j, header)
        <5>1. j \in 0 .. Len(s)
          BY <1>0 DEF n
        <5>2. /\ s[j + 1][1] \in Packets /\ s[j + 1][1].length \in Nat
              /\ s[j + 1][1].length > 0 /\ j + s[j + 1][1].length <= n
          BY <4>1, <5>1, WholeAtFacts DEF n
        <5> DEFINE q == s[j + 1][1]
        <5>3. f[j + q.length] \in Word(Packets)
          <6>1. j + q.length \in n - (k - 1) .. n
            BY <1>0, <2>2, <5>2
          <6> QED
            BY <6>1
        <5>4. << q >> \in Word(Packets)
          <6>1. q \in Packets
            BY <5>2
          <6> HIDE DEF q
          <6> QED
            BY <6>1, AppendFacts
        <5>5. Cat(<< q >>, f[j + q.length]) \in Word(Packets)
          BY <5>3, <5>4, CatFacts
        <5> QED
          BY <4>1, <5>5
      <4>2. CASE ~WholeAt(s, j, header)
        BY <4>2, WordFacts
      <4> QED
        BY <4>1, <4>2
    <3>4. g \in [n - k .. n -> Word(Packets)]
      <4> HIDE DEF e
      <4>1. \A i \in n - k .. n : i # j => i \in n - (k - 1) .. n
        BY <1>0
      <4>2. \A i \in n - (k - 1) .. n : f[i] \in Word(Packets)
        OBVIOUS
      <4>3. \A i \in n - k .. n : (IF i = j THEN e ELSE f[i]) \in Word(Packets)
        <5> HIDE DEF j
        <5> QED
          BY <3>3, <4>1, <4>2
      <4> QED
        BY <4>3
    <3>5. ASSUME NEW i \in n - k .. n PROVE g[i] = Next0(g, i)
      <4>1. \A h \in n - (k - 1) .. n : g[h] = f[h]
        BY <1>0
      <4>2. WholeAt(s, i, header) => i + s[i + 1][1].length \in n - (k - 1) .. n
        <5> SUFFICES ASSUME WholeAt(s, i, header)
                     PROVE  i + s[i + 1][1].length \in n - (k - 1) .. n
          OBVIOUS
        <5>1. i \in 0 .. Len(s)
          BY <1>0 DEF n
        <5>2. /\ s[i + 1][1].length \in Nat
              /\ s[i + 1][1].length > 0 /\ i + s[i + 1][1].length <= n
          BY <5>1, WholeAtFacts DEF n
        <5> QED
          BY <1>0, <2>2, <5>2
      <4> HIDE DEF g
      <4>3. Next0(g, i) = Next0(f, i)
        BY <4>1, <4>2
      <4>4. g[i] = Next0(f, i)
        <5>1. CASE i = j
          <6> HIDE DEF Next0
          <6> QED
            BY <5>1 DEF g
        <5>2. CASE i # j
          <6>1. i \in n - (k - 1) .. n
            BY <1>0, <5>2
          <6>2. f[i] = Next0(f, i)
            <7> HIDE DEF Next0
            <7> QED
              BY <3>2, <6>1
          <6> HIDE DEF Next0
          <6> QED
            BY <4>1, <6>1, <6>2
        <5> QED
          BY <5>1, <5>2
      <4> QED
        BY <4>3, <4>4
    <3> HIDE DEF g
    <3> QED
      BY <3>4, <3>5
  <2> QED
    BY <2>1, <2>2
<1>2. n \in X
  <2> HIDE DEF X
  <2> QED
    BY <1>0, <1>1, Induction
<1>3. PICK f \in [n - n .. n -> Word(Packets)] : Good(n, f)
  BY <1>2, <1>0
<1>4. n - n = 0
  BY <1>0
<1> QED
  BY <1>3, <1>4 DEF Parses

\* Frames is the start of that solution.
LEMMA FramesIs ==
    ASSUME NEW s \in Word(Octets), NEW header \in Nat \ {0}
    PROVE  \E f : Parses(f, s, header) /\ Frames(s, header) = f[0]
<1> DEFINE Eq(g) == g = [i \in 0 .. Len(s) |->
                           IF WholeAt(s, i, header)
                           THEN << s[i + 1][1] >> \o g[i + s[i + 1][1].length]
                           ELSE << >>]
           h == CHOOSE g : Eq(g)
<1>1. Frames(s, header) = h[0]
  BY DEF Frames
<1>2. PICK f \in [0 .. Len(s) -> Word(Packets)] : Parses(f, s, header)
  BY ParseExists
<1>3. Eq(f)
  BY <1>2 DEF Parses, Cat
<1>4. Eq(h)
  BY <1>3
<1> HIDE DEF h
<1>5. Parses(h, s, header)
  BY <1>4 DEF Parses, Cat
<1> QED
  BY <1>1, <1>5

\* Packets that both parsers can tell the length of.
Sized == {p \in Packets : p.length \in Lengths}

\* What stays in a parser's buffer: less than the next packet of the stream.
Partial(r, qs) == r # << >> => qs # << >> /\ Len(r) < qs[1].length

\* A parser that sees x, the front of the stream of qs, takes ps out of it.
Taken(ps, x, qs, t) ==
    \E rs \in Word(Sized), r \in Word(Octets) :
        /\ qs = Cat(ps, rs) /\ x = Cat(Stream(ps), r) /\ Cat(r, t) = Stream(rs)
        /\ Partial(r, rs)

\* A packet of a length the parsers know is a packet.
LEMMA SizedFacts ==
    /\ \A p \in Sized : p \in Packets /\ p.length \in Lengths
    /\ \A qs \in Word(Sized) : qs \in Word(Packets)
<1>1. Sized \subseteq Packets
  BY DEF Sized
<1>2. \A qs \in Word(Sized) : qs \in Word(Packets)
  BY <1>1, SeqMonotonic DEF Word
<1> QED
  BY <1>2 DEF Sized

\* The first packet of a stream.
LEMMA StreamFirst ==
    \A qs \in Word(Sized) :
        qs # << >> =>
          /\ qs[1] \in Sized /\ Drop(qs, 1) \in Word(Sized)
          /\ qs = Cat(<< qs[1] >>, Drop(qs, 1))
          /\ Stream(qs) = Cat(Bytes(qs[1]), Stream(Drop(qs, 1)))
<1> SUFFICES ASSUME NEW qs \in Word(Sized), qs # << >>
             PROVE  /\ qs[1] \in Sized /\ Drop(qs, 1) \in Word(Sized)
                    /\ qs = Cat(<< qs[1] >>, Drop(qs, 1))
                    /\ Stream(qs) = Cat(Bytes(qs[1]), Stream(Drop(qs, 1)))
  OBVIOUS
<1> DEFINE q == qs[1]
           rs == Drop(qs, 1)
<1>1. q \in Sized /\ rs \in Word(Sized) /\ qs = Cat(<< q >>, rs)
  BY FirstFacts
<1> HIDE DEF q, rs
<1>2. q \in Packets /\ rs \in Word(Packets) /\ << q >> \in Word(Packets)
  BY <1>1, SizedFacts, AppendFacts
<1>3. Stream(qs) = Cat(Bytes(q), Stream(rs))
  BY <1>1, <1>2, StreamFacts
<1> QED
  BY <1>1, <1>3 DEF q, rs

\* To drop i letters, then the word a that follows, is to drop them together.
LEMMA DropDrop ==
    ASSUME NEW S, NEW s \in Word(S), NEW i \in 0 .. Len(s), NEW a \in Word(S), NEW w \in Word(S),
           Drop(s, i) = Cat(a, w)
    PROVE  i + Len(a) \in 0 .. Len(s) /\ Drop(s, i + Len(a)) = w
<1> DEFINE h == Take(s, i)
           x == Drop(s, i)
           y == Cat(h, a)
<1>1. h \in Word(S) /\ x \in Word(S) /\ Len(h) = i /\ Cat(h, x) = s
  BY CutFacts
<1> HIDE DEF h
<1>2. s = Cat(y, w)
  BY <1>1, CatAssociative
<1>3. y \in Word(S) /\ Len(y) = i + Len(a) /\ Len(s) = Len(y) + Len(w)
  <2>1. y \in Word(S) /\ Len(y) = i + Len(a)
    BY <1>1, CatFacts
  <2> HIDE DEF y
  <2> QED
    BY <1>2, <2>1, CatFacts
<1> HIDE DEF y
<1>4. Drop(s, Len(y)) = w
  BY <1>2, <1>3, Cancel
<1> QED
  BY <1>3, <1>4, WordFacts

\* Frames cuts the front of a stream of packets back into the packets it holds.
LEMMA FramesOfStream ==
    ASSUME NEW s \in Word(Octets), NEW header \in Nat \ {0},
           \A n \in Lengths : header <= n,
           NEW qs0 \in Word(Sized), NEW t0 \in Word(Octets), Cat(s, t0) = Stream(qs0)
    PROVE  /\ Frames(s, header) \in Word(Packets)
           /\ Taken(Frames(s, header), s, qs0, t0)
<1> DEFINE n == Len(s)
<1>0. n \in Nat
  BY WordFacts
<1>1. PICK f : Parses(f, s, header) /\ Frames(s, header) = f[0]
  BY FramesIs
<1> DEFINE Right(i) == \A qs \in Word(Sized), t \in Word(Octets) :
                          Cat(Drop(s, i), t) = Stream(qs)
                            => f[i] \in Word(Packets) /\ Taken(f[i], Drop(s, i), qs, t)
           X == {k \in Nat : k <= n => Right(n - k)}
<1>2. ASSUME NEW k \in Nat, \A m \in 0 .. k - 1 : m \in X
      PROVE  k \in X
  <2> DEFINE i == n - k
             x == Drop(s, i)
  <2> SUFFICES ASSUME k <= n, NEW qs \in Word(Sized), NEW t \in Word(Octets),
                      Cat(x, t) = Stream(qs)
               PROVE  f[i] \in Word(Packets) /\ Taken(f[i], x, qs, t)
    OBVIOUS
  <2>1. /\ i \in 0 .. Len(s) /\ x \in Word(Octets) /\ Len(x) = Len(s) - i
        /\ \A j \in 1 .. Len(s) - i : x[j] = s[i + j]
    <3>1. i \in 0 .. Len(s)
      BY <1>0
    <3> HIDE DEF i
    <3> QED
      BY <3>1, CutFacts
  <2>2. \A j \in 0 .. n : i < j => Right(j)
    <3> SUFFICES ASSUME NEW j \in 0 .. n, i < j
                 PROVE  Right(j)
      OBVIOUS
    <3>1. n - j \in 0 .. k - 1 /\ n - j <= n /\ n - (n - j) = j
      BY <1>0
    <3>2. n - j \in X
      <4> HIDE DEF X
      <4> QED
        BY <1>2, <3>1
    <3>3. Right(n - (n - j))
      <4> HIDE DEF Right
      <4> QED
        BY <3>1, <3>2
    <3> HIDE DEF Right
    <3> QED
      BY <3>1, <3>3
  <2> HIDE DEF X, Right, i
  <2>3. f[i] = IF WholeAt(s, i, header)
               THEN Cat(<< s[i + 1][1] >>, f[i + s[i + 1][1].length]) ELSE << >>
    BY <1>1, <2>1 DEF Parses
  <2> HIDE DEF x, n
  <2>4. /\ qs \in Word(Packets) /\ << >> \in Word(Packets) /\ << >> \in Word(Octets)
        /\ Cat(<< >>, x) = x /\ Cat(<< >>, qs) = qs
    BY <2>1, SizedFacts, WordFacts
  <2>5. ASSUME ~WholeAt(s, i, header), Partial(x, qs)
        PROVE  f[i] \in Word(Packets) /\ Taken(f[i], x, qs, t)
    BY <2>1, <2>3, <2>4, <2>5, StreamFacts DEF Taken
  <2>6. CASE x = << >>
    <3>1. ~WholeAt(s, i, header)
      BY <2>1, <2>6, WordFacts DEF WholeAt
    <3> QED
      BY <2>5, <2>6, <3>1 DEF Partial
  <2>7. CASE x # << >>
    <3> DEFINE q == qs[1]
               rs == Drop(qs, 1)
    <3>1. qs # << >>
      <4>1. Len(Cat(x, t)) = Len(x) + Len(t) /\ Len(x) \in Nat /\ Len(t) \in Nat /\ Len(x) # 0
        BY <2>1, <2>7, CatFacts, WordFacts
      <4>2. Cat(x, t) # << >>
        BY <4>1, WordFacts
      <4> QED
        BY <4>2, StreamFacts
    <3>2. /\ q \in Sized /\ rs \in Word(Sized) /\ qs = Cat(<< q >>, rs)
          /\ Stream(qs) = Cat(Bytes(q), Stream(rs))
      BY <3>1, StreamFirst
    <3>3. /\ q \in Packets /\ rs \in Word(Packets) /\ << q >> \in Word(Packets)
          /\ Bytes(q) \in Word(Octets) /\ Stream(rs) \in Word(Octets)
          /\ Len(Bytes(q)) = q.length /\ q.length \in Nat /\ q.length > 0 /\ header <= q.length
      <4> HIDE DEF q, rs
      <4>1. q \in Packets /\ q.length \in Lengths /\ rs \in Word(Packets)
        BY <3>2, SizedFacts
      <4> QED
        BY <4>1, BytesFacts, StreamFacts, AppendFacts
    <3>4. Bytes(q)[1] = <<q, 1>>
      BY <3>3, BytesFacts
    <3> HIDE DEF rs
    <3>5. x[1] = <<q, 1>> /\ s[i + 1] = <<q, 1>>
      <4> HIDE DEF q
      <4>1. Len(x) \in Nat /\ Len(x) > 0
        BY <2>1, <2>7, WordFacts
      <4>2. Cat(x, t)[1] = x[1]
        <5>1. 1 \in 1 .. Len(x)
          BY <4>1
        <5> QED
          BY <2>1, <5>1, CatElements
      <4>3. Cat(Bytes(q), Stream(rs))[1] = Bytes(q)[1]
        <5>1. 1 \in 1 .. Len(Bytes(q))
          BY <3>3
        <5> QED
          BY <3>3, <5>1, CatElements
      <4>4. x[1] = <<q, 1>>
        BY <3>2, <3>4, <4>2, <4>3
      <4>5. x[1] = s[i + 1]
        <5>1. 1 \in 1 .. Len(s) - i
          BY <2>1, <4>1
        <5> QED
          BY <2>1, <5>1
      <4> QED
        BY <4>4, <4>5
    <3>6. CASE Len(x) < q.length
      <4>1. ~WholeAt(s, i, header)
        <5>1. s[i + 1][1].length = q.length
          BY <3>5
        <5>2. Len(s) \in Nat /\ i \in Nat
          BY <2>1, WordFacts
        <5> HIDE DEF q
        <5> QED
          BY <2>1, <3>3, <3>6, <5>1, <5>2 DEF WholeAt
      <4>2. Partial(x, qs)
        BY <3>1, <3>6 DEF Partial
      <4> QED
        BY <2>5, <4>1, <4>2
    <3>7. CASE Len(x) >= q.length
      <4> DEFINE j == i + q.length
      <4> HIDE DEF q
      <4>1. PICK w \in Word(Octets) : x = Cat(Bytes(q), w) /\ Stream(rs) = Cat(w, t)
        <5>1. Cat(Bytes(q), Stream(rs)) = Cat(x, t)
          BY <3>2
        <5>2. Len(Bytes(q)) <= Len(x)
          BY <3>3, <3>7
        <5>3. x \in Word(Octets) /\ Bytes(q) \in Word(Octets) /\ Stream(rs) \in Word(Octets)
          BY <2>1, <3>3
        <5> QED
          BY <5>1, <5>2, <5>3, Overlap
      <4>2. j \in 0 .. Len(s) /\ Drop(s, j) = w
        <5>1. Drop(s, i) = Cat(Bytes(q), w) /\ Bytes(q) \in Word(Octets) /\ i \in 0 .. Len(s)
          BY <2>1, <3>3, <4>1 DEF x
        <5>2. i + Len(Bytes(q)) \in 0 .. Len(s) /\ Drop(s, i + Len(Bytes(q))) = w
          BY <5>1, DropDrop
        <5> QED
          BY <3>3, <5>2
      <4>3. WholeAt(s, i, header)
        <5>1. s[i + 1][1] = q /\ s[i + 1][2] = 1
          BY <3>5
        <5>2. Len(s) \in Nat /\ i \in Nat
          BY <2>1, WordFacts
        <5> QED
          BY <3>3, <4>2, <5>1, <5>2 DEF WholeAt
      <4>4. f[i] = Cat(<< q >>, f[j])
        BY <2>3, <3>5, <4>3
      <4>5. Right(j)
        BY <2>1, <2>2, <3>3, <4>2 DEF n
      <4>6. f[j] \in Word(Packets) /\ Taken(f[j], w, rs, t)
        BY <3>2, <4>1, <4>2, <4>5 DEF Right
      <4> HIDE DEF j
      <4>7. PICK ls \in Word(Sized), r \in Word(Octets) :
              /\ rs = Cat(f[j], ls) /\ w = Cat(Stream(f[j]), r) /\ Cat(r, t) = Stream(ls)
              /\ Partial(r, ls)
        BY <4>6 DEF Taken
      <4>8. ls \in Word(Packets) /\ Stream(f[j]) \in Word(Octets)
        BY <4>6, SizedFacts, StreamFacts
      <4>9. f[i] \in Word(Packets) /\ Stream(f[i]) = Cat(Bytes(q), Stream(f[j]))
        <5>1. f[j] \in Word(Packets) /\ << q >> \in Word(Packets) /\ q \in Packets
          BY <3>3, <4>6
        <5>2. f[i] \in Word(Packets) /\ Stream(f[i]) = Cat(Stream(<< q >>), Stream(f[j]))
          BY <4>4, <5>1, CatFacts, StreamFacts
        <5>3. Stream(<< q >>) = Bytes(q)
          BY <5>1, StreamFacts
        <5> QED
          BY <5>2, <5>3
      <4>10. qs = Cat(f[i], ls)
        BY <3>2, <3>3, <4>4, <4>6, <4>7, <4>8, CatAssociative
      <4>11. x = Cat(Stream(f[i]), r)
        BY <3>3, <4>1, <4>7, <4>8, <4>9, CatAssociative
      <4> QED
        BY <4>7, <4>9, <4>10, <4>11 DEF Taken
    <3> QED
      <4>1. Len(x) \in Nat /\ q.length \in Nat
        BY <2>1, <3>3, WordFacts
      <4> HIDE DEF q
      <4> QED
        BY <3>6, <3>7, <4>1
  <2> QED
    BY <2>6, <2>7
<1>3. n \in X
  <2> HIDE DEF X
  <2> QED
    BY <1>0, <1>2, Induction
<1>4. Right(0)
  <2>1. n - n = 0
    BY <1>0
  <2> HIDE DEF Right
  <2> QED
    BY <1>0, <1>3, <2>1
<1>5. Drop(s, 0) = s
  <2>1. << >> \in Word(Octets) /\ Cat(<< >>, s) = s /\ Len(<< >>) = 0
    BY WordFacts
  <2>2. Drop(Cat(<< >>, s), Len(<< >>)) = s
    BY <2>1, Cancel
  <2> QED
    BY <2>1, <2>2
<1> QED
  BY <1>1, <1>4, <1>5

-------------------------------------------------------------------------------
(* The packets of the relay among those the tunnel holds. *)

Flow == {p \in Sized : p.kind = "flow"}
Held == Flow \cup {p \in Packets : p.kind = "reply"}

\* What the relay's flows produce, and what the tunnel holds for the device, are
\* packets.
LEMMA FlowFacts ==
    /\ \A p \in Flow : p \in Sized /\ p \in Packets /\ p \in Held /\ p.kind = "flow"
    /\ \A p \in Held : p \in Packets /\ (p.kind = "flow" => p \in Flow)
    /\ \A ps \in Word(Flow) : ps \in Word(Sized) /\ ps \in Word(Packets) /\ ps \in Word(Held)
    /\ \A ps \in Word(Held) : ps \in Word(Packets)
<1>1. /\ \A p \in Flow : p \in Sized /\ p \in Packets /\ p \in Held /\ p.kind = "flow"
      /\ \A p \in Held : p \in Packets /\ (p.kind = "flow" => p \in Flow)
  BY SizedFacts DEF Flow, Held
<1>2. Flow \subseteq Sized /\ Flow \subseteq Packets /\ Flow \subseteq Held /\ Held \subseteq Packets
  BY <1>1
<1>3. /\ \A ps \in Word(Flow) : ps \in Word(Sized) /\ ps \in Word(Packets) /\ ps \in Word(Held)
      /\ \A ps \in Word(Held) : ps \in Word(Packets)
  BY <1>2, SeqMonotonic DEF Word
<1> QED
  BY <1>1, <1>3

\* A function that keeps the flows' packets one by one ends with FromRelay.
LEMMA FromRelayIs ==
    ASSUME NEW ps \in Word(Held), NEW n \in Nat, n = Len(ps),
           NEW f \in [0 .. n -> Word(Flow)], f[0] = << >>,
           \A i \in 1 .. n :
              f[i] = IF ps[i].kind = "flow" THEN Cat(f[i - 1], << ps[i] >>) ELSE f[i - 1]
    PROVE  FromRelay(ps) = f[n]
<1> DEFINE Eq(g) == g = [i \in 0 .. Len(ps) |->
                           IF i = 0 THEN << >>
                           ELSE IF ps[i].kind = "flow" THEN Append(g[i - 1], ps[i])
                           ELSE g[i - 1]]
           h == CHOOSE g : Eq(g)
<1>1. FromRelay(ps) = h[n]
  BY DEF FromRelay
<1>2. ASSUME NEW i \in 1 .. n
      PROVE  f[i] = IF ps[i].kind = "flow" THEN Append(f[i - 1], ps[i]) ELSE f[i - 1]
  <2>1. CASE ps[i].kind = "flow"
    <3>1. ps[i] \in Flow
      <4>1. ps[i] \in Held
        BY WordFacts
      <4> QED
        BY <2>1, <4>1, FlowFacts
    <3>2. i - 1 \in 0 .. n
      OBVIOUS
    <3>3. f[i - 1] \in Word(Flow)
      BY <3>2
    <3>4. Append(f[i - 1], ps[i]) = Cat(f[i - 1], << ps[i] >>)
      BY <3>1, <3>3, AppendFacts
    <3> QED
      BY <2>1, <3>4
  <2>2. CASE ps[i].kind # "flow"
    BY <2>2
  <2> QED
    BY <2>1, <2>2
<1>3. Eq(f)
  <2>1. \A i \in 0 .. n : i # 0 => i \in 1 .. n
    OBVIOUS
  <2> QED
    BY <1>2, <2>1
<1>4. Eq(h)
  BY <1>3
<1> DEFINE X == {k \in Nat : k \in 0 .. n => h[k] = f[k]}
<1>5. ASSUME NEW k \in Nat, \A m \in 0 .. k - 1 : m \in X
      PROVE  k \in X
  <2> SUFFICES ASSUME k \in 0 .. n
               PROVE  h[k] = f[k]
    OBVIOUS
  <2> HIDE DEF h
  <2>1. h[k] = IF k = 0 THEN << >>
               ELSE IF ps[k].kind = "flow" THEN Append(h[k - 1], ps[k]) ELSE h[k - 1]
    BY <1>4
  <2>2. CASE k = 0
    BY <2>1, <2>2
  <2>3. CASE k # 0
    <3>1. h[k - 1] = f[k - 1]
      BY <1>5, <2>3
    <3>2. k \in 1 .. n
      BY <2>3
    <3> QED
      BY <1>2, <2>1, <2>3, <3>1, <3>2
  <2> QED
    BY <2>2, <2>3
<1>6. n \in X
  <2> HIDE DEF X
  <2> QED
    BY <1>5, Induction
<1> HIDE DEF h
<1> QED
  BY <1>1, <1>6

\* Nothing comes of nothing.
LEMMA FromRelayEmpty == FromRelay(<< >>) = << >>
<1> DEFINE f == [i \in 0 .. 0 |-> << >>]
<1>1. << >> \in Word(Held) /\ Len(<< >>) = 0 /\ << >> \in Word(Flow)
  BY WordFacts
<1>2. f \in [0 .. 0 -> Word(Flow)] /\ f[0] = << >>
  BY <1>1
<1> HIDE DEF f
<1>3. FromRelay(<< >>) = f[0]
  BY <1>1, <1>2, FromRelayIs
<1> QED
  BY <1>2, <1>3

\* One packet more is kept when it came from the relay, and left out when the
\* tunnel made it (a reply of CreateTcpReset or CreateIcmpUnreachable).
LEMMA FromRelayAppend ==
    \A ps \in Word(Held), p \in Held :
        /\ FromRelay(ps) \in Word(Flow)
        /\ FromRelay(Cat(ps, << p >>)) =
              IF p.kind = "flow" THEN Cat(FromRelay(ps), << p >>) ELSE FromRelay(ps)
<1> SUFFICES ASSUME NEW ps \in Word(Held), NEW p \in Held
             PROVE  /\ FromRelay(ps) \in Word(Flow)
                    /\ FromRelay(Cat(ps, << p >>)) =
                         IF p.kind = "flow" THEN Cat(FromRelay(ps), << p >>) ELSE FromRelay(ps)
  OBVIOUS
<1> DEFINE n == Len(ps)
           m == n + 1
           qs == Cat(ps, << p >>)
           G == [i \in 1 .. m |-> [x \in Word(Flow) |->
                    IF qs[i].kind = "flow" THEN Cat(x, << qs[i] >>) ELSE x]]
<1>1. /\ n \in Nat /\ m \in Nat /\ m = n + 1
      /\ qs \in Word(Held) /\ Len(qs) = m
      /\ \A i \in 1 .. n : qs[i] = ps[i]
      /\ qs[m] = p
  <2>1. << p >> \in Word(Held) /\ Len(<< p >>) = 1 /\ << p >>[1] = p
    BY AppendFacts
  <2>2. qs \in Word(Held) /\ Len(qs) = n + 1
    BY <2>1, CatFacts
  <2>3. /\ \A i \in 1 .. n : qs[i] = ps[i]
        /\ \A i \in 1 .. 1 : qs[n + i] = << p >>[i]
    BY <2>1, CatElements
  <2> QED
    BY <2>1, <2>2, <2>3, WordFacts
<1> HIDE DEF qs, n, m
<1>2. \A i \in 1 .. m : qs[i].kind = "flow" => << qs[i] >> \in Word(Flow)
  <2> TAKE i \in 1 .. m
  <2>1. qs[i] \in Held
    BY <1>1, WordFacts
  <2> QED
    BY <2>1, FlowFacts, AppendFacts
<1>3. G \in [1 .. m -> [Word(Flow) -> Word(Flow)]]
  BY <1>2, CatFacts
<1>4. PICK f \in [0 .. m -> Word(Flow)] :
         f[0] = << >> /\ \A i \in 1 .. m : f[i] = G[i][f[i - 1]]
  <2> HIDE DEF G
  <2>1. << >> \in Word(Flow) /\ m \in Nat
    BY <1>1, WordFacts
  <2>2. \E f \in [0 .. m -> Word(Flow)] :
          f[0] = << >> /\ \A i \in 1 .. m : f[i] = G[i][f[i - 1]]
    <3>1. \E f : Iterates(f, Word(Flow), << >>, m, G)
      BY <1>3, <2>1, Iteration
    <3> QED
      BY <3>1 DEF Iterates
  <2> QED
    BY <2>2
<1>5. \A i \in 1 .. m : f[i] = IF qs[i].kind = "flow" THEN Cat(f[i - 1], << qs[i] >>) ELSE f[i - 1]
  <2> TAKE i \in 1 .. m
  <2>1. i - 1 \in 0 .. m
    BY <1>1
  <2>2. f[i - 1] \in Word(Flow)
    BY <1>1, <2>1
  <2> QED
    BY <1>4, <2>2
<1> HIDE DEF G
<1>6. FromRelay(qs) = f[m]
  BY <1>1, <1>4, <1>5, FromRelayIs
<1> DEFINE g == [i \in 0 .. n |-> f[i]]
<1>7. /\ g \in [0 .. n -> Word(Flow)] /\ g[0] = << >> /\ g[n] = f[n]
      /\ \A i \in 1 .. n : g[i] = IF ps[i].kind = "flow" THEN Cat(g[i - 1], << ps[i] >>) ELSE g[i - 1]
  BY <1>1, <1>4, <1>5
<1> HIDE DEF g
<1>8. FromRelay(ps) = f[n]
  BY <1>1, <1>7, FromRelayIs DEF n
<1>9. /\ f[m] = IF p.kind = "flow" THEN Cat(f[n], << p >>) ELSE f[n]
      /\ f[n] \in Word(Flow)
  <2>1. m \in 1 .. m /\ m - 1 = n /\ n \in 0 .. m
    BY <1>1
  <2> QED
    BY <1>1, <1>5, <2>1
<1> QED
  BY <1>6, <1>8, <1>9 DEF qs

\* FromRelay distributes over concatenation.
LEMMA FromRelayFacts ==
    /\ FromRelay(<< >>) = << >>
    /\ \A ps \in Word(Held) : FromRelay(ps) \in Word(Flow)
    /\ \A ps \in Word(Held), p \in Held :
          p.kind # "flow" => FromRelay(Cat(ps, << p >>)) = FromRelay(ps)
    /\ \A ps, qs \in Word(Held) : FromRelay(Cat(ps, qs)) = Cat(FromRelay(ps), FromRelay(qs))
    /\ \A qs \in Word(Flow) : FromRelay(qs) = qs
<1>1. ASSUME NEW ps \in Word(Held) PROVE FromRelay(ps) \in Word(Flow)
  <2>1. CASE ps = << >>
    BY <2>1, FromRelayEmpty, WordFacts
  <2>2. CASE ps # << >>
    <3>1. PICK p : p \in Held
      BY <2>2, LastFacts
    <3> QED
      BY <3>1, FromRelayAppend
  <2> QED
    BY <2>1, <2>2
<1> DEFINE Law(qs) ==
             /\ \A ps \in Word(Held) : FromRelay(Cat(ps, qs)) = Cat(FromRelay(ps), FromRelay(qs))
             /\ qs \in Word(Flow) => FromRelay(qs) = qs
           X == {n \in Nat : \A qs \in Word(Held) : Len(qs) = n => Law(qs)}
<1>3. ASSUME NEW n \in Nat, \A m \in 0 .. n - 1 : m \in X
      PROVE  n \in X
  <2> SUFFICES ASSUME NEW qs \in Word(Held), Len(qs) = n
               PROVE  Law(qs)
    OBVIOUS
  <2>1. CASE qs = << >>
    <3>1. ASSUME NEW ps \in Word(Held)
          PROVE  FromRelay(Cat(ps, << >>)) = Cat(FromRelay(ps), << >>)
      <4>1. FromRelay(ps) \in Word(Flow) /\ Cat(ps, << >>) = ps
        BY <1>1, WordFacts
      <4>2. Cat(FromRelay(ps), << >>) = FromRelay(ps)
        BY <4>1, WordFacts
      <4> QED
        BY <4>1, <4>2
    <3> HIDE DEF X
    <3> QED
      BY <2>1, <3>1, FromRelayEmpty
  <2>2. CASE qs # << >>
    <3>1. PICK rs \in Word(Held), p \in Held :
            qs = Cat(rs, << p >>) /\ Len(qs) = Len(rs) + 1
      BY <2>2, LastFacts
    <3>2. Len(rs) \in 0 .. n - 1
      BY <3>1, WordFacts
    <3>3. Law(rs)
      BY <1>3, <3>2
    <3> HIDE DEF X
    <3>4. /\ << p >> \in Word(Held) /\ FromRelay(rs) \in Word(Flow)
          /\ FromRelay(qs) = IF p.kind = "flow" THEN Cat(FromRelay(rs), << p >>) ELSE FromRelay(rs)
      BY <1>1, <3>1, AppendFacts, FromRelayAppend
    <3>5. ASSUME NEW ps \in Word(Held)
          PROVE  FromRelay(Cat(ps, qs)) = Cat(FromRelay(ps), FromRelay(qs))
      <4>1. FromRelay(Cat(ps, rs)) = Cat(FromRelay(ps), FromRelay(rs))
        BY <3>3
      <4> HIDE DEF Law
      <4>2. Cat(ps, rs) \in Word(Held) /\ FromRelay(ps) \in Word(Flow)
        BY <1>1, CatFacts
      <4>3. Cat(ps, qs) = Cat(Cat(ps, rs), << p >>)
        BY <3>1, <3>4, CatAssociative
      <4>4. CASE p.kind = "flow"
        <5>1. << p >> \in Word(Flow)
          BY <4>4, FlowFacts, AppendFacts
        <5>2. FromRelay(Cat(ps, qs)) = Cat(FromRelay(Cat(ps, rs)), << p >>)
          BY <4>2, <4>3, <4>4, FromRelayAppend
        <5>3. Cat(Cat(FromRelay(ps), FromRelay(rs)), << p >>)
                = Cat(FromRelay(ps), Cat(FromRelay(rs), << p >>))
          BY <3>4, <4>2, <5>1, CatAssociative
        <5> QED
          BY <3>4, <4>1, <4>4, <5>2, <5>3
      <4>5. CASE p.kind # "flow"
        <5>1. FromRelay(Cat(ps, qs)) = FromRelay(Cat(ps, rs))
          BY <4>2, <4>3, <4>5, FromRelayAppend
        <5> QED
          BY <3>4, <4>1, <4>5, <5>1
      <4> QED
        BY <4>4, <4>5
    <3>6. ASSUME qs \in Word(Flow)
          PROVE  FromRelay(qs) = qs
      <4>1. PICK ls \in Word(Flow), q \in Flow : qs = Cat(ls, << q >>) /\ Len(qs) = Len(ls) + 1
        BY <2>2, <3>6, LastFacts
      <4>2. /\ ls \in Word(Held) /\ << q >> \in Word(Held) /\ Len(ls) = Len(rs)
            /\ q.kind = "flow" /\ q \in Held
        BY <3>1, <4>1, FlowFacts, AppendFacts, WordFacts
      <4>3. Law(ls)
        <5>1. Len(ls) \in 0 .. n - 1
          BY <3>2, <4>2
        <5>2. Len(ls) \in X
          BY <1>3, <5>1
        <5> HIDE DEF Law
        <5> QED
          BY <4>2, <5>2 DEF X
      <4>4. FromRelay(ls) = ls
        BY <4>1, <4>3
      <4> HIDE DEF Law
      <4> QED
        BY <4>1, <4>2, <4>4, FromRelayAppend
    <3> QED
      BY <3>5, <3>6
  <2> QED
    BY <2>1, <2>2
<1>4. Nat \subseteq X
  <2> HIDE DEF X
  <2> QED
    BY <1>3, Induction
<1>5. ASSUME NEW qs \in Word(Held) PROVE Law(qs)
  BY <1>4, WordFacts
<1>6. \A qs \in Word(Flow) : FromRelay(qs) = qs
  BY <1>5, FlowFacts
<1> QED
  BY <1>1, <1>5, <1>6, FromRelayEmpty, FromRelayAppend

-------------------------------------------------------------------------------
(* The relay's client. *)

\* The fields of client.rs.
Clients == [idBytes : 0 .. IdLength, toNetwork : Word(Octets), toClient : Word(Octets),
            pending : Word(Flow), interests : SUBSET {"r", "w"}, end : Causes,
            pushed : Word(Sized), produced : Word(Flow), accepted : Nat]

\* The fields that packets towards the client leave alone.
SameReading(c, d) == /\ d.idBytes = c.idBytes /\ d.toNetwork = c.toNetwork
                     /\ d.end = c.end /\ d.pushed = c.pushed

\* From c to d the ring took some packets whole, and did not overflow.
Filled(c, d) ==
    /\ d \in Clients /\ SameReading(c, d)
    /\ Len(d.toClient) <= RingCapacity
    /\ \E qs \in Word(Flow) : /\ d.produced = Cat(c.produced, qs)
                              /\ d.toClient = Cat(c.toClient, Stream(qs))

\* update_interests changes the interests only, and asks to write while the ring
\* holds bytes.
LEMMA UpdateInterestsFacts ==
    ASSUME NEW c \in Clients
    PROVE  LET d == UpdateInterests(c) IN
           /\ d \in Clients /\ SameReading(c, d)
           /\ d.toClient = c.toClient /\ d.produced = c.produced /\ d.pending = c.pending
           /\ "r" \in d.interests /\ (c.toClient # << >> => "w" \in d.interests)
BY DEF UpdateInterests, Clients, SameReading

\* close() drops what the client's buffers hold.
LEMMA CloseFacts ==
    ASSUME NEW c \in Clients, NEW why \in Causes
    PROVE  LET d == Close(c, why) IN
           /\ d \in Clients /\ d.end = why /\ d.idBytes = c.idBytes /\ d.pushed = c.pushed
           /\ d.produced = c.produced /\ d.toNetwork = << >> /\ d.toClient = << >>
           /\ d.interests = c.interests
<1>1. /\ << >> \in Word(Octets) /\ << >> \in Word(Flow)
  BY WordFacts
<1> QED
  BY <1>1 DEF Close, Clients

\* send_to_client puts a packet that fits behind the bytes of the ring.
LEMMA PushFacts ==
    ASSUME NEW c \in Clients, NEW p \in Flow, Fits(c, p)
    PROVE  LET d == Push(c, p) IN
           /\ d \in Clients /\ SameReading(c, d) /\ d.pending = c.pending
           /\ d.produced = Cat(c.produced, << p >>)
           /\ d.toClient = Cat(c.toClient, Bytes(p))
           /\ Len(d.toClient) <= RingCapacity
           /\ "r" \in d.interests /\ "w" \in d.interests
<1> DEFINE a == Cat(c.toClient, Bytes(p))
           b == Cat(c.produced, << p >>)
           e == [c EXCEPT !.toClient = a, !.produced = b]
<1>1. c.toClient \in Word(Octets) /\ c.produced \in Word(Flow)
  BY DEF Clients
<1>2. /\ p \in Packets /\ Bytes(p) \in Word(Octets) /\ << p >> \in Word(Flow)
      /\ Append(c.produced, p) = b /\ Len(Bytes(p)) = p.length
      /\ p.length \in Nat /\ p.length > 0
  BY <1>1, FlowFacts, BytesFacts, AppendFacts
<1>3. a \in Word(Octets) /\ b \in Word(Flow) /\ Len(a) = Len(c.toClient) + p.length
  BY <1>1, <1>2, CatFacts
<1>4. Push(c, p) = UpdateInterests(e)
  BY <1>2 DEF Push, Cat
<1>5. Len(c.toClient) \in Nat
  BY <1>1, WordFacts
<1>6. Len(a) <= RingCapacity /\ a # << >>
  BY <1>2, <1>3, <1>5, BuffersAssumption, WordFacts DEF Fits
<1> HIDE DEF a, b
<1>7. e \in Clients /\ e.toClient = a /\ e.produced = b /\ e.pending = c.pending /\ SameReading(c, e)
  BY <1>3 DEF Clients, SameReading
<1> HIDE DEF e
<1>8. LET d == UpdateInterests(e) IN
      /\ d \in Clients /\ SameReading(e, d)
      /\ d.toClient = e.toClient /\ d.produced = e.produced /\ d.pending = e.pending
      /\ "r" \in d.interests /\ (e.toClient # << >> => "w" \in d.interests)
  BY <1>7, UpdateInterestsFacts
<1> QED
  BY <1>4, <1>6, <1>7, <1>8 DEF a, b, SameReading

\* One source of process_pending is served whole, or stays pending.
LEMMA ServeFacts ==
    ASSUME NEW c \in Clients, NEW d, Filled(c, d), NEW p \in Flow
    PROVE  Filled(c, Serve(d, p))
<1>0. d \in Clients /\ c.toClient \in Word(Octets) /\ c.produced \in Word(Flow)
  BY DEF Filled, Clients
<1>1. CASE Fits(d, p)
  <2> DEFINE e == Push(d, p)
  <2>1. /\ e \in Clients /\ SameReading(d, e)
        /\ e.produced = Cat(d.produced, << p >>) /\ e.toClient = Cat(d.toClient, Bytes(p))
        /\ Len(e.toClient) <= RingCapacity
    BY <1>0, <1>1, PushFacts
  <2> HIDE DEF e
  <2>2. PICK qs \in Word(Flow) : /\ d.produced = Cat(c.produced, qs)
                                /\ d.toClient = Cat(c.toClient, Stream(qs))
    BY DEF Filled
  <2> DEFINE rs == Cat(qs, << p >>)
  <2>3. /\ << p >> \in Word(Flow) /\ rs \in Word(Flow)
        /\ qs \in Word(Packets) /\ p \in Packets
        /\ Stream(qs) \in Word(Octets) /\ Bytes(p) \in Word(Octets)
    BY FlowFacts, AppendFacts, CatFacts, StreamFacts, BytesFacts
  <2>4. Stream(rs) = Cat(Stream(qs), Bytes(p))
    BY <2>3, StreamAppend
  <2>5. e.produced = Cat(c.produced, rs)
    BY <1>0, <2>1, <2>2, <2>3, CatAssociative
  <2> HIDE DEF rs
  <2>6. e.toClient = Cat(c.toClient, Stream(rs))
    BY <1>0, <2>1, <2>2, <2>3, <2>4, CatAssociative
  <2>7. SameReading(c, e)
    BY <2>1 DEF Filled, SameReading
  <2>8. Serve(d, p) = e
    BY <1>1 DEF Serve, e
  <2> QED
    BY <2>1, <2>3, <2>5, <2>6, <2>7, <2>8 DEF Filled
<1>2. CASE ~Fits(d, p)
  <2> DEFINE e == [d EXCEPT !.pending = Append(@, p)]
  <2>1. Append(d.pending, p) \in Word(Flow)
    <3>1. d.pending \in Word(Flow) /\ << p >> \in Word(Flow)
      BY <1>0, AppendFacts DEF Clients
    <3>2. Append(d.pending, p) = Cat(d.pending, << p >>)
      BY <3>1, AppendFacts
    <3> QED
      BY <3>1, <3>2, CatFacts
  <2>2. /\ e \in Clients /\ SameReading(d, e) /\ e.toClient = d.toClient
        /\ e.produced = d.produced
    BY <1>0, <2>1 DEF Clients, SameReading
  <2>3. Serve(d, p) = e
    BY <1>2 DEF Serve
  <2> HIDE DEF e
  <2> QED
    BY <2>2, <2>3 DEF Filled, SameReading
<1> QED
  BY <1>1, <1>2

\* process_pending pushes whole packets, only while they fit.
LEMMA ProcessPendingFacts ==
    ASSUME NEW c \in Clients, Len(c.toClient) <= RingCapacity
    PROVE  Filled(c, ProcessPending(c))
<1> DEFINE n == Len(c.pending)
           Eq(g) == g = [i \in 0 .. Len(c.pending) |->
                           IF i = 0 THEN [c EXCEPT !.pending = << >>]
                           ELSE Serve(g[i - 1], c.pending[i])]
           h == CHOOSE g : Eq(g)
           base == [c EXCEPT !.pending = << >>]
           S == {d \in Clients : Filled(c, d)}
           G == [i \in 1 .. n |-> [d \in S |-> Serve(d, c.pending[i])]]
<1>1. ProcessPending(c) = h[n]
  BY DEF ProcessPending
<1>2. /\ c.pending \in Word(Flow) /\ n \in Nat
      /\ c.toClient \in Word(Octets) /\ c.produced \in Word(Flow)
      /\ << >> \in Word(Flow)
  BY WordFacts DEF Clients
<1>3. base \in S
  <2>1. base \in Clients /\ SameReading(c, base) /\ base.toClient = c.toClient /\ base.produced = c.produced
    BY <1>2 DEF Clients, SameReading
  <2>2. c.toClient = Cat(c.toClient, Stream(<< >>)) /\ c.produced = Cat(c.produced, << >>)
    BY <1>2, StreamFacts, WordFacts
  <2> HIDE DEF base
  <2> QED
    BY <1>2, <2>1, <2>2 DEF Filled
<1>4. G \in [1 .. n -> [S -> S]]
  <2>1. ASSUME NEW i \in 1 .. n, NEW d \in S
        PROVE  Serve(d, c.pending[i]) \in S
    <3>1. c.pending[i] \in Flow
      BY <1>2, WordFacts
    <3>2. Filled(c, Serve(d, c.pending[i]))
      BY <3>1, ServeFacts
    <3> QED
      BY <3>2 DEF Filled
  <2> HIDE DEF S
  <2> QED
    BY <2>1
<1> HIDE DEF S, base
<1>5. PICK f : Iterates(f, S, base, n, G)
  <2> HIDE DEF G, n
  <2> QED
    BY <1>2, <1>3, <1>4, Iteration
<1>6. /\ f \in [0 .. n -> S] /\ f[0] = base
      /\ \A i \in 1 .. n : f[i] = Serve(f[i - 1], c.pending[i])
  <2>1. f \in [0 .. n -> S] /\ f[0] = base /\ \A i \in 1 .. n : f[i] = G[i][f[i - 1]]
    BY <1>5 DEF Iterates
  <2>2. ASSUME NEW i \in 1 .. n PROVE f[i] = Serve(f[i - 1], c.pending[i])
    <3>1. i - 1 \in 0 .. n
      BY <1>2
    <3>2. f[i - 1] \in S
      BY <2>1, <3>1
    <3> QED
      BY <2>1, <3>2
  <2> QED
    BY <2>1, <2>2
<1> HIDE DEF G
<1>7. Eq(f)
  BY <1>6 DEF base
<1>8. Eq(h)
  BY <1>7
<1> DEFINE X == {k \in Nat : k \in 0 .. n => h[k] = f[k]}
<1>9. ASSUME NEW k \in Nat, \A m \in 0 .. k - 1 : m \in X
      PROVE  k \in X
  <2> SUFFICES ASSUME k \in 0 .. n
               PROVE  h[k] = f[k]
    OBVIOUS
  <2> HIDE DEF h
  <2>1. h[k] = IF k = 0 THEN base ELSE Serve(h[k - 1], c.pending[k])
    BY <1>8 DEF base
  <2>2. CASE k = 0
    BY <1>6, <2>1, <2>2
  <2>3. CASE k # 0
    <3>1. h[k - 1] = f[k - 1]
      BY <1>9, <2>3
    <3>2. k \in 1 .. n
      BY <2>3
    <3> QED
      BY <1>6, <2>1, <2>3, <3>1, <3>2
  <2> QED
    BY <2>2, <2>3
<1>10. n \in X
  <2> HIDE DEF X, n
  <2> QED
    BY <1>2, <1>9, Induction
<1> HIDE DEF h
<1>11. h[n] = f[n] /\ f[n] \in S
  BY <1>2, <1>6, <1>10
<1> QED
  BY <1>1, <1>11 DEF S

-------------------------------------------------------------------------------
(* What the relay sends. *)

\* The bytes that client.rs has yet to write: the rest of the id, then the ring.
Backlog(c) == Cat(Drop(Bytes(Id), IdLength - c.idBytes), c.toClient)

\* The id is a packet of IdLength bytes.
LEMMA IdFacts ==
    /\ Id \in Packets /\ Id.length = IdLength
    /\ Bytes(Id) \in Word(Octets) /\ Len(Bytes(Id)) = IdLength
    /\ IdLength \in Nat /\ IdLength > 0
<1>1. IdLength \in 1 .. MaxPacket /\ MaxPacket \in Nat
  BY BuffersAssumption
<1>2. Id \in Packets /\ Id.length = IdLength
  BY <1>1 DEF Id, Packet, Packets, AnyKind
<1> QED
  BY <1>1, <1>2, BytesFacts

\* The backlog is what is left of the id, then the ring.
LEMMA BacklogFacts ==
    ASSUME NEW c \in Clients
    PROVE  /\ Drop(Bytes(Id), IdLength - c.idBytes) \in Word(Octets)
           /\ Len(Drop(Bytes(Id), IdLength - c.idBytes)) = c.idBytes
           /\ Backlog(c) \in Word(Octets)
           /\ c.idBytes = 0 => Backlog(c) = c.toClient
           /\ Writable(c) \in Word(Octets)
           /\ c.idBytes > 0 => Len(Writable(c)) = c.idBytes
<1> DEFINE m == IdLength - c.idBytes
<1>1. /\ c.idBytes \in Nat /\ m \in 0 .. IdLength /\ IdLength - m = c.idBytes
      /\ c.toClient \in Word(Octets)
  BY IdFacts DEF Clients
<1> HIDE DEF m
<1>2. Drop(Bytes(Id), m) \in Word(Octets) /\ Len(Drop(Bytes(Id), m)) = c.idBytes
  BY <1>1, IdFacts, CutFacts
<1>3. Cat(Drop(Bytes(Id), m), c.toClient) \in Word(Octets)
  BY <1>1, <1>2, CatFacts
<1>4. ASSUME c.idBytes = 0
      PROVE  Cat(Drop(Bytes(Id), m), c.toClient) = c.toClient
  <2>1. Drop(Bytes(Id), m) = << >>
    BY <1>2, <1>4, WordFacts
  <2> QED
    BY <1>1, <2>1, WordFacts
<1> QED
  BY <1>1, <1>2, <1>3, <1>4 DEF Backlog, Writable, m

\* The id and the ring leave by their front; process_pending adds whole packets
\* behind them.
LEMMA ProcessSendFacts ==
    ASSUME NEW c \in Clients, Len(c.toClient) <= RingCapacity,
           NEW n \in Nat, n <= Len(Writable(c))
    PROVE  LET d == ProcessSend(c, n) IN
           /\ d \in Clients /\ Len(d.toClient) <= RingCapacity
           /\ d.toNetwork = c.toNetwork /\ d.end = c.end /\ d.pushed = c.pushed
           /\ d.idBytes = IF c.idBytes > 0 THEN c.idBytes - n ELSE 0
           /\ \E qs \in Word(Flow) :
                /\ d.produced = Cat(c.produced, qs)
                /\ Cat(Take(Writable(c), n), Backlog(d)) = Cat(Backlog(c), Stream(qs))
<1> DEFINE W == Writable(c)
<1>1. /\ W \in Word(Octets) /\ n \in 0 .. Len(W) /\ Backlog(c) \in Word(Octets)
      /\ c.idBytes \in 0 .. IdLength /\ c.toClient \in Word(Octets)
      /\ c.produced \in Word(Flow) /\ << >> \in Word(Flow)
      /\ IdLength \in Nat /\ Bytes(Id) \in Word(Octets) /\ Len(Bytes(Id)) = IdLength
  BY BacklogFacts, WordFacts, IdFacts DEF Clients
<1>2. /\ Take(W, n) \in Word(Octets) /\ Drop(W, n) \in Word(Octets) /\ Len(Take(W, n)) = n
      /\ Len(Drop(W, n)) = Len(W) - n /\ Cat(Take(W, n), Drop(W, n)) = W
  BY <1>1, CutFacts
<1>3. CASE c.idBytes > 0
  <2> DEFINE d == [c EXCEPT !.idBytes = @ - n]
             m == IdLength - c.idBytes
  <2>1. ProcessSend(c, n) = d /\ W = Drop(Bytes(Id), m) /\ Len(W) = c.idBytes
    BY <1>3, BacklogFacts DEF ProcessSend, Writable
  <2>2. c.idBytes - n \in 0 .. IdLength /\ m \in 0 .. IdLength
        /\ IdLength - (c.idBytes - n) = m + n
    BY <1>1, <2>1
  <2>3. /\ d \in Clients /\ d.toNetwork = c.toNetwork /\ d.end = c.end /\ d.pushed = c.pushed
        /\ d.idBytes = c.idBytes - n /\ d.produced = c.produced /\ d.toClient = c.toClient
    BY <2>2 DEF Clients
  <2> HIDE DEF d, m, W
  <2>4. Drop(Bytes(Id), m + n) = Drop(W, n)
    <3>1. Drop(Bytes(Id), m) = Cat(Take(W, n), Drop(W, n))
      BY <1>2, <2>1
    <3>2. /\ Bytes(Id) \in Word(Octets) /\ m \in 0 .. Len(Bytes(Id))
          /\ Take(W, n) \in Word(Octets) /\ Drop(W, n) \in Word(Octets) /\ Len(Take(W, n)) = n
      BY <1>1, <1>2, <2>2
    <3>3. PICK h, w \in Word(Octets) : h = Take(W, n) /\ w = Drop(W, n)
      BY <3>2
    <3>4. Drop(Bytes(Id), m) = Cat(h, w)
      BY <3>1, <3>3
    <3>5. Drop(Bytes(Id), m + Len(h)) = w
      BY <3>2, <3>4, DropDrop
    <3> QED
      BY <3>2, <3>3, <3>5
  <2>5. Backlog(d) = Cat(Drop(W, n), c.toClient) /\ Backlog(c) = Cat(W, c.toClient)
    BY <2>1, <2>2, <2>3, <2>4 DEF Backlog, m
  <2>6. Cat(Take(W, n), Backlog(d)) = Backlog(c)
    BY <1>1, <1>2, <2>5, CatAssociative
  <2>7. Backlog(c) = Cat(Backlog(c), Stream(<< >>)) /\ c.produced = Cat(c.produced, << >>)
    BY <1>1, StreamFacts, WordFacts
  <2> QED
    BY <1>1, <1>3, <2>1, <2>3, <2>6, <2>7 DEF W
<1>4. CASE ~(c.idBytes > 0)
  <2> DEFINE b == [c EXCEPT !.toClient = Drop(@, n)]
             d == ProcessPending(b)
  <2>1. c.idBytes = 0 /\ ProcessSend(c, n) = d /\ W = c.toClient
    BY <1>1, <1>4 DEF ProcessSend, Writable
  <2>2. /\ b \in Clients /\ b.toNetwork = c.toNetwork /\ b.end = c.end /\ b.pushed = c.pushed
        /\ b.idBytes = 0 /\ b.produced = c.produced /\ b.toClient = Drop(W, n)
    BY <1>2, <2>1 DEF Clients
  <2>3. Len(b.toClient) <= RingCapacity
    BY <1>1, <1>2, <2>1, <2>2, BuffersAssumption
  <2> HIDE DEF b
  <2>4. Filled(b, d)
    BY <2>2, <2>3, ProcessPendingFacts
  <2> HIDE DEF d, W
  <2>5. PICK qs \in Word(Flow) : /\ d.produced = Cat(b.produced, qs)
                                /\ d.toClient = Cat(b.toClient, Stream(qs))
    BY <2>4 DEF Filled
  <2>6. /\ d \in Clients /\ Len(d.toClient) <= RingCapacity
        /\ d.toNetwork = c.toNetwork /\ d.end = c.end /\ d.pushed = c.pushed
        /\ d.idBytes = 0 /\ d.produced = Cat(c.produced, qs)
        /\ d.toClient = Cat(Drop(W, n), Stream(qs))
    BY <2>2, <2>4, <2>5 DEF Filled, SameReading
  <2>7. Backlog(d) = d.toClient /\ Backlog(c) = W
    BY <2>1, <2>6, BacklogFacts
  <2>8. Stream(qs) \in Word(Octets)
    BY FlowFacts, StreamFacts
  <2>9. Cat(Take(W, n), Backlog(d)) = Cat(Backlog(c), Stream(qs))
    BY <1>2, <2>6, <2>7, <2>8, CatAssociative
  <2> QED
    BY <1>4, <2>1, <2>6, <2>9 DEF W
<1> QED
  BY <1>3, <1>4

-------------------------------------------------------------------------------
(* What the relay takes. *)

\* The first byte of a nonempty front of a stream begins its first packet.
LEMMA FrontFacts ==
    ASSUME NEW qs \in Word(Sized), NEW x \in Word(Octets), NEW t \in Word(Octets),
           Cat(x, t) = Stream(qs), x # << >>
    PROVE  /\ qs # << >> /\ qs[1] \in Sized /\ x[1] = << qs[1], 1 >>
           /\ ~Misframed(x)
<1>1. Len(x) \in Nat /\ Len(x) > 0
  BY FirstFacts
<1>2. Len(Cat(x, t)) = Len(x) + Len(t) /\ Len(t) \in Nat
  BY CatFacts, WordFacts
<1>3. qs # << >>
  BY <1>1, <1>2, StreamFacts, WordFacts
<1>4. /\ qs[1] \in Sized /\ Drop(qs, 1) \in Word(Sized)
      /\ Stream(qs) = Cat(Bytes(qs[1]), Stream(Drop(qs, 1)))
  BY <1>3, StreamFirst
<1> DEFINE p == qs[1]
           rest == Stream(Drop(qs, 1))
<1>5. /\ p \in Packets /\ Bytes(p) \in Word(Octets) /\ rest \in Word(Octets)
      /\ p.length \in Nat /\ p.length > 0 /\ Len(Bytes(p)) = p.length
      /\ Bytes(p)[1] = << p, 1 >>
  <2>1. p \in Packets /\ Drop(qs, 1) \in Word(Packets)
    BY <1>4, SizedFacts
  <2>2. /\ Bytes(p) \in Word(Octets) /\ Len(Bytes(p)) = p.length
        /\ p.length \in Nat /\ p.length > 0
        /\ \A i \in 1 .. p.length : Bytes(p)[i] = <<p, i>>
    BY <2>1, BytesFacts
  <2>3. rest \in Word(Octets)
    BY <2>1, StreamFacts
  <2> QED
    BY <2>1, <2>2, <2>3
<1> HIDE DEF p, rest
<1>6. Cat(x, t)[1] = x[1] /\ Cat(Bytes(p), rest)[1] = Bytes(p)[1]
  <2>1. 1 \in 1 .. Len(x) /\ 1 \in 1 .. Len(Bytes(p))
    BY <1>1, <1>5
  <2> QED
    BY <1>5, <2>1, CatElements
<1>7. x[1] = << p, 1 >>
  BY <1>4, <1>5, <1>6 DEF p, rest
<1> QED
  BY <1>3, <1>4, <1>7 DEF p, Misframed

\* The smallest element of a nonempty set is in it.
LEMMA MinIs ==
    ASSUME NEW X \in SUBSET Nat, X # {}
    PROVE  Min(X) \in X
BY Smallest DEF Min

\* What push_to_network stops at: a packet that is not all there, or a bad one.
Stops(x, qs) ==
    \/ Partial(x, qs)
    \/ qs # << >> /\ qs[1].kind = "bad" /\ qs[1].length <= Len(x)

\* push_to_network takes whole packets from the front of its buffer, and stops at
\* a packet that is not all there or that is malformed.
LEMMA PushedFacts ==
    ASSUME NEW c \in Clients, NEW qs \in Word(Sized), NEW t \in Word(Octets),
           Cat(c.toNetwork, t) = Stream(qs)
    PROVE  /\ Pushed(c) \in Word(Sized)
           /\ \E rs \in Word(Sized), r \in Word(Octets) :
                /\ qs = Cat(Pushed(c), rs) /\ c.toNetwork = Cat(Stream(Pushed(c)), r)
                /\ Cat(r, t) = Stream(rs) /\ Stops(r, rs)
<1> DEFINE ps == Frames(c.toNetwork, RelayHeader)
           bad == {i \in DOMAIN ps : ps[i].kind = "bad"}
<1>1. c.toNetwork \in Word(Octets) /\ RelayHeader \in Nat \ {0} /\ \A n \in Lengths : RelayHeader <= n
  BY LengthsAssumption DEF Clients
<1>2. ps \in Word(Packets) /\ Taken(ps, c.toNetwork, qs, t)
  BY <1>1, FramesOfStream
<1>3. Pushed(c) = IF bad = {} THEN ps ELSE Take(ps, Min(bad) - 1)
  BY DEF Pushed
<1> HIDE DEF ps
<1>4. PICK rs \in Word(Sized), r \in Word(Octets) :
        /\ qs = Cat(ps, rs) /\ c.toNetwork = Cat(Stream(ps), r) /\ Cat(r, t) = Stream(rs)
        /\ Partial(r, rs)
  BY <1>2 DEF Taken
<1>5. ps \in Word(Sized)
  BY <1>2, <1>4, SplitFacts, SizedFacts
<1>6. CASE bad = {}
  BY <1>3, <1>4, <1>5, <1>6 DEF Stops
<1>7. CASE bad # {}
  <2> DEFINE m == Min(bad)
             front == Take(ps, m - 1)
             back == Drop(ps, m - 1)
             xs == Cat(back, rs)
             x == Cat(Stream(back), r)
  <2>1. DOMAIN ps = 1 .. Len(ps) /\ Len(ps) \in Nat
    BY <1>5, WordFacts
  <2>2. m \in 1 .. Len(ps) /\ ps[m].kind = "bad"
    <3>1. bad \in SUBSET Nat
      BY <2>1
    <3>2. m \in bad
      BY <1>7, <3>1, MinIs
    <3> QED
      BY <2>1, <3>2
  <2> HIDE DEF m, bad
  <2>3. /\ front \in Word(Sized) /\ back \in Word(Sized) /\ ps = Cat(front, back)
        /\ back[1] = ps[m] /\ Len(back) = Len(ps) - (m - 1)
    <3>1. m - 1 \in 0 .. Len(ps) /\ 1 \in 1 .. Len(ps) - (m - 1) /\ (m - 1) + 1 = m
      BY <2>1, <2>2
    <3>2. PICK k : k = m - 1 /\ k \in 0 .. Len(ps)
      BY <3>1
    <3>3. /\ Take(ps, k) \in Word(Sized) /\ Drop(ps, k) \in Word(Sized)
          /\ Cat(Take(ps, k), Drop(ps, k)) = ps /\ Len(Drop(ps, k)) = Len(ps) - k
          /\ \A i \in 1 .. Len(ps) - k : Drop(ps, k)[i] = ps[k + i]
      BY <1>5, <3>2, CutFacts, ZenonT(30)
    <3>4. front = Take(ps, k) /\ back = Drop(ps, k)
      BY <3>2
    <3> HIDE DEF front, back
    <3>5. /\ front \in Word(Sized) /\ back \in Word(Sized) /\ ps = Cat(front, back)
          /\ Len(back) = Len(ps) - k
      BY <3>3, <3>4
    <3>6. back[1] = ps[m]
      BY <3>1, <3>2, <3>3, <3>4
    <3> QED
      BY <3>2, <3>5, <3>6
  <2>4. Pushed(c) = front
    BY <1>3, <1>7 DEF m
  <2> HIDE DEF front, back
  <2>5. back # << >> /\ Len(back) \in Nat /\ Len(back) > 0
    BY <2>1, <2>2, <2>3, WordFacts
  <2>6. /\ front \in Word(Packets) /\ back \in Word(Packets) /\ rs \in Word(Packets)
        /\ Stream(front) \in Word(Octets) /\ Stream(back) \in Word(Octets)
        /\ Stream(rs) \in Word(Octets)
    <3>1. front \in Word(Packets) /\ back \in Word(Packets) /\ rs \in Word(Packets)
      BY <2>3, SizedFacts
    <3> QED
      BY <3>1, StreamFacts
  <2>7. xs \in Word(Sized) /\ x \in Word(Octets)
    BY <2>3, <2>6, CatFacts
  <2>8. qs = Cat(front, xs)
    BY <1>4, <2>3, CatAssociative
  <2>9. c.toNetwork = Cat(Stream(front), x)
    <3>1. Stream(ps) = Cat(Stream(front), Stream(back))
      BY <2>3, <2>6, StreamFacts
    <3> QED
      BY <1>4, <2>6, <3>1, CatAssociative
  <2>10. Cat(x, t) = Stream(xs)
    <3>1. Stream(xs) = Cat(Stream(back), Stream(rs))
      BY <2>6, StreamFacts
    <3>2. Cat(x, t) = Cat(Stream(back), Cat(r, t))
      BY <2>6, CatAssociative
    <3> QED
      BY <1>4, <3>1, <3>2
  <2>11. xs # << >> /\ xs[1] = ps[m]
    <3>1. Len(xs) = Len(back) + Len(rs) /\ Len(rs) \in Nat
      BY <2>3, CatFacts, WordFacts
    <3>2. 1 \in 1 .. Len(back)
      BY <2>5
    <3>3. xs[1] = back[1]
      BY <2>3, <3>2, CatElements
    <3> QED
      BY <2>3, <2>5, <3>1, <3>3, WordFacts
  <2>12. ps[m].length <= Len(x)
    <3>1. Stream(back) = Cat(Bytes(back[1]), Stream(Drop(back, 1))) /\ back[1] \in Sized
          /\ Drop(back, 1) \in Word(Sized)
      BY <2>3, <2>5, StreamFirst
    <3>2. back[1] \in Packets /\ Drop(back, 1) \in Word(Packets)
      BY <3>1, SizedFacts
    <3>3. /\ Bytes(back[1]) \in Word(Octets) /\ Len(Bytes(back[1])) = back[1].length
          /\ back[1].length \in Nat /\ Stream(Drop(back, 1)) \in Word(Octets)
      BY <3>2, BytesFacts, StreamFacts
    <3>4. Len(Stream(Drop(back, 1))) \in Nat /\ Len(r) \in Nat
      BY <3>3, WordFacts
    <3>5. Len(Stream(back)) = back[1].length + Len(Stream(Drop(back, 1)))
      BY <3>1, <3>3, CatFacts
    <3>6. Len(x) = Len(Stream(back)) + Len(r)
      BY <2>6, CatFacts
    <3>7. back[1].length = ps[m].length
      BY <2>3
    <3> QED
      BY <3>3, <3>4, <3>5, <3>6, <3>7
  <2> HIDE DEF xs, x
  <2>13. Stops(x, xs)
    BY <2>2, <2>11, <2>12 DEF Stops
  <2> QED
    BY <2>3, <2>4, <2>7, <2>8, <2>9, <2>10, <2>13
<1> QED
  BY <1>6, <1>7

\* push_to_network leaves the beginning of a packet, or closes the client on a
\* packet that is malformed.
LEMMA PushToNetworkFacts ==
    ASSUME NEW c \in Clients, NEW qs \in Word(Sized), NEW t \in Word(Octets),
           Cat(c.toNetwork, t) = Stream(qs), c.end = "open"
    PROVE  LET d == PushToNetwork(c) IN
           /\ d \in Clients /\ d.idBytes = c.idBytes /\ d.produced = c.produced
           /\ \E rs \in Word(Sized) :
                /\ qs = Cat(Pushed(c), rs) /\ d.pushed = Cat(c.pushed, Pushed(c))
                /\ \/ /\ d.end = "open" /\ d.toClient = c.toClient
                      /\ Cat(d.toNetwork, t) = Stream(rs) /\ Partial(d.toNetwork, rs)
                   \/ /\ d.end = "malformed" /\ d.toClient = << >> /\ d.toNetwork = << >>
                      /\ rs # << >> /\ rs[1].kind = "bad"
<1> DEFINE ps == Pushed(c)
           rest == Drop(c.toNetwork, Size(ps))
           d == [c EXCEPT !.toNetwork = rest, !.pushed = @ \o ps]
           fs == Frames(rest, RelayHeader)
           Shut == Misframed(rest) \/ (fs # << >> /\ rest[1][1].kind = "bad")
<1>1. PushToNetwork(c) = IF Shut THEN Close(d, "malformed") ELSE d
  BY DEF PushToNetwork
<1>2. ps \in Word(Sized)
  BY PushedFacts
<1>3. PICK rs \in Word(Sized), r \in Word(Octets) :
        /\ qs = Cat(ps, rs) /\ c.toNetwork = Cat(Stream(ps), r)
        /\ Cat(r, t) = Stream(rs) /\ Stops(r, rs)
  BY PushedFacts
<1> HIDE DEF ps
<1>4. rest = r
  <2>1. Stream(ps) \in Word(Octets)
    BY <1>2, SizedFacts, StreamFacts
  <2>2. Drop(Cat(Stream(ps), r), Len(Stream(ps))) = r
    BY <2>1, Cancel
  <2> QED
    BY <1>3, <2>2 DEF Size
<1> HIDE DEF rest
<1>5. /\ d \in Clients /\ d.idBytes = c.idBytes /\ d.produced = c.produced
      /\ d.pushed = Cat(c.pushed, ps) /\ d.end = "open" /\ d.toClient = c.toClient
      /\ d.toNetwork = r
  <2>1. c.pushed \in Word(Sized) /\ c.pushed \o ps = Cat(c.pushed, ps)
    BY DEF Clients, Cat
  <2>2. Cat(c.pushed, ps) \in Word(Sized)
    BY <1>2, <2>1, CatFacts
  <2> QED
    BY <1>4, <2>1, <2>2 DEF Clients
<1> HIDE DEF d
<1>6. r # << >> => rs # << >> /\ r[1] = << rs[1], 1 >> /\ ~Misframed(r)
  BY <1>3, FrontFacts
<1>7. CASE Shut
  <2>1. Close(d, "malformed") \in Clients
        /\ Close(d, "malformed").end = "malformed"
        /\ Close(d, "malformed").idBytes = d.idBytes
        /\ Close(d, "malformed").pushed = d.pushed
        /\ Close(d, "malformed").produced = d.produced
        /\ Close(d, "malformed").toNetwork = << >> /\ Close(d, "malformed").toClient = << >>
    <3>1. "malformed" \in Causes
      BY DEF Causes
    <3> QED
      BY <1>5, <3>1, CloseFacts
  <2>2. r # << >>
    <3>1. ASSUME r = << >>
          PROVE  FALSE
      <4>1. ~Misframed(r)
        BY <3>1 DEF Misframed
      <4>2. fs # << >>
        BY <1>4, <1>7, <4>1
      <4>3. Cat(r, t) = Stream(rs) /\ RelayHeader \in Nat \ {0}
            /\ \A n \in Lengths : RelayHeader <= n
        BY <1>3, LengthsAssumption
      <4>4. fs \in Word(Packets) /\ Taken(fs, r, rs, t)
        BY <1>4, <4>3, FramesOfStream
      <4> HIDE DEF fs
      <4>5. PICK x \in Word(Sized), y \in Word(Octets) : rs = Cat(fs, x) /\ r = Cat(Stream(fs), y)
        BY <4>4 DEF Taken
      <4>6. Stream(fs) \in Word(Octets)
        BY <4>4, StreamFacts
      <4>7. Len(r) = Len(Stream(fs)) + Len(y) /\ Len(y) \in Nat /\ Len(Stream(fs)) \in Nat
        BY <4>5, <4>6, CatFacts, WordFacts
      <4>8. Len(Stream(fs)) = 0 /\ fs \in Word(Sized)
        BY <3>1, <4>4, <4>5, <4>7, SplitFacts, SizedFacts, WordFacts
      <4>9. Cat(Stream(fs), << >>) = Stream(fs) /\ << >> \in Word(Octets)
        BY <4>6, WordFacts
      <4>10. /\ fs[1] \in Packets /\ Drop(fs, 1) \in Word(Packets)
             /\ Stream(fs) = Cat(Bytes(fs[1]), Stream(Drop(fs, 1)))
        BY <4>2, <4>8, StreamFirst, SizedFacts
      <4>11. /\ Bytes(fs[1]) \in Word(Octets) /\ Len(Bytes(fs[1])) \in Nat
             /\ Len(Bytes(fs[1])) > 0 /\ Stream(Drop(fs, 1)) \in Word(Octets)
        BY <4>10, BytesFacts, StreamFacts
      <4>12. Len(Stream(fs)) = Len(Bytes(fs[1])) + Len(Stream(Drop(fs, 1)))
             /\ Len(Stream(Drop(fs, 1))) \in Nat
        BY <4>10, <4>11, CatFacts, WordFacts
      <4> QED
        BY <4>8, <4>11, <4>12
    <3> QED
      BY <3>1
  <2>3. rs # << >> /\ r[1] = << rs[1], 1 >> /\ rs[1].kind = "bad"
    <3>1. rs # << >> /\ r[1] = << rs[1], 1 >> /\ ~Misframed(r)
      BY <1>6, <2>2
    <3>2. r[1][1].kind = "bad"
      BY <1>4, <1>7, <3>1
    <3> QED
      BY <3>1, <3>2
  <2> QED
    BY <1>1, <1>3, <1>5, <1>7, <2>1, <2>3 DEF ps
<1>8. CASE ~Shut
  <2>1. Partial(r, rs)
    <3>1. CASE rs # << >> /\ rs[1].kind = "bad" /\ rs[1].length <= Len(r)
      <4>1. rs[1] \in Packets /\ rs[1].length \in Nat /\ rs[1].length > 0 /\ Len(r) \in Nat
        BY <3>1, StreamFirst, SizedFacts, BytesFacts, WordFacts
      <4>2. r # << >> /\ r[1] = << rs[1], 1 >>
        BY <1>6, <3>1, <4>1, WordFacts
      <4>3. fs = << >>
        BY <1>4, <1>8, <3>1, <4>2
      <4>4. Cat(r, t) = Stream(rs) /\ RelayHeader \in Nat \ {0}
            /\ \A n \in Lengths : RelayHeader <= n
        BY <1>3, LengthsAssumption
      <4>5. Taken(fs, r, rs, t)
        BY <1>4, <4>4, FramesOfStream
      <4> HIDE DEF fs
      <4>6. PICK x \in Word(Sized), y \in Word(Octets) :
              rs = Cat(<< >>, x) /\ r = Cat(Stream(<< >>), y) /\ Partial(y, x)
        BY <4>3, <4>5 DEF Taken
      <4>7. rs = x /\ r = y
        BY <4>6, StreamFacts, WordFacts
      <4> QED
        BY <4>6, <4>7
    <3> QED
      BY <1>3, <3>1 DEF Stops
  <2> QED
    BY <1>1, <1>3, <1>5, <1>8, <2>1 DEF ps
<1> QED
  BY <1>7, <1>8

\* process_receive takes bytes of the socket, or closes at the end of the stream.
LEMMA ProcessReceiveFacts ==
    ASSUME NEW c \in Clients, NEW bytes \in Word(Octets), NEW u \in Word(Octets),
           NEW qs \in Word(Sized), c.end = "open",
           Cat(Cat(c.toNetwork, bytes), u) = Stream(qs)
    PROVE  LET d == ProcessReceive(c, bytes) IN
           /\ d \in Clients /\ d.idBytes = c.idBytes /\ d.produced = c.produced
           /\ d.end = "open" => d.toClient = c.toClient
           /\ d.end # "open" => d.toClient = << >> /\ d.toNetwork = << >>
           /\ d.end = "eof" => bytes = << >>
           /\ d.end = "malformed" => \E i \in DOMAIN qs : qs[i].kind = "bad"
           /\ \E front, rs \in Word(Sized) :
                /\ qs = Cat(front, rs) /\ d.pushed = Cat(c.pushed, front)
                /\ d.end = "open" => /\ Cat(d.toNetwork, u) = Stream(rs)
                                     /\ Partial(d.toNetwork, rs)
<1>1. c.toNetwork \in Word(Octets) /\ c.pushed \in Word(Sized) /\ << >> \in Word(Sized)
  BY WordFacts DEF Clients
<1>2. CASE bytes = << >>
  <2>1. "eof" \in Causes
    BY DEF Causes
  <2>2. qs = Cat(<< >>, qs) /\ c.pushed = Cat(c.pushed, << >>)
    BY <1>1, WordFacts
  <2>3. ProcessReceive(c, bytes) = Close(c, "eof")
    BY <1>2 DEF ProcessReceive
  <2>4. /\ Close(c, "eof") \in Clients /\ Close(c, "eof").end = "eof"
        /\ Close(c, "eof").idBytes = c.idBytes /\ Close(c, "eof").pushed = c.pushed
        /\ Close(c, "eof").produced = c.produced
        /\ Close(c, "eof").toNetwork = << >> /\ Close(c, "eof").toClient = << >>
    BY <2>1, CloseFacts
  <2> QED
    BY <1>1, <1>2, <2>2, <2>3, <2>4
<1>3. CASE bytes # << >>
  <2> DEFINE x == Cat(c.toNetwork, bytes)
             b == [c EXCEPT !.toNetwork = x]
             d == PushToNetwork(b)
  <2>1. ProcessReceive(c, bytes) = d
    BY <1>3 DEF ProcessReceive, Cat
  <2>2. x \in Word(Octets)
    BY <1>1, CatFacts
  <2> HIDE DEF x
  <2>3. /\ b \in Clients /\ b.toNetwork = x /\ b.end = "open" /\ b.idBytes = c.idBytes
        /\ b.produced = c.produced /\ b.pushed = c.pushed /\ b.toClient = c.toClient
    BY <2>2 DEF Clients
  <2> HIDE DEF b
  <2>4. Cat(b.toNetwork, u) = Stream(qs)
    BY <2>3 DEF x
  <2>5. Pushed(b) \in Word(Sized)
    BY <2>3, <2>4, PushedFacts
  <2>6. d \in Clients /\ d.idBytes = b.idBytes /\ d.produced = b.produced
    BY <2>3, <2>4, PushToNetworkFacts
  <2>7. PICK rs \in Word(Sized) :
          /\ qs = Cat(Pushed(b), rs) /\ d.pushed = Cat(b.pushed, Pushed(b))
          /\ \/ /\ d.end = "open" /\ d.toClient = b.toClient
                /\ Cat(d.toNetwork, u) = Stream(rs) /\ Partial(d.toNetwork, rs)
             \/ /\ d.end = "malformed" /\ d.toClient = << >> /\ d.toNetwork = << >>
                /\ rs # << >> /\ rs[1].kind = "bad"
    BY <2>3, <2>4, PushToNetworkFacts
  <2> HIDE DEF d
  <2>8. ASSUME rs # << >>, rs[1].kind = "bad"
        PROVE  \E i \in DOMAIN qs : qs[i].kind = "bad"
    <3>1. Len(rs) \in Nat /\ Len(rs) > 0
      BY <2>8, FirstFacts
    <3>2. /\ Len(Pushed(b)) \in Nat /\ Len(qs) = Len(Pushed(b)) + Len(rs)
          /\ DOMAIN qs = 1 .. Len(qs)
      BY <2>5, <2>7, CatFacts, WordFacts
    <3>3. 1 \in 1 .. Len(rs) /\ Len(Pushed(b)) + 1 \in DOMAIN qs
      BY <3>1, <3>2
    <3>4. qs[Len(Pushed(b)) + 1] = rs[1]
      BY <2>5, <2>7, <3>3, CatElements
    <3> QED
      BY <2>8, <3>3, <3>4
  <2>9. /\ d.end = "open" => d.toClient = c.toClient
        /\ d.end # "open" => d.toClient = << >> /\ d.toNetwork = << >>
        /\ d.end = "eof" => bytes = << >>
        /\ d.end = "malformed" => \E i \in DOMAIN qs : qs[i].kind = "bad"
    BY <2>3, <2>7, <2>8
  <2>10. \E front, rr \in Word(Sized) :
           /\ qs = Cat(front, rr) /\ d.pushed = Cat(c.pushed, front)
           /\ d.end = "open" => Cat(d.toNetwork, u) = Stream(rr) /\ Partial(d.toNetwork, rr)
    <3>1. /\ qs = Cat(Pushed(b), rs) /\ d.pushed = Cat(c.pushed, Pushed(b))
          /\ d.end = "open" => Cat(d.toNetwork, u) = Stream(rs) /\ Partial(d.toNetwork, rs)
      BY <2>3, <2>7
    <3> QED
      BY <2>5, <3>1
  <2> QED
    BY <2>1, <2>3, <2>6, <2>9, <2>10
<1> QED
  BY <1>2, <1>3

-------------------------------------------------------------------------------
(* The worker of the phone. *)

\* The locals of Connect and Run.
Tunnels == [phase : {"connecting", "running", "ended"}, mode : Modes,
            outbound : Word(Octets), sendOffset : Nat, incoming : Word(Octets),
            packets : Word(Held), queuedBytes : Nat, error : Errors,
            sent : Word(Sized), written : Word(Held)]

\* A worker whose cursor and counter agree with its buffers.
Sound(t) == /\ t \in Tunnels /\ t.sendOffset \in 0 .. Len(t.outbound)
            /\ t.queuedBytes = Size(t.packets)

\* Nothing of the side towards the TUN device changes.
SameInbound(t, d) == /\ d.phase = t.phase /\ d.mode = t.mode /\ d.error = t.error
                     /\ d.incoming = t.incoming /\ d.packets = t.packets
                     /\ d.queuedBytes = t.queuedBytes /\ d.written = t.written

\* Nothing of the side towards the relay changes.
SameOutbound(t, d) == /\ d.phase = t.phase /\ d.mode = t.mode
                      /\ d.outbound = t.outbound /\ d.sendOffset = t.sendOffset
                      /\ d.sent = t.sent

\* What the tunnel has yet to send is the buffer behind its cursor.
LEMMA UnsentFacts ==
    ASSUME NEW t, Sound(t)
    PROVE  /\ Unsent(t) \in Word(Octets)
           /\ Len(Unsent(t)) = Len(t.outbound) - t.sendOffset
           /\ Len(t.outbound) \in Nat /\ t.sendOffset \in Nat
<1>1. t.outbound \in Word(Octets) /\ t.sendOffset \in 0 .. Len(t.outbound)
  BY DEF Sound, Tunnels
<1>2. Len(t.outbound) \in Nat /\ t.sendOffset \in Nat
  BY <1>1, WordFacts
<1>3. /\ Drop(t.outbound, t.sendOffset) \in Word(Octets)
      /\ Len(Drop(t.outbound, t.sendOffset)) = Len(t.outbound) - t.sendOffset
  BY <1>1, CutFacts
<1> QED
  BY <1>2, <1>3 DEF Unsent

\* The size of a queue is the sum of its packets' lengths.
LEMMA SizeFacts ==
    ASSUME NEW ps \in Word(Packets)
    PROVE  /\ Size(ps) \in Nat
           /\ \A qs \in Word(Packets) : Size(Cat(ps, qs)) = Size(ps) + Size(qs)
           /\ \A p \in Packets : /\ Size(<< p >>) = p.length
                                 /\ Size(Cat(ps, << p >>)) = Size(ps) + p.length
<1>1. Stream(ps) \in Word(Octets)
  BY StreamFacts
<1>2. Size(ps) \in Nat
  BY <1>1, WordFacts DEF Size
<1>3. ASSUME NEW qs \in Word(Packets)
      PROVE  Size(Cat(ps, qs)) = Size(ps) + Size(qs)
  <2>1. Stream(qs) \in Word(Octets) /\ Stream(Cat(ps, qs)) = Cat(Stream(ps), Stream(qs))
    BY StreamFacts
  <2> QED
    BY <1>1, <2>1, CatFacts DEF Size
<1>4. ASSUME NEW p \in Packets
      PROVE  /\ Size(<< p >>) = p.length
             /\ Size(Cat(ps, << p >>)) = Size(ps) + p.length
  <2>1. << p >> \in Word(Packets)
    BY AppendFacts
  <2>2. Size(<< p >>) = p.length
    BY BytesFacts, StreamFacts DEF Size
  <2> QED
    BY <1>3, <2>1, <2>2
<1> QED
  BY <1>2, <1>3, <1>4

\* A packet of the device is queued for the relay behind what is unsent, or
\* answered, or dropped.
LEMMA TunReadFacts ==
    ASSUME NEW t, Sound(t), NEW p \in Sized
    PROVE  LET d == TunRead(t, p) IN
           /\ Sound(d) /\ d.phase = t.phase /\ d.incoming = t.incoming /\ d.error = t.error
           /\ d.written = t.written
           /\ \/ /\ d.packets = t.packets
                 /\ d.sent = t.sent /\ d.outbound = t.outbound /\ Unsent(d) = Unsent(t)
              \/ /\ t.queuedBytes + MaxPacket < MaxQueue
                 /\ \E r \in Held : /\ r.kind # "flow" /\ r.length = ReplyLength
                                    /\ d.packets = Cat(t.packets, << r >>)
                 /\ d.sent = t.sent /\ d.outbound = t.outbound /\ Unsent(d) = Unsent(t)
              \/ /\ d.packets = t.packets
                 /\ d.sent = Cat(t.sent, << p >>)
                 /\ d.outbound = Cat(Unsent(t), Bytes(p)) /\ Unsent(d) = d.outbound
<1>1. p \in Packets
  BY SizedFacts
<1>2. CASE ~IsWellFormed(p)
  BY <1>2 DEF TunRead
<1>3. CASE IsWellFormed(p) /\ Refuses(t, p) /\ ~Answers(t)
  BY <1>3 DEF TunRead
<1>4. CASE IsWellFormed(p) /\ Refuses(t, p) /\ Answers(t)
  <2> DEFINE r == Reply(p)
             d == Enqueue(t, r)
  <2>1. TunRead(t, p) = d
    BY <1>4 DEF TunRead
  <2>2. r \in Packets /\ r.kind = "reply" /\ r.length = ReplyLength
    BY <1>1, LengthsAssumption DEF Reply, Packets, AnyKind
  <2>3. r \in Held
    BY <2>2 DEF Held
  <2> HIDE DEF r
  <2>4. t \in Tunnels /\ t.packets \in Word(Held) /\ t.queuedBytes = Size(t.packets)
    BY DEF Sound, Tunnels
  <2>5. << r >> \in Word(Held) /\ Append(t.packets, r) = Cat(t.packets, << r >>)
        /\ t.packets \in Word(Packets)
    BY <2>3, <2>4, AppendFacts, FlowFacts
  <2>6. Cat(t.packets, << r >>) \in Word(Held)
    BY <2>4, <2>5, CatFacts
  <2>7. Size(Cat(t.packets, << r >>)) = t.queuedBytes + r.length
        /\ t.queuedBytes + r.length \in Nat
    BY <2>2, <2>4, <2>5, LengthsAssumption, SizeFacts
  <2>8. /\ d \in Tunnels /\ d.packets = Cat(t.packets, << r >>)
        /\ d.queuedBytes = t.queuedBytes + r.length
        /\ d.outbound = t.outbound /\ d.sendOffset = t.sendOffset /\ d.sent = t.sent
        /\ d.phase = t.phase /\ d.incoming = t.incoming /\ d.error = t.error
        /\ d.written = t.written
    BY <2>4, <2>5, <2>6, <2>7 DEF Enqueue, Tunnels
  <2> HIDE DEF d
  <2>9. Sound(d) /\ Unsent(d) = Unsent(t)
    BY <2>7, <2>8 DEF Sound, Unsent
  <2>10. t.queuedBytes + MaxPacket < MaxQueue
    BY <1>4 DEF Answers
  <2> QED
    BY <2>1, <2>2, <2>3, <2>8, <2>9, <2>10
<1>5. CASE IsWellFormed(p) /\ ~Refuses(t, p)
  <2> DEFINE o == Cat(Unsent(t), Bytes(p))
             s == Cat(t.sent, << p >>)
             d == [t EXCEPT !.outbound = o, !.sendOffset = 0, !.sent = s]
  <2>1. t \in Tunnels /\ t.sent \in Word(Sized) /\ t.queuedBytes = Size(t.packets)
    BY DEF Sound, Tunnels
  <2>2. << p >> \in Word(Sized) /\ Append(t.sent, p) = s
    BY <2>1, AppendFacts
  <2>3. TunRead(t, p) = d
    BY <1>5, <2>2 DEF TunRead, Cat
  <2>4. Bytes(p) \in Word(Octets) /\ Unsent(t) \in Word(Octets)
    BY <1>1, BytesFacts, UnsentFacts
  <2>5. o \in Word(Octets) /\ s \in Word(Sized)
    BY <2>1, <2>2, <2>4, CatFacts
  <2> HIDE DEF o, s
  <2>6. /\ d \in Tunnels /\ d.packets = t.packets /\ d.queuedBytes = t.queuedBytes
        /\ d.outbound = o /\ d.sendOffset = 0 /\ d.sent = s
        /\ d.phase = t.phase /\ d.incoming = t.incoming /\ d.error = t.error
        /\ d.written = t.written
    BY <2>1, <2>5 DEF Tunnels
  <2> HIDE DEF d
  <2>7. Len(o) \in Nat /\ 0 \in 0 .. Len(o) /\ Drop(o, 0) = o
    <3>1. Len(o) \in Nat
      BY <2>5, WordFacts
    <3>2. Drop(o, 0) = SubSeq(o, 1, Len(o))
      BY DEF Drop
    <3> QED
      BY <2>5, <3>1, <3>2, SubSeqFull DEF Word
  <2>8. Sound(d) /\ Unsent(d) = d.outbound
    BY <2>1, <2>6, <2>7 DEF Sound, Unsent
  <2> QED
    BY <2>3, <2>6, <2>8 DEF o, s
<1> QED
  BY <1>2, <1>3, <1>4, <1>5

\* send() takes the front of what is unsent, and compaction keeps the rest.
LEMMA SendFacts ==
    ASSUME NEW t, Sound(t), NEW n \in 0 .. Len(Unsent(t))
    PROVE  LET d == Send(t, n) IN
           /\ Sound(d) /\ SameInbound(t, d) /\ d.sent = t.sent
           /\ Len(d.outbound) <= Len(t.outbound)
           /\ Take(Unsent(t), n) \in Word(Octets) /\ Len(Take(Unsent(t), n)) = n
           /\ Cat(Take(Unsent(t), n), Unsent(d)) = Unsent(t)
<1> DEFINE U == Unsent(t)
<1>1. /\ t \in Tunnels /\ t.outbound \in Word(Octets) /\ U \in Word(Octets)
      /\ Len(U) = Len(t.outbound) - t.sendOffset
      /\ Len(t.outbound) \in Nat /\ t.sendOffset \in 0 .. Len(t.outbound)
      /\ U = Drop(t.outbound, t.sendOffset) /\ t.queuedBytes = Size(t.packets)
  BY UnsentFacts DEF Sound, Tunnels, Unsent
<1>0. n \in 0 .. Len(U)
  OBVIOUS
<1> HIDE DEF U
<1>2. /\ n \in 0 .. Len(U) /\ n \in Nat
      /\ Take(U, n) \in Word(Octets) /\ Drop(U, n) \in Word(Octets) /\ Len(Take(U, n)) = n
      /\ Len(Drop(U, n)) = Len(U) - n /\ Cat(Take(U, n), Drop(U, n)) = U
  <2>1. U \in Word(Octets)
    BY <1>1
  <2> QED
    BY <1>0, <2>1, CutFacts
<1>3. CASE t.sendOffset + n = Len(t.outbound)
  <2> DEFINE d == [t EXCEPT !.outbound = << >>, !.sendOffset = 0]
  <2>1. Send(t, n) = d
    BY <1>3 DEF Send
  <2>2. << >> \in Word(Octets) /\ Len(<< >>) = 0
    BY WordFacts
  <2>3. d \in Tunnels /\ SameInbound(t, d) /\ d.sent = t.sent /\ d.outbound = << >>
        /\ d.sendOffset = 0 /\ d.queuedBytes = Size(d.packets)
    BY <1>1, <2>2 DEF Tunnels, SameInbound
  <2> HIDE DEF d
  <2>4. Drop(U, n) = << >> /\ Drop(<< >>, 0) = << >>
    <3>1. Len(Drop(U, n)) = 0
      BY <1>1, <1>2, <1>3
    <3>2. Len(Drop(<< >>, 0)) = 0 /\ Drop(<< >>, 0) \in Word(Octets)
      BY <2>2, CutFacts
    <3> QED
      BY <1>2, <3>1, <3>2, WordFacts
  <2>5. Sound(d) /\ Unsent(d) = Drop(U, n)
    BY <2>2, <2>3, <2>4 DEF Sound, Unsent
  <2> QED
    BY <1>1, <1>2, <2>1, <2>2, <2>3, <2>5 DEF U
<1>4. CASE t.sendOffset + n # Len(t.outbound)
  <2> DEFINE d == [t EXCEPT !.sendOffset = @ + n]
  <2>1. Send(t, n) = d
    BY <1>4 DEF Send
  <2>2. t.sendOffset + n \in 0 .. Len(t.outbound) /\ t.sendOffset + n \in Nat
    BY <1>1, <1>2
  <2>3. d \in Tunnels /\ SameInbound(t, d) /\ d.sent = t.sent /\ d.outbound = t.outbound
        /\ d.sendOffset = t.sendOffset + n /\ d.queuedBytes = Size(d.packets)
    BY <1>1, <2>2 DEF Tunnels, SameInbound
  <2> HIDE DEF d
  <2>4. Drop(t.outbound, t.sendOffset + n) = Drop(U, n)
    <3>1. Drop(t.outbound, t.sendOffset) = Cat(Take(U, n), Drop(U, n))
      BY <1>1, <1>2
    <3>2. /\ t.outbound \in Word(Octets) /\ t.sendOffset \in 0 .. Len(t.outbound)
          /\ Take(U, n) \in Word(Octets) /\ Drop(U, n) \in Word(Octets) /\ Len(Take(U, n)) = n
      BY <1>1, <1>2
    <3>3. PICK h, w \in Word(Octets) : h = Take(U, n) /\ w = Drop(U, n)
      BY <3>2
    <3>4. Drop(t.outbound, t.sendOffset) = Cat(h, w)
      BY <3>1, <3>3
    <3>5. Drop(t.outbound, t.sendOffset + Len(h)) = w
      BY <3>2, <3>4, DropDrop
    <3> QED
      BY <3>2, <3>3, <3>5
  <2>5. Sound(d) /\ Unsent(d) = Drop(U, n)
    BY <2>2, <2>3, <2>4 DEF Sound, Unsent
  <2> QED
    BY <1>1, <1>2, <2>1, <2>3, <2>5 DEF U
<1> QED
  BY <1>3, <1>4

\* The tunnel queues the whole packets at the front of what it has read, and
\* keeps the beginning of one: it never meets a byte that begins none.
LEMMA ReceiveFacts ==
    ASSUME NEW t, Sound(t), NEW bytes \in Word(Octets), NEW u \in Word(Octets),
           NEW later \in Word(Flow), Cat(Cat(t.incoming, bytes), u) = Stream(later)
    PROVE  LET d == Receive(t, bytes) IN
           /\ Sound(d) /\ SameOutbound(t, d) /\ d.written = t.written /\ d.error = t.error
           /\ d.queuedBytes + Len(d.incoming) = t.queuedBytes + Len(t.incoming) + Len(bytes)
           /\ \E front, rs \in Word(Flow) :
                /\ later = Cat(front, rs) /\ d.packets = Cat(t.packets, front)
                /\ Cat(d.incoming, u) = Stream(rs) /\ Partial(d.incoming, rs)
<1> DEFINE x == Cat(t.incoming, bytes)
           ps == Frames(x, TunHeader)
           rest == Drop(x, Size(ps))
           d == [t EXCEPT !.incoming = rest, !.packets = @ \o ps,
                          !.queuedBytes = @ + Size(ps),
                          !.error = IF Misframed(rest) THEN "proto" ELSE @]
<1>1. Receive(t, bytes) = d
  BY DEF Receive, Cat
<1>2. /\ t \in Tunnels /\ t.incoming \in Word(Octets) /\ t.packets \in Word(Held)
      /\ t.queuedBytes = Size(t.packets) /\ TunHeader \in Nat \ {0}
      /\ \A n \in Lengths : TunHeader <= n
  BY LengthsAssumption DEF Sound, Tunnels
<1>3. /\ x \in Word(Octets) /\ Len(x) = Len(t.incoming) + Len(bytes)
      /\ Len(t.incoming) \in Nat /\ Len(bytes) \in Nat /\ later \in Word(Sized)
  <2>1. t.incoming \in Word(Octets)
    BY <1>2
  <2>2. x \in Word(Octets) /\ Len(x) = Len(t.incoming) + Len(bytes)
    BY <2>1, CatFacts
  <2>3. Len(t.incoming) \in Nat /\ Len(bytes) \in Nat
    BY <2>1, WordFacts
  <2>4. later \in Word(Sized)
    BY FlowFacts
  <2> QED
    BY <2>2, <2>3, <2>4
<1> HIDE DEF x
<1>4. Cat(x, u) = Stream(later)
  BY DEF x
<1>5. ps \in Word(Packets) /\ Taken(ps, x, later, u)
  BY <1>2, <1>3, <1>4, FramesOfStream
<1> HIDE DEF ps
<1>6. PICK rs \in Word(Sized), r \in Word(Octets) :
        /\ later = Cat(ps, rs) /\ x = Cat(Stream(ps), r) /\ Cat(r, u) = Stream(rs)
        /\ Partial(r, rs)
  BY <1>5 DEF Taken
<1>7. /\ ps \in Word(Flow) /\ rs \in Word(Flow) /\ ps \in Word(Held) /\ t.packets \in Word(Packets)
      /\ Stream(ps) \in Word(Octets)
  <2>1. rs \in Word(Packets)
    BY SizedFacts
  <2>2. ps \in Word(Flow) /\ rs \in Word(Flow)
    BY <1>5, <1>6, <2>1, SplitFacts
  <2>3. ps \in Word(Held) /\ t.packets \in Word(Packets)
    BY <1>2, <2>2, FlowFacts
  <2> QED
    BY <1>5, <2>2, <2>3, StreamFacts
<1>8. rest = r
  <2>1. Drop(Cat(Stream(ps), r), Len(Stream(ps))) = r
    BY <1>7, Cancel
  <2> QED
    BY <1>6, <2>1 DEF Size
<1> HIDE DEF rest
<1>9. ~Misframed(r)
  BY <1>6, FrontFacts DEF Misframed
<1>10. t.packets \o ps = Cat(t.packets, ps) /\ Cat(t.packets, ps) \in Word(Held)
  BY <1>2, <1>7, CatFacts DEF Cat
<1>11. /\ Size(Cat(t.packets, ps)) = t.queuedBytes + Size(ps)
       /\ Size(ps) \in Nat /\ t.queuedBytes \in Nat
  BY <1>2, <1>5, <1>7, SizeFacts
<1>12. /\ d \in Tunnels /\ SameOutbound(t, d) /\ d.written = t.written /\ d.error = t.error
       /\ d.incoming = r /\ d.packets = Cat(t.packets, ps)
       /\ d.queuedBytes = t.queuedBytes + Size(ps)
  <2>1. d = [t EXCEPT !.incoming = r, !.packets = Cat(t.packets, ps),
                      !.queuedBytes = t.queuedBytes + Size(ps), !.error = t.error]
    BY <1>8, <1>9, <1>10
  <2>2. t.queuedBytes + Size(ps) \in Nat
    BY <1>11
  <2> HIDE DEF d
  <2> QED
    BY <1>2, <1>10, <2>1, <2>2 DEF Tunnels, SameOutbound
<1> HIDE DEF d
<1>13. Sound(d)
  BY <1>11, <1>12 DEF Sound, SameOutbound
<1>14. Len(x) = Size(ps) + Len(r) /\ Len(r) \in Nat
  BY <1>6, <1>7, CatFacts, WordFacts DEF Size
<1>15. d.queuedBytes + Len(d.incoming) = t.queuedBytes + Len(t.incoming) + Len(bytes)
  BY <1>3, <1>11, <1>12, <1>14
<1> QED
  BY <1>1, <1>6, <1>7, <1>12, <1>13, <1>15

\* The front packet moves to the device.
LEMMA TunWriteFacts ==
    ASSUME NEW t, Sound(t), t.packets # << >>
    PROVE  LET d == TunWrite(t) IN
           /\ Sound(d) /\ SameOutbound(t, d) /\ d.error = t.error /\ d.incoming = t.incoming
           /\ d.queuedBytes <= t.queuedBytes
           /\ Cat(d.written, d.packets) = Cat(t.written, t.packets)
<1> DEFINE p == t.packets[1]
           ps == Drop(t.packets, 1)
           w == Cat(t.written, << p >>)
           d == [t EXCEPT !.packets = ps, !.queuedBytes = @ - p.length, !.written = w]
<1>1. /\ t \in Tunnels /\ t.packets \in Word(Held) /\ t.written \in Word(Held)
      /\ t.queuedBytes = Size(t.packets)
  BY DEF Sound, Tunnels
<1>2. p \in Held /\ ps \in Word(Held) /\ t.packets = Cat(<< p >>, ps)
  BY <1>1, FirstFacts
<1>3. Head(t.packets) = p /\ Tail(t.packets) = ps
  BY <1>1, HeadTailProperties, TailIsSubSeq DEF Word, Drop
<1> HIDE DEF p, ps
<1>4. /\ p \in Packets /\ p.length \in Nat /\ ps \in Word(Packets)
      /\ << p >> \in Word(Packets) /\ << p >> \in Word(Held)
      /\ Append(t.written, p) = w /\ w \in Word(Held)
  <2>1. p \in Packets /\ ps \in Word(Packets) /\ << p >> \in Word(Held)
    BY <1>2, FlowFacts, AppendFacts
  <2>2. << p >> \in Word(Packets) /\ p.length \in Nat
    BY <2>1, AppendFacts, BytesFacts
  <2>3. Append(t.written, p) = w /\ w \in Word(Held)
    BY <1>1, <1>2, <2>1, AppendFacts, CatFacts
  <2> QED
    BY <2>1, <2>2, <2>3
<1>5. TunWrite(t) = d
  BY <1>3, <1>4 DEF TunWrite
<1>6. t.queuedBytes = p.length + Size(ps) /\ Size(ps) \in Nat
  <2>1. Size(Cat(<< p >>, ps)) = Size(<< p >>) + Size(ps)
    BY <1>4, SizeFacts
  <2>2. Size(<< p >>) = p.length /\ Size(ps) \in Nat
    BY <1>4, SizeFacts
  <2> QED
    BY <1>1, <1>2, <2>1, <2>2
<1>7. Cat(w, ps) = Cat(t.written, t.packets)
  BY <1>1, <1>2, <1>4, CatAssociative
<1>8. w \in Word(Held)
  BY <1>4
<1> HIDE DEF w
<1>9. t.queuedBytes - p.length = Size(ps) /\ t.queuedBytes - p.length <= t.queuedBytes
  BY <1>4, <1>6
<1>10. /\ d \in Tunnels /\ SameOutbound(t, d) /\ d.error = t.error /\ d.incoming = t.incoming
       /\ d.queuedBytes = Size(ps) /\ d.packets = ps /\ d.written = w
  BY <1>1, <1>2, <1>6, <1>8, <1>9 DEF Tunnels, SameOutbound
<1> HIDE DEF d
<1>11. Sound(d)
  BY <1>10 DEF Sound, SameOutbound
<1> QED
  BY <1>5, <1>7, <1>9, <1>10, <1>11

\* A worker that ends holds nothing any more.
LEMMA EndsFacts ==
    ASSUME NEW t, Sound(t), NEW code \in Errors
    PROVE  LET d == Ends(t, code) IN
           /\ Sound(d) /\ d.phase = "ended" /\ d.error = code /\ d.sent = t.sent
           /\ d.written = t.written /\ d.outbound = << >> /\ d.incoming = << >>
           /\ d.packets = << >> /\ d.queuedBytes = 0
<1>1. /\ << >> \in Word(Octets) /\ << >> \in Word(Held) /\ Len(<< >>) = 0
      /\ Size(<< >>) = 0
  BY WordFacts, StreamFacts DEF Size
<1> DEFINE d == Ends(t, code)
<1>2. /\ d \in Tunnels /\ d.sendOffset = 0 /\ d.phase = "ended" /\ d.error = code
      /\ d.sent = t.sent /\ d.written = t.written /\ d.outbound = << >>
      /\ d.incoming = << >> /\ d.packets = << >> /\ d.queuedBytes = 0
  BY <1>1 DEF Ends, Sound, Tunnels
<1> HIDE DEF d
<1>3. Sound(d)
  BY <1>1, <1>2 DEF Sound
<1> QED
  BY <1>2, <1>3 DEF d

-------------------------------------------------------------------------------
(* The inductive invariant. *)

\* The bytes of the id that the tunnel expects before the first packet.
Ahead(t) == IF t.phase = "connecting" THEN Bytes(Id) ELSE << >>

\* Every byte in a buffer is a byte of a packet, and buffers keep to their capacities.
Typed ==
    /\ Sound(tunnel)
    /\ client \in Clients /\ Len(client.toClient) <= RingCapacity
    /\ up \in Word(Octets) /\ Len(up) <= SocketCapacity
    /\ down \in Word(Octets) /\ Len(down) <= SocketCapacity
    /\ cut \in BOOLEAN /\ event \in SUBSET {"r", "w"} /\ traffic \in [up : Nat, down : Nat]

\* later is what the relay's router has yet to see of the packets the tunnel sent.
UpRest(later) ==
    /\ tunnel.sent = Cat(client.pushed, later)
    /\ ~Closed => Partial(client.toNetwork, later)
    /\ ~Closed /\ ~cut =>
          \E t \in Word(Octets) : /\ Cat(Cat(client.toNetwork, up), t) = Stream(later)
                                  /\ ~Ended => t = Unsent(tunnel)

\* later is what the tunnel has yet to queue of the packets the relay produced.
DownRest(later) ==
    /\ client.produced = Cat(FromRelay(Cat(tunnel.written, tunnel.packets)), later)
    /\ tunnel.phase = "running" => Partial(tunnel.incoming, later)
    /\ ~Ended /\ ~cut =>
          \E t \in Word(Octets) :
             /\ Cat(Cat(tunnel.incoming, down), t) = Cat(Ahead(tunnel), Stream(later))
             /\ ~Closed => t = Backlog(client)

\* What each reader has yet to see is the front of a stream of packets.
Uplink == \E later \in Word(Sized) : UpRest(later)
Downlink == \E later \in Word(Flow) : DownRest(later)

\* Where the bytes of the id are while the relay still owes some.
Handshake ==
    /\ tunnel.phase = "connecting" => tunnel.packets = << >> /\ Len(tunnel.incoming) < IdLength
    /\ ~cut /\ ~Closed /\ client.idBytes > 0 =>
          /\ tunnel.phase # "running"
          /\ tunnel.phase = "connecting" =>
                Len(tunnel.incoming) + Len(down) + client.idBytes = IdLength

\* What a pending readiness event still says when the handler runs.
Readiness ==
    /\ event \subseteq client.interests
    /\ event # {} => ~Closed
    /\ "r" \in event => up # << >> \/ Gone

\* A closed client holds nothing, and only a worker that ended has an error.
Emptied == /\ Closed => client.toNetwork = << >>
           /\ ~Ended => tunnel.error = "none"

IInv == /\ Typed /\ Uplink /\ Downlink /\ Handshake /\ Readiness /\ Emptied
        /\ QueuesBounded /\ FramingHolds /\ EofIsReal

-------------------------------------------------------------------------------
(* What the steps need. *)

\* What moves from the front of one word to the end of the one before it.
LEMMA Regroup ==
    \A S : \A a, b, c, d \in Word(S) :
        Cat(Cat(a, Cat(b, c)), d) = Cat(Cat(a, b), Cat(c, d))
<1> SUFFICES ASSUME NEW S, NEW a \in Word(S), NEW b \in Word(S), NEW c \in Word(S), NEW d \in Word(S)
             PROVE  Cat(Cat(a, Cat(b, c)), d) = Cat(Cat(a, b), Cat(c, d))
  OBVIOUS
<1>1. Cat(a, b) \in Word(S)
  BY CatFacts
<1>2. Cat(a, Cat(b, c)) = Cat(Cat(a, b), c)
  BY CatAssociative
<1>3. Cat(Cat(Cat(a, b), c), d) = Cat(Cat(a, b), Cat(c, d))
  BY <1>1, CatAssociative
<1> QED
  BY <1>2, <1>3

\* The beginning of a packet is shorter than any packet may be.
LEMMA PartialFacts ==
    ASSUME NEW r \in Word(Octets), NEW qs \in Word(Sized), Partial(r, qs)
    PROVE  /\ Len(r) \in Nat /\ Len(r) < MaxPacket
           /\ \A more \in Word(Sized) : Partial(r, Cat(qs, more))
<1>1. Len(r) \in Nat
  BY WordFacts
<1>2. CASE r = << >>
  BY <1>1, <1>2, BuffersAssumption, WordFacts DEF Partial
<1>3. CASE r # << >>
  <2>1. qs # << >> /\ Len(r) < qs[1].length
    BY <1>3 DEF Partial
  <2>2. qs[1] \in Packets /\ Len(qs) \in Nat /\ Len(qs) > 0
    BY <2>1, StreamFirst, SizedFacts, FirstFacts
  <2>3. qs[1].length \in 1 .. MaxPacket /\ MaxPacket \in Nat
    BY <2>2, BytesFacts, BuffersAssumption
  <2>4. ASSUME NEW more \in Word(Sized)
        PROVE  Partial(r, Cat(qs, more))
    <3>1. 1 \in 1 .. Len(qs)
      BY <2>2
    <3>2. Cat(qs, more)[1] = qs[1]
      BY <3>1, CatElements
    <3>3. Len(Cat(qs, more)) = Len(qs) + Len(more) /\ Len(more) \in Nat
      BY CatFacts, WordFacts
    <3>4. Cat(qs, more) # << >>
      BY <2>2, <3>3, WordFacts
    <3> QED
      BY <2>1, <3>2, <3>4 DEF Partial
  <2> QED
    BY <1>1, <2>1, <2>3, <2>4
<1> QED
  BY <1>2, <1>3

\* A history that has seen a malformed packet has seen it for good.
LEMMA BadFacts ==
    ASSUME NEW s \in Word(Sized), NEW t \in Word(Sized)
    PROVE  /\ (\E i \in DOMAIN s : s[i].kind = "bad") => \E i \in DOMAIN Cat(s, t) : Cat(s, t)[i].kind = "bad"
           /\ (\E i \in DOMAIN t : t[i].kind = "bad") => \E i \in DOMAIN Cat(s, t) : Cat(s, t)[i].kind = "bad"
<1>1. /\ DOMAIN s = 1 .. Len(s) /\ DOMAIN t = 1 .. Len(t) /\ Len(s) \in Nat /\ Len(t) \in Nat
      /\ DOMAIN Cat(s, t) = 1 .. Len(s) + Len(t)
  BY CatFacts, WordFacts
<1>2. ASSUME NEW i \in DOMAIN s, s[i].kind = "bad"
      PROVE  \E j \in DOMAIN Cat(s, t) : Cat(s, t)[j].kind = "bad"
  <2>1. i \in DOMAIN Cat(s, t) /\ i \in 1 .. Len(s)
    BY <1>1
  <2>2. Cat(s, t)[i] = s[i]
    BY <2>1, CatElements
  <2> QED
    BY <1>2, <2>1, <2>2
<1>3. ASSUME NEW i \in DOMAIN t, t[i].kind = "bad"
      PROVE  \E j \in DOMAIN Cat(s, t) : Cat(s, t)[j].kind = "bad"
  <2>1. Len(s) + i \in DOMAIN Cat(s, t) /\ i \in 1 .. Len(t)
    BY <1>1
  <2>2. Cat(s, t)[Len(s) + i] = t[i]
    BY <2>1, CatElements
  <2> QED
    BY <1>3, <2>1, <2>2
<1> QED
  BY <1>2, <1>3

\* The fields of a well-typed state.
LEMMA TypedFacts ==
    ASSUME Typed
    PROVE  /\ tunnel \in Tunnels /\ tunnel.incoming \in Word(Octets)
           /\ tunnel.packets \in Word(Held) /\ tunnel.written \in Word(Held)
           /\ tunnel.outbound \in Word(Octets) /\ tunnel.sent \in Word(Sized)
           /\ tunnel.phase \in {"connecting", "running", "ended"}
           /\ tunnel.error \in Errors
           /\ Unsent(tunnel) \in Word(Octets)
           /\ client \in Clients /\ client.toNetwork \in Word(Octets)
           /\ client.toClient \in Word(Octets) /\ client.pushed \in Word(Sized)
           /\ client.produced \in Word(Flow) /\ client.idBytes \in 0 .. IdLength
           /\ client.interests \in SUBSET {"r", "w"} /\ client.end \in Causes
           /\ Backlog(client) \in Word(Octets)
           /\ Cat(tunnel.written, tunnel.packets) \in Word(Held)
           /\ FromRelay(Cat(tunnel.written, tunnel.packets)) \in Word(Flow)
           /\ Len(tunnel.incoming) \in Nat /\ Len(up) \in Nat /\ Len(down) \in Nat
           /\ Len(client.toClient) \in Nat
<1>1. /\ tunnel \in Tunnels /\ tunnel.incoming \in Word(Octets)
      /\ tunnel.packets \in Word(Held) /\ tunnel.written \in Word(Held)
      /\ tunnel.outbound \in Word(Octets) /\ tunnel.sent \in Word(Sized)
      /\ tunnel.phase \in {"connecting", "running", "ended"}
      /\ tunnel.error \in Errors
  BY DEF Typed, Sound, Tunnels
<1>2. /\ client \in Clients /\ client.toNetwork \in Word(Octets)
      /\ client.toClient \in Word(Octets) /\ client.pushed \in Word(Sized)
      /\ client.produced \in Word(Flow) /\ client.idBytes \in 0 .. IdLength
      /\ client.interests \in SUBSET {"r", "w"} /\ client.end \in Causes
  BY DEF Typed, Clients
<1>3. up \in Word(Octets) /\ down \in Word(Octets) /\ Sound(tunnel)
  BY DEF Typed
<1>4. Unsent(tunnel) \in Word(Octets) /\ Backlog(client) \in Word(Octets)
  BY <1>2, <1>3, UnsentFacts, BacklogFacts
<1>5. /\ Cat(tunnel.written, tunnel.packets) \in Word(Held)
      /\ FromRelay(Cat(tunnel.written, tunnel.packets)) \in Word(Flow)
  <2>1. Cat(tunnel.written, tunnel.packets) \in Word(Held)
    BY <1>1, CatFacts
  <2> QED
    BY <2>1, FromRelayFacts
<1>6. /\ Len(tunnel.incoming) \in Nat /\ Len(up) \in Nat /\ Len(down) \in Nat
      /\ Len(client.toClient) \in Nat
  BY <1>1, <1>2, <1>3, WordFacts
<1> QED
  BY <1>1, <1>2, <1>4, <1>5, <1>6

-------------------------------------------------------------------------------
(* The steps. *)

\* The worker begins with empty buffers, the relay owing it the whole id.
LEMMA InitInv == Init => IInv
<1> SUFFICES ASSUME Init PROVE IInv
  OBVIOUS
<1> USE DEF Init
<1>1. /\ << >> \in Word(Octets) /\ << >> \in Word(Held) /\ << >> \in Word(Flow)
      /\ << >> \in Word(Sized) /\ Len(<< >>) = 0 /\ Stream(<< >>) = << >> /\ Size(<< >>) = 0
      /\ FromRelay(<< >>) = << >> /\ Cat(<< >>, << >>) = << >>
  BY WordFacts, StreamFacts, FromRelayFacts DEF Size
<1>2. /\ tunnel.phase = "connecting" /\ tunnel.mode \in Modes /\ tunnel.outbound = << >>
      /\ tunnel.sendOffset = 0 /\ tunnel.incoming = << >> /\ tunnel.packets = << >>
      /\ tunnel.queuedBytes = 0 /\ tunnel.error = "none" /\ tunnel.sent = << >>
      /\ tunnel.written = << >>
  OBVIOUS
<1>3. tunnel \in Tunnels
  BY <1>1 DEF Tunnels, Errors
<1>4. IdLength \in Nat /\ IdLength > 0 /\ Len(Bytes(Id)) = IdLength /\ Bytes(Id) \in Word(Octets)
  BY IdFacts
<1>5. client \in Clients
  BY <1>1, <1>4 DEF Clients, Causes
<1>6. /\ client.idBytes = IdLength /\ client.toNetwork = << >> /\ client.toClient = << >>
      /\ client.end = "open" /\ client.pushed = << >> /\ client.produced = << >>
      /\ up = << >> /\ down = << >> /\ cut = FALSE /\ event = {} /\ traffic = [up |-> 0, down |-> 0]
  OBVIOUS
<1> HIDE DEF Init
<1>7. Typed
  <2>1. Sound(tunnel)
    BY <1>1, <1>2, <1>3 DEF Sound
  <2>2. Len(client.toClient) <= RingCapacity /\ Len(up) <= SocketCapacity /\ Len(down) <= SocketCapacity
    BY <1>1, <1>6, BuffersAssumption
  <2> QED
    BY <1>1, <1>5, <1>6, <2>1, <2>2 DEF Typed
<1>8. Unsent(tunnel) = << >>
  <2>1. Unsent(tunnel) \in Word(Octets) /\ Len(Unsent(tunnel)) = Len(tunnel.outbound) - tunnel.sendOffset
    BY <1>7, UnsentFacts DEF Typed
  <2> QED
    BY <1>1, <1>2, <2>1, WordFacts
<1>9. Uplink
  <2>1. UpRest(<< >>)
    BY <1>1, <1>2, <1>6, <1>8 DEF UpRest, Partial
  <2> QED
    BY <1>1, <2>1 DEF Uplink
<1>10. Backlog(client) = Bytes(Id)
  <2>1. IdLength - client.idBytes = 0
    BY <1>4, <1>6
  <2>2. Drop(Bytes(Id), 0) = Bytes(Id)
    <3>1. Drop(Bytes(Id), 0) = SubSeq(Bytes(Id), 1, Len(Bytes(Id)))
      BY DEF Drop
    <3> QED
      BY <1>4, <3>1, SubSeqFull DEF Word
  <2>3. Backlog(client) = Cat(Bytes(Id), << >>)
    BY <1>6, <2>1, <2>2 DEF Backlog
  <2> QED
    BY <1>4, <2>3, WordFacts
<1>11. Downlink
  <2>1. Cat(<< >>, Bytes(Id)) = Bytes(Id) /\ Cat(Bytes(Id), << >>) = Bytes(Id)
    BY <1>4, WordFacts
  <2>2. DownRest(<< >>)
    BY <1>1, <1>2, <1>4, <1>6, <1>10, <2>1 DEF DownRest, Ahead, Partial
  <2> QED
    BY <1>1, <2>2 DEF Downlink
<1>12. Handshake
  BY <1>1, <1>2, <1>4, <1>6 DEF Handshake
<1>13. Readiness /\ Emptied /\ FramingHolds /\ EofIsReal
  BY <1>2, <1>6 DEF Readiness, Emptied, FramingHolds, EofIsReal, Closed
<1>14. QueuesBounded
  BY <1>1, <1>2, BuffersAssumption, LengthsAssumption DEF QueuesBounded
<1> QED
  BY <1>7, <1>9, <1>11, <1>12, <1>13, <1>14 DEF IInv

\* The end of the worker, for whatever reason: what it holds is lost.
LEMMA EndStep ==
    ASSUME IInv, NEW code \in Errors, code # "proto",
           tunnel' = Ends(tunnel, code), UNCHANGED <<up, down, cut, client, event, traffic>>
    PROVE  IInv'
<1>1. /\ Sound(tunnel') /\ tunnel'.phase = "ended" /\ tunnel'.error = code
      /\ tunnel'.sent = tunnel.sent /\ tunnel'.written = tunnel.written
      /\ tunnel'.outbound = << >> /\ tunnel'.incoming = << >>
      /\ tunnel'.packets = << >> /\ tunnel'.queuedBytes = 0
  BY EndsFacts DEF IInv, Typed
<1>2. Typed
  BY DEF IInv
<1>3. Typed'
  BY <1>1, <1>2 DEF Typed
<1>4. Ended' /\ Gone' /\ (Closed' <=> Closed)
  BY <1>1 DEF Ended, Gone, Closed
<1>5. Uplink'
  <2>1. PICK later \in Word(Sized) : UpRest(later)
    BY DEF IInv, Uplink
  <2>2. UpRest(later)'
    BY <1>1, <1>4, <2>1 DEF UpRest
  <2> QED
    BY <2>2 DEF Uplink
<1>6. Downlink'
  <2>1. PICK later \in Word(Flow) : DownRest(later)
    BY DEF IInv, Downlink
  <2> DEFINE w == tunnel.written
             ps == tunnel.packets
  <2>2. w \in Word(Held) /\ ps \in Word(Held) /\ Cat(w, << >>) = w
    BY <1>2, TypedFacts, WordFacts
  <2>3. FromRelay(w) \in Word(Flow) /\ FromRelay(ps) \in Word(Flow)
        /\ FromRelay(Cat(w, ps)) = Cat(FromRelay(w), FromRelay(ps))
    BY <2>2, FromRelayFacts
  <2>4. PICK more \in Word(Flow) : more = Cat(FromRelay(ps), later)
    BY <2>3, CatFacts
  <2>5. client.produced = Cat(FromRelay(w), more)
    BY <2>1, <2>3, <2>4, CatAssociative DEF DownRest
  <2>6. DownRest(more)'
    BY <1>1, <1>4, <2>2, <2>5 DEF DownRest
  <2> QED
    BY <2>6 DEF Downlink
<1>7. Handshake'
  BY <1>1 DEF Handshake
<1>8. Readiness' /\ Emptied'
  BY <1>4 DEF IInv, Readiness, Emptied
<1>9. QueuesBounded'
  <2>1. Len(<< >>) = 0 /\ Size(<< >>) = 0
    BY StreamFacts DEF Size
  <2> QED
    BY <1>1, <2>1, BuffersAssumption, LengthsAssumption DEF QueuesBounded
<1>10. FramingHolds' /\ EofIsReal'
  BY <1>1, <1>4 DEF IInv, FramingHolds, EofIsReal
<1> QED
  BY <1>3, <1>5, <1>6, <1>7, <1>8, <1>9, <1>10 DEF IInv

\* A cut empties the socket, and keeps the histories and what each end holds.
LEMMA CutStep == IInv /\ Cut => IInv'
<1> SUFFICES ASSUME IInv, Cut PROVE IInv'
  OBVIOUS
<1>1. /\ cut' /\ cut' = TRUE /\ up' = << >> /\ down' = << >>
      /\ tunnel' = tunnel /\ client' = client /\ event' = event /\ traffic' = traffic
  BY DEF Cut
<1>2. Gone' /\ (Closed' <=> Closed) /\ (Ended' <=> Ended)
  BY <1>1 DEF Gone, Closed, Ended
<1>3. Typed'
  <2>1. << >> \in Word(Octets) /\ Len(<< >>) = 0
    BY WordFacts
  <2>2. 0 <= SocketCapacity
    BY BuffersAssumption
  <2> QED
    BY <1>1, <2>1, <2>2 DEF IInv, Typed
<1>4. Uplink'
  <2>1. PICK later \in Word(Sized) : UpRest(later)
    BY DEF IInv, Uplink
  <2>2. UpRest(later)'
    BY <1>1, <1>2, <2>1 DEF UpRest
  <2> QED
    BY <2>2 DEF Uplink
<1>5. Downlink'
  <2>1. PICK later \in Word(Flow) : DownRest(later)
    BY DEF IInv, Downlink
  <2>2. DownRest(later)'
    BY <1>1, <1>2, <2>1 DEF DownRest
  <2> QED
    BY <2>2 DEF Downlink
<1>6. Handshake' /\ Readiness' /\ Emptied' /\ QueuesBounded' /\ FramingHolds' /\ EofIsReal'
  BY <1>1, <1>2 DEF IInv, Handshake, Readiness, Emptied, QueuesBounded, FramingHolds, EofIsReal
<1> QED
  BY <1>3, <1>4, <1>5, <1>6 DEF IInv

\* poll reports only what the client asked for, and only what is the case.
LEMMA PollStep == IInv /\ Poll => IInv'
<1> SUFFICES ASSUME IInv, Poll PROVE IInv'
  OBVIOUS
<1>1. /\ UNCHANGED <<tunnel, up, down, cut, client, traffic>>
      /\ ~Closed /\ event' \subseteq client.interests
      /\ "r" \in event' => up # << >> \/ Gone
  BY DEF Poll
<1>2. (Gone' <=> Gone) /\ (Closed' <=> Closed) /\ (Ended' <=> Ended)
  BY <1>1 DEF Gone, Closed, Ended
<1>3. Typed'
  <2>1. event' \in SUBSET {"r", "w"}
    BY <1>1, TypedFacts DEF IInv
  <2> QED
    BY <1>1, <2>1 DEF IInv, Typed
<1>4. Uplink'
  <2>1. PICK later \in Word(Sized) : UpRest(later)
    BY DEF IInv, Uplink
  <2>2. UpRest(later)'
    BY <1>1, <1>2, <2>1 DEF UpRest
  <2> QED
    BY <2>2 DEF Uplink
<1>5. Downlink'
  <2>1. PICK later \in Word(Flow) : DownRest(later)
    BY DEF IInv, Downlink
  <2>2. DownRest(later)'
    BY <1>1, <1>2, <2>1 DEF DownRest
  <2> QED
    BY <2>2 DEF Downlink
<1>6. Readiness'
  BY <1>1, <1>2 DEF Readiness
<1>7. Handshake' /\ Emptied' /\ QueuesBounded' /\ FramingHolds' /\ EofIsReal'
  BY <1>1, <1>2 DEF IInv, Handshake, Emptied, QueuesBounded, FramingHolds, EofIsReal
<1> QED
  BY <1>3, <1>4, <1>5, <1>6, <1>7 DEF IInv

\* Connect takes bytes of the id until it has them all: the first byte behind
\* them begins the stream of packets.
LEMMA ConnectStep == IInv /\ Connect => IInv'
<1> SUFFICES ASSUME IInv, Connect PROVE IInv'
  OBVIOUS
<1>1. Typed /\ tunnel.phase = "connecting" /\ tunnel.phase # "running"
      /\ tunnel.phase # "ended" /\ UNCHANGED <<up, cut, client, event, traffic>>
  BY DEF IInv, Connect
<1>2. Len(tunnel.incoming) \in Nat /\ Len(tunnel.incoming) < IdLength /\ IdLength \in Nat
      /\ tunnel.incoming \in Word(Octets) /\ down \in Word(Octets)
      /\ IdLength - Len(tunnel.incoming) \in Nat
  <2>1. Len(tunnel.incoming) < IdLength
    BY <1>1 DEF IInv, Handshake
  <2>2. Len(tunnel.incoming) \in Nat /\ tunnel.incoming \in Word(Octets) /\ down \in Word(Octets)
    BY <1>1, TypedFacts DEF Typed
  <2> QED
    BY <2>1, <2>2, IdFacts
<1>3. PICK bytes \in Word(Octets), x \in Word(Octets) :
        /\ bytes = Take(down, IdLength - Len(tunnel.incoming))
        /\ Len(bytes) <= IdLength - Len(tunnel.incoming)
        /\ down' = x /\ down = Cat(bytes, x)
  <2>1. down' = Drop(down, Len(Take(down, IdLength - Len(tunnel.incoming))))
    BY DEF Connect
  <2> QED
    BY <1>2, <2>1, TakeFacts
<1>4. PICK id \in Word(Octets) : id = Cat(tunnel.incoming, bytes)
  BY <1>2, CatFacts
<1>5. /\ Len(bytes) \in Nat /\ Len(id) \in Nat /\ Len(id) = Len(tunnel.incoming) + Len(bytes)
      /\ Len(id) <= IdLength /\ Len(down') \in Nat /\ Len(down) = Len(bytes) + Len(down')
  <2>1. Len(bytes) \in Nat /\ Len(x) \in Nat /\ Len(id) \in Nat
    BY WordFacts
  <2>2. Len(id) = Len(tunnel.incoming) + Len(bytes)
    BY <1>2, <1>4, CatFacts
  <2>3. Len(down) = Len(bytes) + Len(x) /\ Len(bytes) <= IdLength - Len(tunnel.incoming)
        /\ down' = x
    BY <1>3, CatFacts
  <2> QED
    BY <1>2, <2>1, <2>2, <2>3
<1>6. tunnel' = IF Len(id) = IdLength
                THEN [tunnel EXCEPT !.incoming = <<>>, !.phase = "running"]
                ELSE [tunnel EXCEPT !.incoming = id]
  BY <1>3, <1>4 DEF Connect, Cat
<1>7. << >> \in Word(Octets) /\ Len(<< >>) = 0
  BY WordFacts
<1>8. /\ tunnel'.sent = tunnel.sent /\ tunnel'.outbound = tunnel.outbound
      /\ tunnel'.sendOffset = tunnel.sendOffset /\ tunnel'.packets = tunnel.packets
      /\ tunnel'.queuedBytes = tunnel.queuedBytes /\ tunnel'.written = tunnel.written
      /\ tunnel'.error = tunnel.error
      /\ tunnel'.phase = IF Len(id) = IdLength THEN "running" ELSE "connecting"
      /\ tunnel'.incoming = IF Len(id) = IdLength THEN << >> ELSE id
      /\ tunnel' \in Tunnels
  <2>1. tunnel \in Tunnels
    BY <1>1, TypedFacts
  <2> QED
    BY <1>1, <1>6, <1>7, <2>1 DEF Tunnels
<1>9. Sound(tunnel') /\ Unsent(tunnel') = Unsent(tunnel)
  BY <1>1, <1>8 DEF Typed, Sound, Unsent
<1>10. (Closed' <=> Closed) /\ ~Ended /\ ~Ended' /\ (Gone' <=> Gone)
  BY <1>1, <1>8 DEF Closed, Ended, Gone
<1>11. Typed'
  <2>1. Len(down') <= SocketCapacity
    BY <1>1, <1>5, BuffersAssumption DEF Typed
  <2> QED
    BY <1>1, <1>3, <1>9, <2>1 DEF Typed
<1>12. Uplink'
  <2>1. PICK later \in Word(Sized) : UpRest(later)
    BY DEF IInv, Uplink
  <2>2. UpRest(later)'
    BY <1>1, <1>8, <1>9, <1>10, <2>1 DEF UpRest
  <2> QED
    BY <2>2 DEF Uplink
<1>13. Downlink'
  <2>1. PICK later \in Word(Flow) : DownRest(later)
    BY DEF IInv, Downlink
  <2>2. ASSUME ~cut'
        PROVE  \E t \in Word(Octets) :
                 /\ Cat(Cat(tunnel'.incoming, down'), t) = Cat(Ahead(tunnel'), Stream(later))
                 /\ ~Closed' => t = Backlog(client')
    <3>1. PICK t \in Word(Octets) :
             /\ Cat(Cat(tunnel.incoming, down), t) = Cat(Bytes(Id), Stream(later))
             /\ ~Closed => t = Backlog(client)
      BY <1>1, <1>10, <2>1, <2>2 DEF DownRest, Ahead
    <3>2. down' = x
      BY <1>3
    <3>3. Cat(x, t) \in Word(Octets) /\ Stream(later) \in Word(Octets) /\ Bytes(Id) \in Word(Octets)
          /\ Len(Bytes(Id)) = IdLength
      BY CatFacts, StreamFacts, FlowFacts, IdFacts
    <3>4. Cat(Cat(id, x), t) = Cat(Bytes(Id), Stream(later))
      <4>1. Cat(tunnel.incoming, down) = Cat(id, x)
        <5>1. tunnel.incoming \in Word(Octets) /\ down = Cat(bytes, x)
          BY <1>2, <1>3
        <5>2. Cat(tunnel.incoming, Cat(bytes, x)) = Cat(Cat(tunnel.incoming, bytes), x)
          BY <5>1, CatAssociative
        <5> QED
          BY <1>4, <5>1, <5>2
      <4> QED
        BY <3>1, <4>1
    <3>5. CASE Len(id) = IdLength
      <4>1. Cat(id, Cat(x, t)) = Cat(Bytes(Id), Stream(later))
        BY <3>4, CatAssociative
      <4>2. PICK w \in Word(Octets) : Bytes(Id) = Cat(id, w) /\ Cat(x, t) = Cat(w, Stream(later))
        <5>1. Len(id) <= Len(Bytes(Id))
          BY <1>5, <3>3, <3>5
        <5> QED
          BY <3>3, <4>1, <5>1, Overlap
      <4>3. w = << >>
        <5>1. Len(Bytes(Id)) = Len(id) + Len(w) /\ Len(w) \in Nat
          BY <4>2, CatFacts, WordFacts
        <5> QED
          BY <1>5, <3>3, <3>5, <5>1, WordFacts
      <4>4. Cat(x, t) = Stream(later)
        BY <3>3, <4>2, <4>3, WordFacts
      <4>5. tunnel'.incoming = << >> /\ Ahead(tunnel') = << >>
        BY <1>8, <3>5 DEF Ahead
      <4>6. Cat(Cat(<< >>, x), t) = Cat(<< >>, Stream(later))
        <5>1. Cat(<< >>, x) = x /\ Cat(<< >>, Stream(later)) = Stream(later)
          BY <3>3, WordFacts
        <5> QED
          BY <4>4, <5>1
      <4> QED
        BY <1>1, <1>10, <3>1, <3>2, <4>5, <4>6
    <3>6. CASE Len(id) # IdLength
      <4>1. tunnel'.incoming = id /\ Ahead(tunnel') = Bytes(Id)
        BY <1>8, <3>6 DEF Ahead
      <4> QED
        BY <1>1, <1>10, <3>1, <3>2, <3>4, <4>1
    <3> QED
      BY <3>5, <3>6
  <2>3. tunnel'.phase = "running" => Partial(tunnel'.incoming, later)
    BY <1>8 DEF Partial
  <2>4. DownRest(later)'
    BY <1>1, <1>8, <2>1, <2>2, <2>3 DEF DownRest
  <2> QED
    BY <2>4 DEF Downlink
<1>14. Handshake'
  <2>1. tunnel'.phase = "connecting" =>
          tunnel'.packets = << >> /\ Len(tunnel'.incoming) < IdLength
    BY <1>1, <1>2, <1>5, <1>8 DEF IInv, Handshake
  <2>2. ASSUME ~cut', ~Closed', client'.idBytes > 0
        PROVE  /\ tunnel'.phase # "running"
               /\ tunnel'.phase = "connecting" =>
                    Len(tunnel'.incoming) + Len(down') + client'.idBytes = IdLength
    <3>1. Len(tunnel.incoming) + Len(down) + client.idBytes = IdLength
      BY <1>1, <1>10, <2>2 DEF IInv, Handshake
    <3>2. client.idBytes \in Nat /\ client.idBytes > 0 /\ client' = client
      BY <1>1, <2>2, TypedFacts, IdFacts
    <3> DEFINE k == client.idBytes
               m == Len(tunnel.incoming)
    <3> HIDE DEF k, m
    <3>0. m \in Nat /\ IdLength \in Nat /\ k \in Nat /\ k > 0 /\ Len(down) + m + k = IdLength
          /\ Len(down) = Len(bytes) + Len(down') /\ Len(bytes) \in Nat /\ Len(down') \in Nat
          /\ Len(id) = m + Len(bytes)
      <4>1. m \in Nat /\ IdLength \in Nat
        BY <1>2 DEF m
      <4>2. k \in Nat /\ k > 0
        BY <3>2 DEF k
      <4>3. /\ Len(down) = Len(bytes) + Len(down') /\ Len(bytes) \in Nat /\ Len(down') \in Nat
            /\ Len(id) = m + Len(bytes)
        BY <1>5 DEF m
      <4>4. m + Len(down) + k = IdLength
        BY <3>1 DEF k, m
      <4> QED
        BY <4>1, <4>2, <4>3, <4>4
    <3>3. Len(id) # IdLength
      BY <3>0
    <3>4. Len(id) + Len(down') + client.idBytes = IdLength
      BY <3>0 DEF k
    <3> QED
      BY <1>8, <3>2, <3>3, <3>4
  <2> QED
    BY <2>1, <2>2 DEF Handshake
<1>15. Readiness'
  BY <1>1, <1>10 DEF IInv, Readiness
<1>16. Emptied' /\ FramingHolds' /\ EofIsReal'
  BY <1>1, <1>8, <1>10 DEF IInv, Emptied, FramingHolds, EofIsReal
<1>17. QueuesBounded'
  <2>1. Len(tunnel'.incoming) \in Nat /\ Len(tunnel'.incoming) <= IdLength
    BY <1>2, <1>5, <1>7, <1>8
  <2>2. Size(tunnel.packets) = 0 /\ tunnel.queuedBytes = 0
    <3>1. Size(<< >>) = 0
      BY <1>7, StreamFacts DEF Size
    <3> QED
      BY <1>1, <3>1 DEF IInv, Handshake, Typed, Sound
  <2>3. tunnel'.queuedBytes + Len(tunnel'.incoming) < MaxQueue + ReplyLength
    BY <1>2, <1>8, <2>1, <2>2, BuffersAssumption, LengthsAssumption
  <2> QED
    BY <1>8, <2>3 DEF IInv, QueuesBounded
<1> QED
  BY <1>11, <1>12, <1>13, <1>14, <1>15, <1>16, <1>17 DEF IInv

\* A flow's packet goes to the ring whole or not at all.
LEMMA ProduceFacts ==
    ASSUME Typed, Produce
    PROVE  /\ client' \in Clients /\ SameReading(client, client')
           /\ Len(client'.toClient) <= RingCapacity
           /\ event \subseteq client.interests => event \subseteq client'.interests
           /\ \E qs \in Word(Flow) : /\ client'.produced = Cat(client.produced, qs)
                                     /\ client'.toClient = Cat(client.toClient, Stream(qs))
<1>1. PICK length \in Lengths, registers \in BOOLEAN :
        LET p == Packet("flow", length, traffic.down + 1)
            c == [client EXCEPT !.accepted = @ + 1]
        IN  client' = IF Fits(client, p) THEN Push(c, p)
                      ELSE IF registers THEN [c EXCEPT !.pending = Append(@, p)]
                      ELSE client
  BY DEF Produce
<1> DEFINE p == Packet("flow", length, traffic.down + 1)
           c == [client EXCEPT !.accepted = @ + 1]
<1>2. p \in Flow
  <2>1. length \in 1 .. MaxPacket /\ traffic.down + 1 \in Nat
    BY LengthsAssumption DEF Typed
  <2> QED
    BY <2>1 DEF Packet, Flow, Sized, Packets, AnyKind
<1>3. /\ client \in Clients /\ Len(client.toClient) <= RingCapacity
      /\ client.toClient \in Word(Octets) /\ client.produced \in Word(Flow)
      /\ client.pending \in Word(Flow) /\ << >> \in Word(Flow)
      /\ event \in SUBSET {"r", "w"}
  BY WordFacts DEF Typed, Clients
<1>4. /\ c \in Clients /\ SameReading(client, c) /\ c.toClient = client.toClient
      /\ c.produced = client.produced /\ c.pending = client.pending
      /\ c.interests = client.interests
  BY <1>3 DEF Clients, SameReading
<1> HIDE DEF p, c
<1>5. client' = IF Fits(client, p) THEN Push(c, p)
                ELSE IF registers THEN [c EXCEPT !.pending = Append(@, p)] ELSE client
  BY <1>1 DEF p, c
<1>6. CASE Fits(client, p)
  <2>1. Fits(c, p)
    BY <1>4, <1>6 DEF Fits
  <2> DEFINE d == Push(c, p)
  <2>2. /\ d \in Clients /\ SameReading(c, d)
        /\ d.produced = Cat(c.produced, << p >>) /\ d.toClient = Cat(c.toClient, Bytes(p))
        /\ Len(d.toClient) <= RingCapacity /\ "r" \in d.interests /\ "w" \in d.interests
    BY <1>2, <1>4, <2>1, PushFacts
  <2> HIDE DEF d
  <2>3. client' = d
    BY <1>5, <1>6 DEF d
  <2>4. << p >> \in Word(Flow) /\ Stream(<< p >>) = Bytes(p)
    BY <1>2, AppendFacts, FlowFacts, StreamFacts
  <2>5. SameReading(client, d)
    BY <1>4, <2>2 DEF SameReading
  <2>6. event \subseteq d.interests
    BY <1>3, <2>2
  <2>7. \E qs \in Word(Flow) : d.produced = Cat(client.produced, qs)
                              /\ d.toClient = Cat(client.toClient, Stream(qs))
    BY <1>4, <2>2, <2>4
  <2> QED
    BY <2>2, <2>3, <2>5, <2>6, <2>7
<1>7. CASE ~Fits(client, p)
  <2>1. PICK d : d \in {client, [c EXCEPT !.pending = Append(@, p)]} /\ client' = d
    BY <1>5, <1>7
  <2>2. Append(c.pending, p) \in Word(Flow)
    <3>1. c.pending \in Word(Flow) /\ << p >> \in Word(Flow)
      BY <1>2, <1>3, <1>4, AppendFacts
    <3>2. Append(c.pending, p) = Cat(c.pending, << p >>)
      BY <1>2, <3>1, AppendFacts
    <3> QED
      BY <3>1, <3>2, CatFacts
  <2>3. /\ d \in Clients /\ SameReading(client, d) /\ d.toClient = client.toClient
        /\ d.produced = client.produced /\ d.interests = client.interests
    BY <1>3, <1>4, <2>1, <2>2 DEF Clients, SameReading
  <2>4. /\ client.produced = Cat(client.produced, << >>)
        /\ client.toClient = Cat(client.toClient, Stream(<< >>))
    BY <1>3, StreamFacts, WordFacts
  <2> QED
    BY <1>3, <2>1, <2>3, <2>4
<1> QED
  BY <1>6, <1>7

\* A packet of a flow joins the downlink at its end.
LEMMA ProduceStep == IInv /\ Produce => IInv'
<1> SUFFICES ASSUME IInv, Produce PROVE IInv'
  OBVIOUS
<1>1. Typed /\ ~Closed /\ UNCHANGED <<tunnel, up, down, cut, event>>
  BY DEF IInv, Produce
<1>2. /\ client' \in Clients /\ SameReading(client, client')
      /\ Len(client'.toClient) <= RingCapacity
      /\ event \subseteq client.interests => event \subseteq client'.interests
  BY <1>1, ProduceFacts
<1>3. PICK qs \in Word(Flow) : /\ client'.produced = Cat(client.produced, qs)
                              /\ client'.toClient = Cat(client.toClient, Stream(qs))
  BY <1>1, ProduceFacts
<1>4. /\ client'.idBytes = client.idBytes /\ client'.toNetwork = client.toNetwork
      /\ client'.end = client.end /\ client'.pushed = client.pushed
  BY <1>2 DEF SameReading
<1>5. (Closed' <=> Closed) /\ (Ended' <=> Ended) /\ (Gone' <=> Gone) /\ Unsent(tunnel)' = Unsent(tunnel)
      /\ Ahead(tunnel)' = Ahead(tunnel)
  BY <1>1, <1>4 DEF Closed, Ended, Gone
<1>6. Typed'
  <2>1. traffic' \in [up : Nat, down : Nat]
    <3>1. traffic' = [traffic EXCEPT !.down = @ + 1]
      BY DEF Produce
    <3> QED
      BY <1>1, <3>1 DEF Typed
  <2> QED
    BY <1>1, <1>2, <2>1 DEF Typed
<1>7. Uplink'
  <2>1. PICK later \in Word(Sized) : UpRest(later)
    BY DEF IInv, Uplink
  <2>2. UpRest(later)'
    BY <1>1, <1>4, <1>5, <2>1 DEF UpRest
  <2> QED
    BY <2>2 DEF Uplink
<1>8. Downlink'
  <2>1. PICK later \in Word(Flow) : DownRest(later)
    BY DEF IInv, Downlink
  <2>2. PICK more \in Word(Flow) : more = Cat(later, qs)
    BY CatFacts
  <2>3. /\ Stream(later) \in Word(Octets) /\ Stream(qs) \in Word(Octets)
        /\ Stream(more) = Cat(Stream(later), Stream(qs))
        /\ later \in Word(Sized) /\ qs \in Word(Sized)
    BY <2>2, StreamFacts, FlowFacts
  <2>4. client'.produced = Cat(FromRelay(Cat(tunnel.written, tunnel.packets)), more)
    BY <1>1, <1>3, <2>1, <2>2, TypedFacts, CatAssociative DEF DownRest
  <2>5. tunnel.phase = "running" => Partial(tunnel.incoming, more)
    BY <1>1, <2>1, <2>2, <2>3, TypedFacts, PartialFacts DEF DownRest
  <2>6. Backlog(client') = Cat(Backlog(client), Stream(qs)) /\ Backlog(client) \in Word(Octets)
        /\ Backlog(client') \in Word(Octets)
    <3> DEFINE a == Drop(Bytes(Id), IdLength - client.idBytes)
    <3>1. a \in Word(Octets) /\ client.toClient \in Word(Octets) /\ Backlog(client) \in Word(Octets)
          /\ Backlog(client') \in Word(Octets)
      BY <1>1, <1>2, BacklogFacts, TypedFacts
    <3> HIDE DEF a
    <3>2. Backlog(client) = Cat(a, client.toClient)
          /\ Backlog(client') = Cat(a, Cat(client.toClient, Stream(qs)))
      BY <1>3, <1>4 DEF Backlog, a
    <3> QED
      BY <2>3, <3>1, <3>2, CatAssociative
  <2>7. ASSUME ~Ended, ~cut
        PROVE  \E t \in Word(Octets) :
                 /\ Cat(Cat(tunnel.incoming, down), t) = Cat(Ahead(tunnel), Stream(more))
                 /\ ~Closed => t = Backlog(client')
    <3>1. Cat(Cat(tunnel.incoming, down), Backlog(client)) = Cat(Ahead(tunnel), Stream(later))
      BY <1>1, <2>1, <2>7 DEF DownRest
    <3>2. Cat(tunnel.incoming, down) \in Word(Octets) /\ Ahead(tunnel) \in Word(Octets)
      <4>1. tunnel.incoming \in Word(Octets) /\ down \in Word(Octets)
        BY <1>1, TypedFacts DEF Typed
      <4>2. Ahead(tunnel) \in Word(Octets)
        BY IdFacts, WordFacts DEF Ahead
      <4> QED
        BY <4>1, <4>2, CatFacts
    <3> DEFINE x == Cat(tunnel.incoming, down)
               y == Ahead(tunnel)
               b == Backlog(client)
    <3> HIDE DEF x, y, b
    <3>3. x \in Word(Octets) /\ y \in Word(Octets) /\ b \in Word(Octets)
          /\ Cat(x, b) = Cat(y, Stream(later))
      BY <2>6, <3>1, <3>2 DEF x, y, b
    <3>4. Cat(x, Cat(b, Stream(qs))) = Cat(y, Stream(more))
      <4>1. Cat(x, Cat(b, Stream(qs))) = Cat(Cat(x, b), Stream(qs))
        BY <2>3, <3>3, CatAssociative
      <4>2. Cat(Cat(y, Stream(later)), Stream(qs)) = Cat(y, Stream(more))
        BY <2>3, <3>3, CatAssociative
      <4> QED
        BY <3>3, <4>1, <4>2
    <3> QED
      BY <2>6, <3>4 DEF x, y, b
  <2>8. DownRest(more)'
    BY <1>1, <1>5, <2>4, <2>5, <2>7 DEF DownRest
  <2> QED
    BY <2>8 DEF Downlink
<1>9. Handshake'
  BY <1>1, <1>4, <1>5 DEF IInv, Handshake
<1>10. Readiness' /\ Emptied'
  BY <1>1, <1>2, <1>4, <1>5 DEF IInv, Readiness, Emptied
<1>11. QueuesBounded' /\ FramingHolds' /\ EofIsReal'
  BY <1>1, <1>4, <1>5 DEF IInv, QueuesBounded, FramingHolds, EofIsReal
<1> QED
  BY <1>6, <1>7, <1>8, <1>9, <1>10, <1>11 DEF IInv

\* A handler that finds the other end gone closes the client.
LEMMA ReadyBroken ==
    ASSUME IInv, event # {}, event' = {}, Gone,
           UNCHANGED <<tunnel, up, down, cut, traffic>>,
           NEW sending, sending \in {client, Close(client, "io")},
           client' \in {sending, Close(sending, "io")}, client'.end # "open"
    PROVE  IInv'
<1>1. Typed /\ client \in Clients /\ client.pushed \in Word(Sized) /\ client.end = "open"
      /\ Len(client.toClient) <= RingCapacity
  BY TypedFacts DEF IInv, Typed, Readiness, Closed
<1>2. "io" \in Causes /\ Len(<< >>) = 0 /\ 0 <= RingCapacity
  BY BuffersAssumption DEF Causes
<1>3. PICK d : d = Close(client, "io")
  OBVIOUS
<1>4. /\ d \in Clients /\ d.end = "io" /\ d.pushed = client.pushed
      /\ d.produced = client.produced /\ d.toNetwork = << >> /\ d.toClient = << >>
  BY <1>1, <1>2, <1>3, CloseFacts
<1>5. PICK e : e = Close(d, "io")
  OBVIOUS
<1>6. /\ e \in Clients /\ e.end = "io" /\ e.pushed = client.pushed
      /\ e.produced = client.produced /\ e.toNetwork = << >> /\ e.toClient = << >>
  BY <1>2, <1>4, <1>5, CloseFacts
<1>7. client' \in {d, e}
  BY <1>1, <1>3, <1>5
<1>8. /\ client' \in Clients /\ client'.end = "io" /\ client'.pushed = client.pushed
      /\ client'.produced = client.produced /\ client'.toNetwork = << >>
      /\ client'.toClient = << >>
  BY <1>4, <1>6, <1>7
<1>9. Closed' /\ (Ended' <=> Ended) /\ Gone'
  BY <1>8 DEF Closed, Ended, Gone
<1>10. Typed'
  BY <1>1, <1>2, <1>8 DEF Typed
<1>11. Uplink'
  <2>1. PICK later \in Word(Sized) : UpRest(later)
    BY DEF IInv, Uplink
  <2>2. UpRest(later)'
    BY <1>8, <1>9, <2>1 DEF UpRest
  <2> QED
    BY <2>2 DEF Uplink
<1>12. Downlink'
  <2>1. PICK later \in Word(Flow) : DownRest(later)
    BY DEF IInv, Downlink
  <2>2. /\ client'.produced = Cat(FromRelay(Cat(tunnel'.written, tunnel'.packets)), later)
        /\ tunnel'.phase = "running" => Partial(tunnel'.incoming, later)
    BY <1>8, <2>1 DEF DownRest
  <2>3. ASSUME ~Ended', ~cut'
        PROVE  FALSE
    BY <1>9, <2>3 DEF Gone
  <2>4. DownRest(later)'
    BY <2>2, <2>3 DEF DownRest
  <2> QED
    BY <2>4 DEF Downlink
<1>13. Handshake'
  <2>1. Handshake
    BY DEF IInv
  <2> QED
    BY <1>9, <2>1 DEF Handshake
<1>14. Readiness' /\ Emptied'
  BY <1>8, <1>9 DEF IInv, Readiness, Emptied
<1>15. QueuesBounded' /\ FramingHolds' /\ EofIsReal'
  BY <1>8 DEF IInv, QueuesBounded, FramingHolds, EofIsReal
<1> QED
  BY <1>10, <1>11, <1>12, <1>13, <1>14, <1>15 DEF IInv

\* What the write half of a handler leaves.
LEMMA SendingFacts ==
    ASSUME Typed, NEW n \in 0 .. SocketCapacity,
           IF "w" \in event /\ Writable(client) # << >>
           THEN n \in 1 .. Least(SocketCapacity - Len(down), Len(Writable(client)))
           ELSE n = 0,
           NEW d, d = IF "w" \notin event THEN client ELSE ProcessSend(client, n)
    PROVE  /\ d \in Clients /\ Len(d.toClient) <= RingCapacity
           /\ d.toNetwork = client.toNetwork /\ d.end = client.end /\ d.pushed = client.pushed
           /\ d.idBytes = IF client.idBytes > 0 THEN client.idBytes - n ELSE 0
           /\ Take(Writable(client), n) \in Word(Octets) /\ Len(Take(Writable(client), n)) = n
           /\ Len(down) + n <= SocketCapacity
           /\ \E qs \in Word(Flow) :
                /\ d.produced = Cat(client.produced, qs)
                /\ Cat(Take(Writable(client), n), Backlog(d)) = Cat(Backlog(client), Stream(qs))
<1> DEFINE W == Writable(client)
<1>1. /\ client \in Clients /\ Len(client.toClient) <= RingCapacity
      /\ W \in Word(Octets) /\ Backlog(client) \in Word(Octets) /\ Len(W) \in Nat
      /\ client.produced \in Word(Flow) /\ client.idBytes \in 0 .. IdLength
      /\ Len(down) \in Nat /\ Len(down) <= SocketCapacity /\ SocketCapacity \in Nat
  <2>1. client \in Clients /\ W \in Word(Octets) /\ Backlog(client) \in Word(Octets)
    BY TypedFacts, BacklogFacts
  <2> QED
    BY <2>1, TypedFacts, BuffersAssumption, WordFacts DEF Typed
<1> HIDE DEF W
<1>2. n \in Nat /\ n <= Len(W) /\ Len(down) + n <= SocketCapacity
  <2>1. CASE "w" \in event /\ W # << >>
    <3>1. n \in 1 .. Least(SocketCapacity - Len(down), Len(W))
      BY <2>1 DEF W
    <3> QED
      BY <1>1, <3>1 DEF Least
  <2>2. CASE ~("w" \in event /\ W # << >>)
    <3>1. n = 0
      BY <2>2 DEF W
    <3> QED
      BY <1>1, <3>1
  <2> QED
    BY <2>1, <2>2
<1>3. Take(W, n) \in Word(Octets) /\ Len(Take(W, n)) = n
  BY <1>1, <1>2, TakeFacts
<1>4. CASE "w" \notin event
  <2>1. d = client /\ n = 0
    BY <1>4
  <2>2. Take(W, n) = << >> /\ << >> \in Word(Flow) /\ Stream(<< >>) = << >>
    BY <1>3, <2>1, WordFacts, StreamFacts
  <2>3. /\ Cat(<< >>, Backlog(client)) = Backlog(client)
        /\ Cat(Backlog(client), << >>) = Backlog(client)
        /\ Cat(client.produced, << >>) = client.produced
    BY <1>1, WordFacts
  <2>4. \E qs \in Word(Flow) :
                /\ d.produced = Cat(client.produced, qs)
                /\ Cat(Take(W, n), Backlog(d)) = Cat(Backlog(client), Stream(qs))
    BY <2>1, <2>2, <2>3
  <2>5. d.idBytes = IF client.idBytes > 0 THEN client.idBytes - n ELSE 0
    <3>1. client.idBytes \in Nat
      BY <1>1, IdFacts
    <3> QED
      BY <2>1, <3>1
  <2> QED
    BY <1>1, <1>2, <1>3, <2>1, <2>4, <2>5 DEF W
<1>5. CASE "w" \in event
  <2>1. d = ProcessSend(client, n)
    BY <1>5
  <2>2. n \in Nat /\ n <= Len(Writable(client))
    BY <1>2 DEF W
  <2>3. /\ d \in Clients /\ Len(d.toClient) <= RingCapacity
        /\ d.toNetwork = client.toNetwork /\ d.end = client.end /\ d.pushed = client.pushed
        /\ d.idBytes = IF client.idBytes > 0 THEN client.idBytes - n ELSE 0
        /\ \E qs \in Word(Flow) :
                /\ d.produced = Cat(client.produced, qs)
                /\ Cat(Take(Writable(client), n), Backlog(d)) = Cat(Backlog(client), Stream(qs))
    BY <1>1, <2>1, <2>2, ProcessSendFacts
  <2> QED
    BY <1>2, <1>3, <2>3 DEF W
<1> QED
  BY <1>4, <1>5

\* What the read half of a handler leaves, after the write half left c. The rest
\* of the socket is x.
LEMMA ReceivedFacts ==
    ASSUME IInv, event # {}, ~cut, NEW c \in Clients, Len(c.toClient) <= RingCapacity,
           c.toNetwork = client.toNetwork, c.end = "open", c.pushed = client.pushed,
           NEW bytes, bytes = IF "r" \in event THEN Take(up, Room(c)) ELSE << >>,
           NEW d, d = IF "r" \in event THEN ProcessReceive(c, bytes) ELSE c,
           NEW x, x = Drop(up, Len(bytes))
    PROVE  /\ d \in Clients /\ d.idBytes = c.idBytes /\ d.produced = c.produced
           /\ d.end = "open" => d.toClient = c.toClient
           /\ d.end # "open" => d.toClient = << >> /\ d.toNetwork = << >>
           /\ d.end = "eof" => Gone
           /\ d.end = "malformed" => \E i \in DOMAIN tunnel.sent : tunnel.sent[i].kind = "bad"
           /\ x \in Word(Octets) /\ Len(x) <= SocketCapacity
           /\ \E later \in Word(Sized) :
                /\ tunnel.sent = Cat(d.pushed, later)
                /\ d.end = "open" =>
                     /\ Partial(d.toNetwork, later)
                     /\ \E t \in Word(Octets) : /\ Cat(Cat(d.toNetwork, x), t) = Stream(later)
                                                /\ ~Ended => t = Unsent(tunnel)
<1>1. /\ Typed /\ ~Closed /\ up \in Word(Octets) /\ Len(up) <= SocketCapacity /\ Len(up) \in Nat
      /\ client.toNetwork \in Word(Octets) /\ client.pushed \in Word(Sized)
      /\ SocketCapacity \in Nat
  BY TypedFacts, BuffersAssumption DEF IInv, Typed, Readiness
<1>2. PICK later \in Word(Sized) : UpRest(later)
  BY DEF IInv, Uplink
<1>3. /\ tunnel.sent = Cat(client.pushed, later) /\ Partial(client.toNetwork, later)
  BY <1>1, <1>2 DEF UpRest
<1>4. PICK t \in Word(Octets) : /\ Cat(Cat(client.toNetwork, up), t) = Stream(later)
                                /\ ~Ended => t = Unsent(tunnel)
  BY <1>1, <1>2 DEF UpRest
<1>5. CASE "r" \notin event
  <2>1. bytes = << >> /\ d = c /\ Len(<< >>) = 0
    BY <1>5
  <2>2. x = up
    <3>1. x = Drop(up, 0)
      BY <2>1
    <3>2. Drop(up, 0) = SubSeq(up, 1, Len(up))
      BY DEF Drop
    <3> QED
      BY <1>1, <3>1, <3>2, SubSeqFull DEF Word
  <2>3. d.end = "open" /\ d.pushed = client.pushed /\ d.toNetwork = client.toNetwork
    BY <2>1
  <2> QED
    BY <1>1, <1>3, <1>4, <2>1, <2>2, <2>3
<1>6. CASE "r" \in event
  <2>1. d = ProcessReceive(c, bytes) /\ bytes = Take(up, Room(c))
    BY <1>6
  <2>2. Room(c) \in Nat /\ Room(c) > 0
    <3>1. Len(client.toNetwork) \in Nat /\ Len(client.toNetwork) < MaxPacket
      BY <1>1, <1>3, PartialFacts
    <3> QED
      BY <3>1, BuffersAssumption DEF Room
  <2>3. /\ bytes \in Word(Octets) /\ x \in Word(Octets) /\ up = Cat(bytes, x)
        /\ Len(bytes) = IF Room(c) <= Len(up) THEN Room(c) ELSE Len(up)
    BY <1>1, <2>1, <2>2, TakeFacts
  <2>4. Len(x) <= SocketCapacity
    <3>1. bytes \in Word(Octets) /\ x \in Word(Octets) /\ Len(up) = Len(Cat(bytes, x))
      BY <2>3
    <3>2. Len(Cat(bytes, x)) = Len(bytes) + Len(x)
      BY <3>1, CatFacts
    <3>3. Len(bytes) \in Nat /\ Len(x) \in Nat
      BY <3>1, WordFacts
    <3>4. Len(up) \in Nat /\ Len(up) <= SocketCapacity /\ SocketCapacity \in Nat
      BY <1>1
    <3>5. \A a, b, m, k \in Nat : m = a + b /\ m <= k => b <= k
      OBVIOUS
    <3>6. Len(up) = Len(bytes) + Len(x)
      BY <3>1, <3>2, Zenon
    <3> QED
      BY <3>3, <3>4, <3>5, <3>6, Zenon
  <2>5. PICK u \in Word(Octets) : u = Cat(x, t)
    BY <2>3, CatFacts
  <2>6. Cat(Cat(c.toNetwork, bytes), u) = Stream(later)
    <3>1. Cat(Cat(client.toNetwork, Cat(bytes, x)), t) = Cat(Cat(client.toNetwork, bytes), Cat(x, t))
      BY <1>1, <2>3, Regroup
    <3> QED
      BY <1>4, <2>3, <2>5, <3>1
  <2>7. /\ d \in Clients /\ d.idBytes = c.idBytes /\ d.produced = c.produced
        /\ d.end = "open" => d.toClient = c.toClient
        /\ d.end # "open" => d.toClient = << >> /\ d.toNetwork = << >>
        /\ d.end = "eof" => bytes = << >>
        /\ d.end = "malformed" => \E i \in DOMAIN later : later[i].kind = "bad"
    BY <2>1, <2>3, <2>6, ProcessReceiveFacts
  <2>8. PICK front \in Word(Sized), rs \in Word(Sized) :
          /\ later = Cat(front, rs) /\ d.pushed = Cat(c.pushed, front)
          /\ d.end = "open" => Cat(d.toNetwork, u) = Stream(rs) /\ Partial(d.toNetwork, rs)
    BY <2>1, <2>3, <2>6, ProcessReceiveFacts
  <2>9. d.end = "eof" => Gone
    <3>1. ASSUME bytes = << >>
          PROVE  up = << >>
      <4>1. Len(bytes) = 0
        BY <3>1
      <4>2. Len(up) = 0
        BY <1>1, <2>2, <2>3, <4>1
      <4> QED
        BY <1>1, <4>2, WordFacts
    <3> QED
      BY <1>6, <2>7, <3>1 DEF IInv, Readiness
  <2>10. d.end = "malformed" => \E i \in DOMAIN tunnel.sent : tunnel.sent[i].kind = "bad"
    BY <1>1, <1>3, <2>7, BadFacts
  <2>11. tunnel.sent = Cat(d.pushed, rs)
    BY <1>1, <1>3, <2>8, CatAssociative
  <2>12. ASSUME d.end = "open"
         PROVE  Cat(Cat(d.toNetwork, x), t) = Stream(rs)
    <3>1. d.toNetwork \in Word(Octets)
      BY <2>7 DEF Clients
    <3>2. Cat(d.toNetwork, Cat(x, t)) = Stream(rs) /\ x \in Word(Octets)
      BY <2>3, <2>5, <2>8, <2>12
    <3>3. Cat(Cat(d.toNetwork, x), t) = Cat(d.toNetwork, Cat(x, t))
      BY <3>1, <3>2, CatAssociative
    <3> QED
      BY <3>2, <3>3
  <2> QED
    BY <1>4, <2>3, <2>4, <2>7, <2>8, <2>9, <2>10, <2>11, <2>12
<1> QED
  BY <1>5, <1>6

\* on_ready over a live socket: process_send, then process_receive, then
\* push_to_network, or a close.
LEMMA ReadyWorks ==
    ASSUME IInv, event # {}, event' = {}, ~cut, UNCHANGED <<tunnel, cut, traffic>>,
           NEW n \in 0 .. SocketCapacity,
           IF "w" \in event /\ Writable(client) # << >>
           THEN n \in 1 .. Least(SocketCapacity - Len(down), Len(Writable(client)))
           ELSE n = 0,
           NEW c, c = IF "w" \notin event THEN client ELSE ProcessSend(client, n),
           NEW bytes, bytes = IF "r" \in event THEN Take(up, Room(c)) ELSE << >>,
           NEW d, d = IF "r" \in event THEN ProcessReceive(c, bytes) ELSE c,
           client' = IF d.end = "open" THEN UpdateInterests(d) ELSE d,
           up' = Drop(up, Len(bytes)), down' = Cat(down, Take(Writable(client), n))
    PROVE  IInv'
<1>1. Typed /\ ~Closed /\ client.end = "open" /\ down \in Word(Octets)
      /\ client.produced \in Word(Flow) /\ client.idBytes \in 0 .. IdLength
      /\ tunnel.incoming \in Word(Octets) /\ Len(down) \in Nat
  BY TypedFacts DEF IInv, Typed, Readiness, Closed
<1>2. PICK sent \in Word(Octets) : sent = Take(Writable(client), n) /\ Len(sent) = n
  BY <1>1, SendingFacts
<1>3. /\ c \in Clients /\ Len(c.toClient) <= RingCapacity
      /\ c.toNetwork = client.toNetwork /\ c.end = "open" /\ c.pushed = client.pushed
      /\ c.idBytes = IF client.idBytes > 0 THEN client.idBytes - n ELSE 0
      /\ Len(down) + n <= SocketCapacity
  BY <1>1, SendingFacts
<1>4. PICK qs \in Word(Flow) : /\ c.produced = Cat(client.produced, qs)
                              /\ Cat(sent, Backlog(c)) = Cat(Backlog(client), Stream(qs))
  BY <1>1, <1>2, SendingFacts
<1>5. PICK x : x = Drop(up, Len(bytes))
  OBVIOUS
<1>6. /\ d \in Clients /\ d.idBytes = c.idBytes /\ d.produced = c.produced
      /\ d.end = "open" => d.toClient = c.toClient
      /\ d.end # "open" => d.toClient = << >> /\ d.toNetwork = << >>
      /\ d.end = "eof" => Gone
      /\ d.end = "malformed" => \E i \in DOMAIN tunnel.sent : tunnel.sent[i].kind = "bad"
      /\ x \in Word(Octets) /\ Len(x) <= SocketCapacity
  BY <1>3, <1>5, ReceivedFacts
<1>7. PICK later \in Word(Sized) :
        /\ tunnel.sent = Cat(d.pushed, later)
        /\ d.end = "open" =>
             /\ Partial(d.toNetwork, later)
             /\ \E t \in Word(Octets) : /\ Cat(Cat(d.toNetwork, x), t) = Stream(later)
                                        /\ ~Ended => t = Unsent(tunnel)
  BY <1>3, <1>5, ReceivedFacts
<1>8. PICK e : e = client'
  OBVIOUS
<1>9. /\ e \in Clients /\ e.idBytes = d.idBytes /\ e.toNetwork = d.toNetwork
      /\ e.end = d.end /\ e.pushed = d.pushed /\ e.toClient = d.toClient
      /\ e.produced = d.produced
  <2>1. e = IF d.end = "open" THEN UpdateInterests(d) ELSE d
    BY <1>8
  <2>2. LET f == UpdateInterests(d) IN
           /\ f \in Clients /\ SameReading(d, f)
           /\ f.toClient = d.toClient /\ f.produced = d.produced
    BY <1>6, UpdateInterestsFacts
  <2> QED
    BY <1>6, <2>1, <2>2 DEF SameReading
<1>10. (Closed' <=> e.end # "open") /\ (Ended' <=> Ended) /\ (Gone' <=> Gone) /\ ~cut' /\ event' = {}
       /\ tunnel' = tunnel /\ traffic' = traffic /\ client' = e /\ up' = x /\ cut' = cut
       /\ down' = Cat(down, sent)
  BY <1>2, <1>5, <1>8 DEF Closed, Ended, Gone
<1>11. Cat(down, sent) \in Word(Octets) /\ Len(Cat(down, sent)) = Len(down) + n
  BY <1>1, <1>2, CatFacts
<1>12. Typed'
  <2>1. Len(e.toClient) <= RingCapacity
    <3>1. Len(<< >>) = 0 /\ 0 <= RingCapacity
      BY BuffersAssumption
    <3> QED
      BY <1>3, <1>6, <1>9, <3>1
  <2> QED
    BY <1>1, <1>3, <1>6, <1>9, <1>10, <1>11, <2>1 DEF Typed
<1>13. Uplink'
  <2>1. UpRest(later)'
    BY <1>7, <1>9, <1>10 DEF UpRest
  <2> QED
    BY <2>1 DEF Uplink
<1>14. Downlink'
  <2>1. PICK rest \in Word(Flow) : DownRest(rest)
    BY DEF IInv, Downlink
  <2>2. PICK more \in Word(Flow) : more = Cat(rest, qs)
    BY CatFacts
  <2>3. /\ Stream(rest) \in Word(Octets) /\ Stream(qs) \in Word(Octets)
        /\ Stream(more) = Cat(Stream(rest), Stream(qs))
        /\ rest \in Word(Sized) /\ qs \in Word(Sized)
    BY <2>2, StreamFacts, FlowFacts
  <2>4. e.produced = Cat(FromRelay(Cat(tunnel.written, tunnel.packets)), more)
    <3>1. FromRelay(Cat(tunnel.written, tunnel.packets)) \in Word(Flow)
      BY <1>1, TypedFacts
    <3>2. client.produced = Cat(FromRelay(Cat(tunnel.written, tunnel.packets)), rest)
      BY <2>1 DEF DownRest
    <3>3. e.produced = Cat(client.produced, qs)
      BY <1>4, <1>6, <1>9
    <3> QED
      BY <2>2, <3>1, <3>2, <3>3, CatAssociative
  <2>5. tunnel.phase = "running" => Partial(tunnel.incoming, more)
    BY <1>1, <2>1, <2>2, <2>3, PartialFacts DEF DownRest
  <2>6. Backlog(c) \in Word(Octets) /\ Backlog(client) \in Word(Octets)
    BY <1>1, <1>3, BacklogFacts, TypedFacts
  <2>7. e.end = "open" => Backlog(e) = Backlog(c)
    BY <1>6, <1>9 DEF Backlog
  <2>8. ASSUME ~Ended
        PROVE  \E t \in Word(Octets) :
                 /\ Cat(Cat(tunnel.incoming, Cat(down, sent)), t) = Cat(Ahead(tunnel), Stream(more))
                 /\ e.end = "open" => t = Backlog(e)
    <3>1. Cat(Cat(tunnel.incoming, down), Backlog(client)) = Cat(Ahead(tunnel), Stream(rest))
      BY <1>1, <2>1, <2>8 DEF DownRest
    <3>2. Cat(tunnel.incoming, down) \in Word(Octets) /\ Ahead(tunnel) \in Word(Octets)
      <4>1. Ahead(tunnel) \in Word(Octets)
        BY IdFacts, WordFacts DEF Ahead
      <4> QED
        BY <1>1, <4>1, CatFacts
    <3> DEFINE a == Cat(tunnel.incoming, down)
               y == Ahead(tunnel)
               b == Backlog(client)
               g == Backlog(c)
    <3>3. a \in Word(Octets) /\ y \in Word(Octets) /\ b \in Word(Octets) /\ g \in Word(Octets)
          /\ Cat(a, b) = Cat(y, Stream(rest)) /\ Cat(sent, g) = Cat(b, Stream(qs))
      BY <1>4, <2>6, <3>1, <3>2
    <3>4. Cat(Cat(tunnel.incoming, Cat(down, sent)), g) = Cat(a, Cat(sent, g))
      BY <1>1, <1>2, <2>6, Regroup
    <3> HIDE DEF a, y, b, g
    <3>5. Cat(a, Cat(b, Stream(qs))) = Cat(y, Stream(more))
      <4>1. Cat(a, Cat(b, Stream(qs))) = Cat(Cat(a, b), Stream(qs))
        BY <2>3, <3>3, CatAssociative
      <4>2. Cat(Cat(y, Stream(rest)), Stream(qs)) = Cat(y, Stream(more))
        BY <2>3, <3>3, CatAssociative
      <4> QED
        BY <3>3, <4>1, <4>2
    <3>6. Cat(Cat(tunnel.incoming, Cat(down, sent)), g) = Cat(y, Stream(more))
      BY <3>3, <3>4, <3>5
    <3> QED
      BY <2>6, <2>7, <3>6 DEF y, g
  <2>9. DownRest(more)'
    BY <1>10, <2>4, <2>5, <2>8 DEF DownRest
  <2> QED
    BY <2>9 DEF Downlink
<1>15. Handshake'
  <2>1. tunnel.phase = "connecting" => tunnel.packets = << >> /\ Len(tunnel.incoming) < IdLength
    BY DEF IInv, Handshake
  <2>2. ASSUME e.idBytes > 0
        PROVE  /\ tunnel.phase # "running"
               /\ tunnel.phase = "connecting" =>
                     Len(tunnel.incoming) + Len(Cat(down, sent)) + e.idBytes = IdLength
    <3>1. e.idBytes = IF client.idBytes > 0 THEN client.idBytes - n ELSE 0
      BY <1>3, <1>6, <1>9
    <3>2. client.idBytes > 0 /\ e.idBytes = client.idBytes - n /\ client.idBytes \in Nat
      BY <1>1, <2>2, <3>1, IdFacts
    <3>3. /\ tunnel.phase # "running"
          /\ tunnel.phase = "connecting" =>
                Len(tunnel.incoming) + Len(down) + client.idBytes = IdLength
      BY <1>1, <3>2 DEF IInv, Handshake
    <3> DEFINE k == client.idBytes
               m == Len(tunnel.incoming)
               l == Len(down)
    <3>4. /\ m \in Nat /\ l \in Nat /\ k \in Nat /\ n \in Nat /\ e.idBytes = k - n
          /\ Len(Cat(down, sent)) = l + n
          /\ tunnel.phase = "connecting" => m + l + k = IdLength
      BY <1>1, <1>11, <3>2, <3>3, WordFacts
    <3> HIDE DEF k, m, l
    <3>5. tunnel.phase = "connecting" => m + (l + n) + (k - n) = IdLength
      BY <3>4
    <3> QED
      BY <3>3, <3>4, <3>5 DEF m
  <2> QED
    BY <1>10, <2>1, <2>2 DEF Handshake
<1>16. Readiness' /\ Emptied'
  <2>1. ~Ended => tunnel.error = "none"
    BY DEF IInv, Emptied
  <2> QED
    BY <1>6, <1>9, <1>10, <2>1 DEF Readiness, Emptied
<1>17. QueuesBounded' /\ FramingHolds' /\ EofIsReal'
  <2>1. QueuesBounded /\ tunnel.error # "proto"
    BY DEF IInv, FramingHolds
  <2> QED
    BY <1>6, <1>9, <1>10, <2>1 DEF QueuesBounded, FramingHolds, EofIsReal
<1> QED
  BY <1>12, <1>13, <1>14, <1>15, <1>16, <1>17 DEF IInv

\* on_ready preserves the invariant, whatever order its halves end in.
LEMMA OnReadyStep == IInv /\ OnReady => IInv'
<1> SUFFICES ASSUME IInv, OnReady PROVE IInv'
  OBVIOUS
<1>1. /\ event # {} /\ event' = {} /\ UNCHANGED <<tunnel, cut, traffic>>
      /\ Typed /\ client.end = "open" /\ event \in SUBSET {"r", "w"}
      /\ up \in Word(Octets) /\ down \in Word(Octets)
  BY DEF IInv, Typed, Readiness, Closed, OnReady
<1>2. PICK n \in 0 .. SocketCapacity, broken \in BOOLEAN :
         /\ broken => Gone
         /\ cut => broken
         /\ IF "w" \in event /\ ~broken /\ Writable(client) # <<>>
            THEN n \in 1 .. Least(SocketCapacity - Len(down), Len(Writable(client)))
            ELSE n = 0
         /\ \E sending \in {IF "w" \notin event THEN client
                            ELSE IF broken THEN Close(client, "io")
                            ELSE ProcessSend(client, n)} :
            LET reads == "r" \in event /\ sending.end = "open" IN
            \E bytes \in {IF reads /\ ~broken THEN Take(up, Room(sending)) ELSE <<>>} :
            \E received \in {IF ~reads THEN sending
                             ELSE IF broken THEN Close(sending, "io")
                             ELSE ProcessReceive(sending, bytes)} :
              /\ client' = IF received.end = "open" THEN UpdateInterests(received)
                           ELSE received
              /\ up' = Drop(up, Len(bytes))
         /\ down' = Cat(down, Take(Writable(client), n))
  BY DEF OnReady, Cat
<1>3. PICK c : c = IF "w" \notin event THEN client
                   ELSE IF broken THEN Close(client, "io")
                   ELSE ProcessSend(client, n)
  OBVIOUS
<1>4. PICK bytes, d :
        /\ bytes = IF "r" \in event /\ c.end = "open" /\ ~broken THEN Take(up, Room(c)) ELSE <<>>
        /\ d = IF ~("r" \in event /\ c.end = "open") THEN c
               ELSE IF broken THEN Close(c, "io") ELSE ProcessReceive(c, bytes)
        /\ client' = IF d.end = "open" THEN UpdateInterests(d) ELSE d
        /\ up' = Drop(up, Len(bytes))
  BY <1>2, <1>3
<1>5. CASE broken
  <2>1. n = 0 /\ bytes = << >> /\ Len(<< >>) = 0
    BY <1>2, <1>4, <1>5
  <2>2. up' = up
    <3>1. up' = Drop(up, 0)
      BY <1>4, <2>1
    <3>2. Drop(up, 0) = SubSeq(up, 1, Len(up))
      BY DEF Drop
    <3> QED
      BY <1>1, <3>1, <3>2, SubSeqFull DEF Word
  <2>3. down' = down
    <3>1. Writable(client) \in Word(Octets)
      BY <1>1, TypedFacts, BacklogFacts
    <3>2. Take(Writable(client), 0) = << >>
      <4>1. /\ Take(Writable(client), 0) \in Word(Octets)
            /\ Len(Take(Writable(client), 0)) = 0
        <5>1. Len(Writable(client)) \in Nat /\ 0 \in Nat
          BY <3>1, WordFacts
        <5> QED
          BY <3>1, <5>1, TakeFacts
      <4> QED
        BY <4>1, WordFacts
    <3> QED
      BY <1>1, <1>2, <2>1, <3>2, WordFacts
  <2>4. c = IF "w" \notin event THEN client ELSE Close(client, "io")
    BY <1>3, <1>5
  <2>5. Close(client, "io").end = "io"
    BY DEF Close, IInv, Typed, Clients
  <2>6. Close(c, "io").end = "io"
    <3>1. c \in Clients
      <4>1. "io" \in Causes /\ client \in Clients
        BY <1>1 DEF Causes, Typed
      <4> QED
        BY <2>4, <4>1, CloseFacts
    <3> QED
      BY <3>1 DEF Close, Clients
  <2>7. d = IF "r" \in event /\ c.end = "open" THEN Close(c, "io") ELSE c
    BY <1>4, <1>5
  <2>8. d.end = "io" /\ d \in {c, Close(c, "io")} /\ c \in {client, Close(client, "io")}
    <3>1. CASE "w" \in event
      BY <2>4, <2>5, <2>7, <3>1
    <3>2. CASE "w" \notin event
      <4>1. "r" \in event
        BY <1>1, <3>2
      <4> QED
        BY <1>1, <2>4, <2>6, <2>7, <3>2, <4>1
    <3> QED
      BY <3>1, <3>2
  <2>9. client' = d
    BY <1>4, <2>8
  <2> QED
    BY <1>1, <1>2, <1>5, <2>2, <2>3, <2>8, <2>9, ReadyBroken
<1>6. CASE ~broken
  <2>1. ~cut
    BY <1>2, <1>6
  <2>2. IF "w" \in event /\ Writable(client) # <<>>
        THEN n \in 1 .. Least(SocketCapacity - Len(down), Len(Writable(client)))
        ELSE n = 0
    BY <1>2, <1>6
  <2>3. c = IF "w" \notin event THEN client ELSE ProcessSend(client, n)
    BY <1>3, <1>6
  <2>4. c.end = "open"
    BY <1>1, <2>2, <2>3, SendingFacts
  <2>5. bytes = IF "r" \in event THEN Take(up, Room(c)) ELSE << >>
    BY <1>4, <1>6, <2>4
  <2>6. d = IF "r" \in event THEN ProcessReceive(c, bytes) ELSE c
    BY <1>4, <1>6, <2>4
  <2> QED
    BY <1>1, <1>2, <1>4, <2>1, <2>2, <2>3, <2>5, <2>6, ReadyWorks
<1> QED
  BY <1>5, <1>6

\* The device offers one packet, or none.
LEMMA OfferedFacts ==
    ASSUME Typed, NEW ps \in Offered
    PROVE  Len(ps) \in Nat /\ (ps # << >> => ps[1] \in Sized)
<1>1. ps = << >> \/ \E k \in Kinds, m \in Lengths : ps = <<Packet(k, m, traffic.up + 1)>>
  BY DEF Offered
<1>2. ASSUME NEW k \in Kinds, NEW m \in Lengths
      PROVE  Packet(k, m, traffic.up + 1) \in Sized
  <2>1. m \in 1 .. MaxPacket /\ traffic.up + 1 \in Nat
    BY LengthsAssumption DEF Typed
  <2> QED
    BY <2>1 DEF Packet, Sized, Packets, AnyKind
<1> QED
  BY <1>1, <1>2

\* What reading the TUN device adds, on both sides.
LEMMA PassReads ==
    ASSUME Typed, NEW ps \in Offered, ps # << >> => AsksTun(tunnel),
           Len(tunnel.outbound) < MaxQueue,
           NEW a, a = IF ps = << >> THEN tunnel ELSE TunRead(tunnel, ps[1])
    PROVE  /\ Sound(a) /\ a.phase = tunnel.phase /\ a.incoming = tunnel.incoming
           /\ a.error = tunnel.error /\ a.written = tunnel.written
           /\ Len(a.outbound) < MaxQueue
           /\ \E more \in Word(Sized) : /\ a.sent = Cat(tunnel.sent, more)
                                        /\ Unsent(a) = Cat(Unsent(tunnel), Stream(more))
           /\ \E replies \in Word(Held) : /\ a.packets = Cat(tunnel.packets, replies)
                                          /\ FromRelay(replies) = << >>
           /\ \/ a.queuedBytes = tunnel.queuedBytes
              \/ /\ tunnel.queuedBytes + MaxPacket < MaxQueue
                 /\ a.queuedBytes = tunnel.queuedBytes + ReplyLength
<1>1. /\ Sound(tunnel) /\ tunnel.sent \in Word(Sized) /\ tunnel.packets \in Word(Held)
      /\ Unsent(tunnel) \in Word(Octets) /\ tunnel.queuedBytes = Size(tunnel.packets)
      /\ << >> \in Word(Sized) /\ << >> \in Word(Held)
      /\ Cat(tunnel.sent, << >>) = tunnel.sent /\ Cat(tunnel.packets, << >>) = tunnel.packets
      /\ Cat(Unsent(tunnel), << >>) = Unsent(tunnel)
      /\ Stream(<< >>) = << >> /\ FromRelay(<< >>) = << >>
  BY TypedFacts, WordFacts, StreamFacts, FromRelayFacts DEF Typed, Sound
<1>2. ASSUME a.sent = tunnel.sent, Unsent(a) = Unsent(tunnel)
      PROVE  \E more \in Word(Sized) : /\ a.sent = Cat(tunnel.sent, more)
                                       /\ Unsent(a) = Cat(Unsent(tunnel), Stream(more))
  BY <1>1, <1>2
<1>3. ASSUME a.packets = tunnel.packets
      PROVE  \E replies \in Word(Held) : /\ a.packets = Cat(tunnel.packets, replies)
                                         /\ FromRelay(replies) = << >>
  BY <1>1, <1>3
<1>4. CASE ps = << >>
  <2>1. a = tunnel
    BY <1>4
  <2> QED
    BY <1>1, <1>2, <1>3, <2>1
<1>5. CASE ps # << >>
  <2>0. Sound(tunnel)
    BY <1>1
  <2>1. PICK p \in Sized : p = ps[1]
    BY <1>5, OfferedFacts
  <2>2. a = TunRead(tunnel, p)
    BY <1>5, <2>1
  <2>3. /\ Sound(a) /\ a.phase = tunnel.phase /\ a.incoming = tunnel.incoming
        /\ a.error = tunnel.error /\ a.written = tunnel.written
        /\ a.queuedBytes = Size(a.packets)
    <3>1. /\ Sound(a) /\ a.phase = tunnel.phase /\ a.incoming = tunnel.incoming
          /\ a.error = tunnel.error /\ a.written = tunnel.written
      BY <2>0, <2>2, TunReadFacts, ZenonT(30)
    <3> QED
      BY <3>1 DEF Sound
  <2>4. \/ /\ a.packets = tunnel.packets
           /\ a.sent = tunnel.sent /\ a.outbound = tunnel.outbound /\ Unsent(a) = Unsent(tunnel)
        \/ /\ tunnel.queuedBytes + MaxPacket < MaxQueue
           /\ \E r \in Held : /\ r.kind # "flow" /\ r.length = ReplyLength
                              /\ a.packets = Cat(tunnel.packets, << r >>)
           /\ a.sent = tunnel.sent /\ a.outbound = tunnel.outbound /\ Unsent(a) = Unsent(tunnel)
        \/ /\ a.packets = tunnel.packets
           /\ a.sent = Cat(tunnel.sent, << p >>)
           /\ a.outbound = Cat(Unsent(tunnel), Bytes(p)) /\ Unsent(a) = a.outbound
    <3> DEFINE Read(d) ==
            \/ /\ d.packets = tunnel.packets
               /\ d.sent = tunnel.sent /\ d.outbound = tunnel.outbound
               /\ Unsent(d) = Unsent(tunnel)
            \/ /\ tunnel.queuedBytes + MaxPacket < MaxQueue
               /\ \E r \in Held : /\ r.kind # "flow" /\ r.length = ReplyLength
                                  /\ d.packets = Cat(tunnel.packets, << r >>)
               /\ d.sent = tunnel.sent /\ d.outbound = tunnel.outbound
               /\ Unsent(d) = Unsent(tunnel)
            \/ /\ d.packets = tunnel.packets
               /\ d.sent = Cat(tunnel.sent, << p >>)
               /\ d.outbound = Cat(Unsent(tunnel), Bytes(p)) /\ Unsent(d) = d.outbound
    <3>1. Read(TunRead(tunnel, p))
      BY <2>0, TunReadFacts
    <3>2. Read(a)
      <4> HIDE DEF Read
      <4> QED
        BY <2>2, <3>1
    <3> QED
      BY <3>2
  <2>5. CASE /\ a.packets = tunnel.packets
             /\ a.sent = tunnel.sent /\ a.outbound = tunnel.outbound /\ Unsent(a) = Unsent(tunnel)
    <3>1. a.queuedBytes = tunnel.queuedBytes
      BY <1>1, <2>3, <2>5
    <3> QED
      BY <1>2, <1>3, <2>3, <2>5, <3>1
  <2>6. CASE /\ tunnel.queuedBytes + MaxPacket < MaxQueue
             /\ \E r \in Held : /\ r.kind # "flow" /\ r.length = ReplyLength
                                /\ a.packets = Cat(tunnel.packets, << r >>)
             /\ a.sent = tunnel.sent /\ a.outbound = tunnel.outbound /\ Unsent(a) = Unsent(tunnel)
    <3>1. PICK r \in Held : /\ r.kind # "flow" /\ r.length = ReplyLength
                            /\ a.packets = Cat(tunnel.packets, << r >>)
      BY <2>6
    <3>2. << r >> \in Word(Held) /\ r \in Packets /\ tunnel.packets \in Word(Packets)
      BY <1>1, AppendFacts, FlowFacts
    <3>3. FromRelay(<< r >>) = << >>
      <4>1. FromRelay(Cat(<< >>, << r >>)) = FromRelay(<< >>)
        BY <1>1, <3>1, FromRelayFacts
      <4>2. Cat(<< >>, << r >>) = << r >>
        BY <3>2, WordFacts
      <4> QED
        BY <1>1, <4>1, <4>2
    <3>4. a.queuedBytes = tunnel.queuedBytes + ReplyLength
      BY <1>1, <2>3, <3>1, <3>2, SizeFacts
    <3>5. \E replies \in Word(Held) : /\ a.packets = Cat(tunnel.packets, replies)
                                      /\ FromRelay(replies) = << >>
      BY <3>1, <3>2, <3>3
    <3> QED
      BY <1>2, <2>3, <2>6, <3>4, <3>5
  <2>7. CASE /\ a.packets = tunnel.packets
             /\ a.sent = Cat(tunnel.sent, << p >>)
             /\ a.outbound = Cat(Unsent(tunnel), Bytes(p)) /\ Unsent(a) = a.outbound
    <3>1. /\ << p >> \in Word(Sized) /\ p \in Packets
      BY SizedFacts, AppendFacts
    <3>2. /\ Stream(<< p >>) = Bytes(p) /\ Bytes(p) \in Word(Octets)
          /\ Len(Bytes(p)) = p.length /\ p.length \in 1 .. MaxPacket
      BY <3>1, StreamFacts, BytesFacts
    <3>3. Len(a.outbound) = Len(Unsent(tunnel)) + Len(Bytes(p)) /\ Len(Unsent(tunnel)) \in Nat
      <4>1. Unsent(tunnel) \in Word(Octets)
        BY <1>1
      <4>2. Len(Cat(Unsent(tunnel), Bytes(p))) = Len(Unsent(tunnel)) + Len(Bytes(p))
        BY <3>2, <4>1, CatFacts
      <4>3. Len(Unsent(tunnel)) \in Nat
        BY <4>1, WordFacts
      <4> QED
        BY <2>7, <4>2, <4>3, Zenon
    <3>4. Len(Unsent(tunnel)) < MaxQueue - MaxPacket
      BY <1>5 DEF AsksTun
    <3>5. Len(a.outbound) < MaxQueue
      BY <3>2, <3>3, <3>4, BuffersAssumption
    <3>6. a.queuedBytes = tunnel.queuedBytes
      BY <1>1, <2>3, <2>7
    <3>7. \E more \in Word(Sized) : /\ a.sent = Cat(tunnel.sent, more)
                                    /\ Unsent(a) = Cat(Unsent(tunnel), Stream(more))
      BY <2>7, <3>1, <3>2
    <3> QED
      BY <1>3, <2>3, <2>7, <3>5, <3>6, <3>7
  <2> QED
    BY <2>4, <2>5, <2>6, <2>7
<1> QED
  BY <1>4, <1>5

\* One pass of Run: what it reads from the device goes behind what is unsent, what
\* it sends moves to the socket, what it receives goes to the queue, whose front
\* goes to the device.
LEMMA PassStep ==
    ASSUME IInv, NEW ps \in Offered, NEW n \in 0 .. SocketCapacity, NEW w \in BOOLEAN,
           Pass(ps, n, w)
    PROVE  IInv'
<1>1. /\ tunnel.phase = "running" /\ ~cut /\ UNCHANGED <<cut, client, event>>
      /\ ps # << >> => AsksTun(tunnel)
      /\ traffic' = [traffic EXCEPT !.up = @ + Len(ps)]
      /\ Typed /\ Sound(tunnel) /\ ~Ended /\ tunnel.error = "none"
      /\ Len(tunnel.outbound) < MaxQueue
      /\ up \in Word(Octets) /\ down \in Word(Octets) /\ Len(up) \in Nat
      /\ Len(up) <= SocketCapacity /\ Len(down) <= SocketCapacity
  BY TypedFacts DEF Pass, IInv, Emptied, Ended, QueuesBounded, Typed
<1>2. PICK a : a = IF ps = << >> THEN tunnel ELSE TunRead(tunnel, ps[1])
  OBVIOUS
<1>3. /\ Sound(a) /\ a.phase = tunnel.phase /\ a.incoming = tunnel.incoming
      /\ a.error = tunnel.error /\ a.written = tunnel.written
      /\ Len(a.outbound) < MaxQueue
      /\ \/ a.queuedBytes = tunnel.queuedBytes
         \/ /\ tunnel.queuedBytes + MaxPacket < MaxQueue
            /\ a.queuedBytes = tunnel.queuedBytes + ReplyLength
  BY <1>1, <1>2, PassReads
<1>4. PICK more \in Word(Sized) : /\ a.sent = Cat(tunnel.sent, more)
                                  /\ Unsent(a) = Cat(Unsent(tunnel), Stream(more))
  BY <1>1, <1>2, PassReads
<1>5. PICK replies \in Word(Held) : /\ a.packets = Cat(tunnel.packets, replies)
                                    /\ FromRelay(replies) = << >>
  BY <1>1, <1>2, PassReads
<1>6. PICK bytes : bytes = IF AsksSocket(tunnel) THEN Take(down, MaxPacket) ELSE << >>
  OBVIOUS
<1>7. PICK b : b = IF n = 0 THEN a ELSE Send(a, n)
  OBVIOUS
<1>8. PICK c : c = Receive(b, bytes)
  OBVIOUS
<1>9. /\ IF Unsent(tunnel) # <<>> /\ Len(up) < SocketCapacity
         THEN n \in 1 .. Least(SocketCapacity - Len(up), Len(Unsent(a)))
         ELSE n = 0
      /\ up' = Cat(up, Take(Unsent(a), n))
      /\ down' = Drop(down, Len(bytes))
      /\ tunnel' = IF c.error # "none" THEN Ends(c, c.error)
                   ELSE IF w /\ tunnel.packets # <<>> THEN TunWrite(c) ELSE c
  BY <1>2, <1>6, <1>7, <1>8 DEF Pass, Cat
\* What the pass sends.
<1>10. /\ Unsent(a) \in Word(Octets) /\ Len(Unsent(a)) \in Nat
       /\ n \in 0 .. Len(Unsent(a)) /\ Len(up) + n <= SocketCapacity
  <2>1. Unsent(a) \in Word(Octets) /\ Len(Unsent(a)) \in Nat
    BY <1>3, UnsentFacts, WordFacts
  <2>2. SocketCapacity \in Nat /\ Len(up) \in Nat /\ Len(up) <= SocketCapacity
    BY <1>1, BuffersAssumption
  <2>3. CASE Unsent(tunnel) # <<>> /\ Len(up) < SocketCapacity
    <3>1. n \in 1 .. Least(SocketCapacity - Len(up), Len(Unsent(a)))
      BY <1>9, <2>3
    <3> QED
      BY <2>1, <2>2, <3>1 DEF Least
  <2>4. CASE ~(Unsent(tunnel) # <<>> /\ Len(up) < SocketCapacity)
    <3>1. n = 0
      BY <1>9, <2>4
    <3> QED
      BY <2>1, <2>2, <3>1
  <2> QED
    BY <2>3, <2>4
<1>11. PICK sent \in Word(Octets) : sent = Take(Unsent(a), n) /\ Len(sent) = n
  BY <1>10, CutFacts
<1>12. /\ Sound(b) /\ SameInbound(a, b) /\ b.sent = a.sent
       /\ Len(b.outbound) <= Len(a.outbound)
       /\ Cat(sent, Unsent(b)) = Unsent(a)
  <2>1. CASE n = 0
    <3>1. sent = << >> /\ b = a
      BY <1>7, <1>11, <2>1, WordFacts
    <3>2. Cat(<< >>, Unsent(a)) = Unsent(a)
      BY <1>10, WordFacts
    <3>3. Len(a.outbound) \in Nat
      BY <1>3, UnsentFacts
    <3> QED
      BY <1>3, <3>1, <3>2, <3>3 DEF SameInbound
  <2>2. CASE n # 0
    <3>1. b = Send(a, n)
      BY <1>7, <2>2
    <3> QED
      BY <1>3, <1>10, <1>11, <3>1, SendFacts
  <2> QED
    BY <2>1, <2>2
\* What the pass receives.
<1>13. PICK x \in Word(Octets) :
         /\ bytes \in Word(Octets) /\ down = Cat(bytes, x) /\ down' = x
         /\ Len(bytes) \in Nat /\ Len(bytes) <= MaxPacket
         /\ bytes = << >> \/ AsksSocket(tunnel)
  <2>1. CASE AsksSocket(tunnel)
    <3>1. bytes = Take(down, MaxPacket) /\ MaxPacket \in Nat
      BY <1>6, <2>1, BuffersAssumption
    <3>2. /\ bytes \in Word(Octets) /\ Drop(down, Len(bytes)) \in Word(Octets)
          /\ Cat(bytes, Drop(down, Len(bytes))) = down
          /\ Len(bytes) = IF MaxPacket <= Len(down) THEN MaxPacket ELSE Len(down)
      BY <1>1, <3>1, TakeFacts
    <3>3. Len(bytes) \in Nat /\ Len(down) \in Nat
      BY <1>1, <3>2, WordFacts
    <3>4. Len(bytes) <= MaxPacket
      BY <3>1, <3>2, <3>3
    <3> QED
      BY <1>9, <2>1, <3>2, <3>3, <3>4
  <2>2. CASE ~AsksSocket(tunnel)
    <3>1. bytes = << >> /\ Len(<< >>) = 0 /\ << >> \in Word(Octets) /\ Cat(<< >>, down) = down
      BY <1>1, <1>6, <2>2, WordFacts
    <3>2. Drop(down, Len(bytes)) = down
      <4>1. Drop(down, Len(bytes)) = Drop(down, 0)
        BY <3>1
      <4>2. Drop(down, 0) = SubSeq(down, 1, Len(down))
        BY DEF Drop
      <4> QED
        BY <1>1, <4>1, <4>2, SubSeqFull DEF Word
    <3>3. Len(bytes) \in Nat /\ Len(bytes) <= MaxPacket
      BY <3>1, BuffersAssumption
    <3> QED
      BY <1>1, <1>9, <3>1, <3>2, <3>3
  <2> QED
    BY <2>1, <2>2
<1>14. PICK later \in Word(Flow) : DownRest(later)
  BY DEF IInv, Downlink
<1>15. PICK t \in Word(Octets) :
         /\ Cat(Cat(tunnel.incoming, down), t) = Stream(later)
         /\ ~Closed => t = Backlog(client)
  <2>1. PICK t \in Word(Octets) :
          /\ Cat(Cat(tunnel.incoming, down), t) = Cat(Ahead(tunnel), Stream(later))
          /\ ~Closed => t = Backlog(client)
    BY <1>1, <1>14 DEF DownRest
  <2>2. Ahead(tunnel) = << >> /\ Stream(later) \in Word(Octets)
    BY <1>1, FlowFacts, StreamFacts DEF Ahead
  <2>3. Cat(<< >>, Stream(later)) = Stream(later)
    BY <2>2, WordFacts
  <2> QED
    BY <2>1, <2>2, <2>3
<1>16. PICK u \in Word(Octets) : u = Cat(x, t)
  BY CatFacts
<1>17. b.incoming = tunnel.incoming /\ tunnel.incoming \in Word(Octets)
       /\ Len(tunnel.incoming) \in Nat
  BY <1>1, <1>3, <1>12, TypedFacts DEF SameInbound
<1>18. Cat(Cat(b.incoming, bytes), u) = Stream(later)
  <2>1. Cat(Cat(tunnel.incoming, Cat(bytes, x)), t) = Cat(Cat(tunnel.incoming, bytes), Cat(x, t))
    BY <1>13, <1>17, Regroup
  <2> QED
    BY <1>13, <1>15, <1>16, <1>17, <2>1
<1>19. /\ Sound(c) /\ SameOutbound(b, c) /\ c.written = b.written /\ c.error = b.error
       /\ c.queuedBytes + Len(c.incoming) = b.queuedBytes + Len(b.incoming) + Len(bytes)
  BY <1>8, <1>12, <1>13, <1>18, ReceiveFacts
<1>20. PICK front \in Word(Flow), rest \in Word(Flow) :
         /\ later = Cat(front, rest) /\ c.packets = Cat(b.packets, front)
         /\ Cat(c.incoming, u) = Stream(rest) /\ Partial(c.incoming, rest)
  BY <1>8, <1>12, <1>13, <1>18, ReceiveFacts
<1>21. PICK d : d = tunnel'
  OBVIOUS
<1>22. c.packets = Cat(Cat(tunnel.packets, replies), front)
       /\ tunnel.packets \in Word(Held) /\ front \in Word(Held)
       /\ Cat(tunnel.packets, replies) \in Word(Held) /\ tunnel.written \in Word(Held)
       /\ c.written = tunnel.written
  <2>1. tunnel.packets \in Word(Held) /\ front \in Word(Held) /\ tunnel.written \in Word(Held)
    BY <1>1, TypedFacts, FlowFacts
  <2>2. Cat(tunnel.packets, replies) \in Word(Held)
    BY <2>1, CatFacts
  <2>3. b.packets = a.packets /\ b.written = a.written
    BY <1>12 DEF SameInbound
  <2> QED
    BY <1>3, <1>5, <1>19, <1>20, <2>1, <2>2, <2>3
<1>23. tunnel.packets # << >> => c.packets # << >>
  <2>1. ASSUME c.packets = << >>
        PROVE  tunnel.packets = << >>
    <3>1. /\ Len(c.packets) = Len(Cat(tunnel.packets, replies)) + Len(front)
          /\ Len(Cat(tunnel.packets, replies)) = Len(tunnel.packets) + Len(replies)
      BY <1>22, CatFacts
    <3>2. Len(tunnel.packets) \in Nat /\ Len(replies) \in Nat /\ Len(front) \in Nat
      BY <1>22, WordFacts
    <3>3. Len(c.packets) = 0
      BY <2>1
    <3>4. Len(tunnel.packets) = 0
      BY <3>1, <3>2, <3>3
    <3> QED
      BY <1>22, <3>4, WordFacts
  <2> QED
    BY <2>1
<1>24. /\ Sound(d) /\ SameOutbound(c, d) /\ d.error = "none" /\ d.incoming = c.incoming
       /\ d.queuedBytes <= c.queuedBytes
       /\ Cat(d.written, d.packets) = Cat(c.written, c.packets)
  <2>1. c.error = "none"
    BY <1>1, <1>3, <1>12, <1>19 DEF SameInbound
  <2>2. CASE w /\ tunnel.packets # << >>
    <3>1. d = TunWrite(c) /\ c.packets # << >>
      BY <1>9, <1>21, <1>23, <2>1, <2>2
    <3> QED
      BY <1>19, <2>1, <3>1, TunWriteFacts
  <2>3. CASE ~(w /\ tunnel.packets # << >>)
    <3>1. d = c
      BY <1>9, <1>21, <2>1, <2>3
    <3>2. c.queuedBytes \in Nat
      BY <1>19 DEF Sound, Tunnels
    <3> QED
      BY <1>19, <2>1, <3>1, <3>2 DEF SameOutbound
  <2> QED
    BY <2>2, <2>3
<1>25. /\ d.phase = "running" /\ d.sent = Cat(tunnel.sent, more) /\ Unsent(d) = Unsent(b)
       /\ d.outbound = b.outbound
  <2>1. /\ c.phase = b.phase /\ c.outbound = b.outbound /\ c.sendOffset = b.sendOffset
        /\ c.sent = b.sent /\ d.phase = c.phase /\ d.outbound = c.outbound
        /\ d.sendOffset = c.sendOffset /\ d.sent = c.sent /\ b.phase = a.phase
    BY <1>12, <1>19, <1>24 DEF SameOutbound, SameInbound
  <2> QED
    BY <1>1, <1>3, <1>4, <1>12, <2>1 DEF Unsent
<1>26. /\ tunnel' = d /\ client' = client /\ event' = event /\ cut' = cut /\ ~cut'
       /\ up' = Cat(up, sent) /\ down' = x
       /\ (Closed' <=> Closed) /\ ~Ended' /\ ~Ended /\ ~Gone /\ ~Gone'
  BY <1>1, <1>9, <1>11, <1>13, <1>21, <1>25 DEF Closed, Ended, Gone
<1>27. Cat(up, sent) \in Word(Octets) /\ Len(Cat(up, sent)) = Len(up) + n
  BY <1>1, <1>11, CatFacts
<1>28. Typed'
  <2>1. Len(Cat(up, sent)) <= SocketCapacity
    BY <1>10, <1>27
  <2>2. Len(x) <= SocketCapacity
    <3>1. Len(down) = Len(bytes) + Len(x) /\ Len(x) \in Nat
      BY <1>13, CatFacts, WordFacts
    <3> QED
      BY <1>1, <1>13, <3>1, BuffersAssumption
  <2>3. traffic' \in [up : Nat, down : Nat]
    BY <1>1, OfferedFacts DEF Typed
  <2> QED
    BY <1>1, <1>24, <1>26, <1>27, <2>1, <2>2, <2>3 DEF Typed
<1>29. Uplink'
  <2>1. PICK old \in Word(Sized) : UpRest(old)
    BY DEF IInv, Uplink
  <2>2. PICK new \in Word(Sized) : new = Cat(old, more)
    BY CatFacts
  <2>3. /\ client.pushed \in Word(Sized) /\ client.toNetwork \in Word(Octets)
        /\ Unsent(tunnel) \in Word(Octets) /\ Unsent(b) \in Word(Octets)
        /\ Stream(old) \in Word(Octets) /\ Stream(more) \in Word(Octets)
        /\ Stream(new) = Cat(Stream(old), Stream(more))
    <3>1. Stream(old) \in Word(Octets) /\ Stream(more) \in Word(Octets)
          /\ Stream(new) = Cat(Stream(old), Stream(more))
      BY <2>2, SizedFacts, StreamFacts
    <3> QED
      BY <1>1, <1>12, <3>1, TypedFacts, UnsentFacts
  <2>4. d.sent = Cat(client.pushed, new)
    BY <1>25, <2>1, <2>2, <2>3, CatAssociative DEF UpRest
  <2>5. ~Closed => Partial(client.toNetwork, new)
    BY <2>1, <2>2, <2>3, PartialFacts DEF UpRest
  <2>6. ASSUME ~Closed
        PROVE  Cat(Cat(client.toNetwork, Cat(up, sent)), Unsent(b)) = Stream(new)
    <3>1. Cat(Cat(client.toNetwork, up), Unsent(tunnel)) = Stream(old)
      BY <1>1, <2>1, <2>6 DEF UpRest
    <3>2. Cat(Cat(client.toNetwork, Cat(up, sent)), Unsent(b))
            = Cat(Cat(client.toNetwork, up), Cat(sent, Unsent(b)))
      <4>1. /\ client.toNetwork \in Word(Octets) /\ up \in Word(Octets)
            /\ sent \in Word(Octets) /\ Unsent(b) \in Word(Octets)
        BY <1>1, <1>11, <2>3
      <4>2. PICK behind \in Word(Octets) : behind = Unsent(b)
        BY <4>1
      <4>3. Cat(Cat(client.toNetwork, Cat(up, sent)), behind)
              = Cat(Cat(client.toNetwork, up), Cat(sent, behind))
        BY <4>1, Regroup
      <4> QED
        BY <4>2, <4>3
    <3>3. Cat(client.toNetwork, up) \in Word(Octets)
      BY <1>1, <2>3, CatFacts
    <3>4. Cat(Cat(client.toNetwork, up), Cat(Unsent(tunnel), Stream(more)))
            = Cat(Cat(Cat(client.toNetwork, up), Unsent(tunnel)), Stream(more))
      BY <2>3, <3>3, CatAssociative
    <3> QED
      BY <1>4, <1>12, <2>3, <3>1, <3>2, <3>4
  <2>7. UpRest(new)'
    BY <1>25, <1>26, <2>3, <2>4, <2>5, <2>6 DEF UpRest
  <2> QED
    BY <2>7 DEF Uplink
<1>30. Downlink'
  <2>1. client.produced = Cat(FromRelay(Cat(d.written, d.packets)), rest)
    <3>1. /\ FromRelay(tunnel.written) \in Word(Flow) /\ FromRelay(tunnel.packets) \in Word(Flow)
          /\ FromRelay(front) = front
      BY <1>22, FromRelayFacts
    <3>2. FromRelay(c.packets) = Cat(FromRelay(tunnel.packets), front)
      <4>1. FromRelay(c.packets) = Cat(FromRelay(Cat(tunnel.packets, replies)), front)
        BY <1>22, <3>1, FromRelayFacts
      <4>2. FromRelay(Cat(tunnel.packets, replies)) = Cat(FromRelay(tunnel.packets), << >>)
        BY <1>5, <1>22, FromRelayFacts
      <4>3. Cat(FromRelay(tunnel.packets), << >>) = FromRelay(tunnel.packets)
        BY <3>1, WordFacts
      <4> QED
        BY <4>1, <4>2, <4>3
    <3>3. c.packets \in Word(Held)
      BY <1>22, CatFacts
    <3>4. FromRelay(Cat(d.written, d.packets)) = Cat(FromRelay(tunnel.written), FromRelay(c.packets))
      <4>1. Cat(d.written, d.packets) = Cat(tunnel.written, c.packets)
        BY <1>22, <1>24
      <4> QED
        BY <1>22, <3>3, <4>1, FromRelayFacts
    <3>5. FromRelay(Cat(tunnel.written, tunnel.packets))
            = Cat(FromRelay(tunnel.written), FromRelay(tunnel.packets))
      BY <1>22, FromRelayFacts
    <3>6. client.produced
            = Cat(Cat(FromRelay(tunnel.written), FromRelay(tunnel.packets)), Cat(front, rest))
      BY <1>14, <1>20, <3>5 DEF DownRest
    <3>7. Cat(Cat(FromRelay(tunnel.written), Cat(FromRelay(tunnel.packets), front)), rest)
            = Cat(Cat(FromRelay(tunnel.written), FromRelay(tunnel.packets)), Cat(front, rest))
      BY <3>1, Regroup
    <3> QED
      BY <3>2, <3>4, <3>6, <3>7
  <2>2. Cat(Cat(d.incoming, x), t) = Cat(Ahead(d), Stream(rest))
    <3>1. d.incoming = c.incoming /\ c.incoming \in Word(Octets) /\ Stream(rest) \in Word(Octets)
      BY <1>19, <1>24, FlowFacts, StreamFacts DEF Sound, Tunnels
    <3>2. Ahead(d) = << >> /\ Cat(<< >>, Stream(rest)) = Stream(rest)
      BY <1>25, <3>1, WordFacts DEF Ahead
    <3>3. Cat(Cat(c.incoming, x), t) = Cat(c.incoming, Cat(x, t))
      BY <3>1, CatAssociative
    <3> QED
      BY <1>16, <1>20, <3>1, <3>2, <3>3
  <2>3. Partial(d.incoming, rest)
    BY <1>20, <1>24
  <2>4. DownRest(rest)'
    BY <1>15, <1>26, <2>1, <2>2, <2>3 DEF DownRest
  <2> QED
    BY <2>4 DEF Downlink
<1>31. Handshake'
  <2>1. ~cut /\ ~Closed /\ client.idBytes > 0 => tunnel.phase # "running"
    BY DEF IInv, Handshake
  <2> QED
    BY <1>1, <1>25, <1>26, <2>1 DEF Handshake
<1>32. Readiness' /\ Emptied'
  <2>1. "r" \in event => up # << >>
    BY <1>26 DEF IInv, Readiness
  <2>2. "r" \in event => Cat(up, sent) # << >>
    <3>1. up # << >> => Len(up) > 0
      BY <1>1, WordFacts
    <3>2. Len(Cat(up, sent)) = 0 => Len(up) = 0
      BY <1>1, <1>10, <1>27
    <3>3. Len(<< >>) = 0
      OBVIOUS
    <3> QED
      BY <2>1, <3>1, <3>2, <3>3
  <2> QED
    BY <1>24, <1>26, <2>2 DEF IInv, Readiness, Emptied
<1>33. QueuesBounded'
  <2>1. Len(d.outbound) < MaxQueue
    <3>1. Len(a.outbound) \in Nat /\ Len(b.outbound) \in Nat
      BY <1>3, <1>12, UnsentFacts
    <3> QED
      BY <1>3, <1>12, <1>25, <3>1, BuffersAssumption
  <2>2. d.queuedBytes = Size(d.packets)
    BY <1>24 DEF Sound
  <2>3. Len(tunnel.incoming) < MaxPacket
    BY <1>1, <1>14, <1>17, FlowFacts, PartialFacts DEF DownRest
  <2>4. tunnel.queuedBytes \in Nat /\ d.queuedBytes \in Nat /\ c.queuedBytes \in Nat
        /\ Len(c.incoming) \in Nat
    BY <1>1, <1>19, <1>24, WordFacts DEF Sound, Tunnels
  <2>5. tunnel.queuedBytes + Len(tunnel.incoming) < MaxQueue + ReplyLength
    BY DEF IInv, QueuesBounded
  <2>6. bytes # << >> => tunnel.queuedBytes + Len(tunnel.incoming) < MaxQueue - MaxPacket
    BY <1>13 DEF AsksSocket
  <2>7. a.queuedBytes + Len(tunnel.incoming) + Len(bytes) < MaxQueue + ReplyLength
    <3> DEFINE q == tunnel.queuedBytes
               i == Len(tunnel.incoming)
               j == Len(bytes)
               k == a.queuedBytes
    <3>1. /\ q \in Nat /\ i \in Nat /\ j \in Nat /\ j <= MaxPacket /\ i < MaxPacket
          /\ q + i < MaxQueue + ReplyLength
          /\ k = q \/ (q + MaxPacket < MaxQueue /\ k = q + ReplyLength)
      BY <1>3, <1>13, <1>17, <2>3, <2>4, <2>5
    <3>2. j = 0 \/ q + i < MaxQueue - MaxPacket
      BY <2>6
    <3>3. MaxQueue \in Nat /\ MaxPacket \in Nat /\ ReplyLength \in Nat /\ ReplyLength > 0
          /\ ReplyLength <= MaxPacket
      BY BuffersAssumption, LengthsAssumption
    <3> HIDE DEF q, i, j, k
    <3> QED
      <4>1. k + i + j < MaxQueue + ReplyLength
        BY <3>1, <3>2, <3>3
      <4> QED
        BY <4>1 DEF k, i, j
  <2>8. b.queuedBytes = a.queuedBytes
    BY <1>12 DEF SameInbound
  <2>9. c.queuedBytes + Len(c.incoming) < MaxQueue + ReplyLength
    BY <1>17, <1>19, <2>7, <2>8
  <2>10. d.queuedBytes + Len(d.incoming) < MaxQueue + ReplyLength
    <3>1. d.queuedBytes <= c.queuedBytes /\ d.incoming = c.incoming
      BY <1>24
    <3>2. MaxQueue + ReplyLength \in Nat
      BY BuffersAssumption, LengthsAssumption
    <3> QED
      BY <2>4, <2>9, <3>1, <3>2
  <2> QED
    BY <1>26, <2>1, <2>2, <2>10 DEF QueuesBounded
<1>34. FramingHolds' /\ EofIsReal'
  <2>1. client.end = "malformed" => \E i \in DOMAIN d.sent : d.sent[i].kind = "bad"
    <3>1. client.end = "malformed" => \E i \in DOMAIN tunnel.sent : tunnel.sent[i].kind = "bad"
      BY DEF IInv, FramingHolds
    <3>2. tunnel.sent \in Word(Sized)
      BY <1>1, TypedFacts
    <3> QED
      BY <1>25, <3>1, <3>2, BadFacts
  <2>2. client.end # "eof"
    BY <1>26 DEF IInv, EofIsReal
  <2> QED
    BY <1>24, <1>26, <2>1, <2>2 DEF FramingHolds, EofIsReal
<1> QED
  BY <1>28, <1>29, <1>30, <1>31, <1>32, <1>33, <1>34 DEF IInv

\* Every step preserves the invariant.
LEMMA StepInv == IInv /\ [Next]_vars => IInv'
<1> SUFFICES ASSUME IInv, [Next]_vars PROVE IInv'
  OBVIOUS
<1>1. CASE Connect
  BY <1>1, ConnectStep
<1>2. CASE ConnectFails
  <2>1. /\ tunnel' = Ends(tunnel, "io") /\ "io" \in Errors
        /\ UNCHANGED <<up, down, cut, client, event, traffic>>
    BY <1>2 DEF ConnectFails, Errors
  <2> QED
    BY <2>1, EndStep
<1>3. CASE TunnelPass
  <2>1. PICK ps \in Offered, n \in 0 .. SocketCapacity, w \in BOOLEAN : Pass(ps, n, w)
    BY <1>3 DEF TunnelPass
  <2> QED
    BY <2>1, PassStep
<1>4. CASE TunnelReset
  <2>1. /\ tunnel' = Ends(tunnel, "reset") /\ "reset" \in Errors
        /\ UNCHANGED <<up, down, cut, client, event, traffic>>
    BY <1>4 DEF TunnelReset, Errors
  <2> QED
    BY <2>1, EndStep
<1>5. CASE TunnelError
  <2>1. /\ tunnel' = Ends(tunnel, "io") /\ "io" \in Errors
        /\ UNCHANGED <<up, down, cut, client, event, traffic>>
    BY <1>5 DEF TunnelError, Errors
  <2> QED
    BY <2>1, EndStep
<1>6. CASE Stop
  <2>1. /\ tunnel' = Ends(tunnel, "none") /\ "none" \in Errors
        /\ UNCHANGED <<up, down, cut, client, event, traffic>>
    BY <1>6 DEF Stop, Errors
  <2> QED
    BY <2>1, EndStep
<1>7. CASE Poll
  BY <1>7, PollStep
<1>8. CASE OnReady
  BY <1>8, OnReadyStep
<1>9. CASE Produce
  BY <1>9, ProduceStep
<1>10. CASE Cut
  BY <1>10, CutStep
<1>11. CASE UNCHANGED vars
  <2>1. /\ UNCHANGED <<tunnel, up, down, cut, client, event, traffic>>
        /\ (Closed' <=> Closed) /\ (Ended' <=> Ended) /\ (Gone' <=> Gone)
    BY <1>11 DEF vars, Closed, Ended, Gone
  <2>2. Typed' /\ Handshake' /\ Readiness' /\ Emptied' /\ QueuesBounded' /\ FramingHolds' /\ EofIsReal'
    BY <2>1 DEF IInv, Typed, Handshake, Readiness, Emptied, QueuesBounded, FramingHolds, EofIsReal
  <2>3. Uplink'
    <3>1. PICK later \in Word(Sized) : UpRest(later)
      BY DEF IInv, Uplink
    <3>2. UpRest(later)'
      BY <2>1, <3>1 DEF UpRest
    <3> QED
      BY <3>2 DEF Uplink
  <2>4. Downlink'
    <3>1. PICK later \in Word(Flow) : DownRest(later)
      BY DEF IInv, Downlink
    <3>2. DownRest(later)'
      BY <2>1, <3>1 DEF DownRest
    <3> QED
      BY <3>2 DEF Downlink
  <2> QED
    BY <2>2, <2>3, <2>4 DEF IInv
<1> QED
  BY <1>1, <1>2, <1>3, <1>4, <1>5, <1>6, <1>7, <1>8, <1>9, <1>10, <1>11 DEF Next

-------------------------------------------------------------------------------
(* What the invariant says. *)

\* The typed invariant bounds the buffers as TypeOK does.
LEMMA IInvTypeOK == IInv => TypeOK
<1> SUFFICES ASSUME IInv PROVE TypeOK
  OBVIOUS
<1>1. Typed
  BY DEF IInv
<1>2. /\ tunnel.phase \in {"connecting", "running", "ended"} /\ tunnel.mode \in Modes
      /\ tunnel.error \in Errors /\ tunnel.sendOffset \in 0 .. Len(tunnel.outbound)
  BY <1>1 DEF Typed, Sound, Tunnels
<1>3. Len(client.toNetwork) <= MaxIpPacket
  <2>1. PICK later \in Word(Sized) : UpRest(later)
    BY DEF IInv, Uplink
  <2>2. CASE Closed
    <3>1. Len(<< >>) = 0 /\ 0 <= MaxIpPacket
      BY BuffersAssumption
    <3> QED
      BY <2>2, <3>1 DEF IInv, Emptied
  <2>3. CASE ~Closed
    <3>1. Len(client.toNetwork) \in Nat /\ Len(client.toNetwork) < MaxPacket
      BY <1>1, <2>1, <2>3, TypedFacts, PartialFacts DEF UpRest
    <3> QED
      BY <3>1, BuffersAssumption
  <2> QED
    BY <2>2, <2>3
<1>4. event \subseteq client.interests
  BY DEF IInv, Readiness
<1>5. /\ client.idBytes \in 0 .. IdLength /\ client.end \in Causes
      /\ client.interests \subseteq {"r", "w"}
      /\ Len(up) <= SocketCapacity /\ Len(down) <= SocketCapacity
      /\ Len(client.toClient) <= RingCapacity
  BY <1>1, TypedFacts DEF Typed
<1> QED
  BY <1>2, <1>3, <1>4, <1>5 DEF TypeOK

\* On the uplink, what the router got, what the client and the socket hold and what
\* the tunnel has yet to send are the packets of the device, in order.
LEMMA IInvUplink == IInv => UplinkKeepsTheStream
<1> SUFFICES ASSUME IInv PROVE UplinkKeepsTheStream
  OBVIOUS
<1>1. /\ Typed /\ up \in Word(Octets) /\ client.toNetwork \in Word(Octets)
      /\ client.pushed \in Word(Sized) /\ tunnel.sent \in Word(Sized)
      /\ client.pushed \in Word(Packets) /\ tunnel.sent \in Word(Packets)
  BY TypedFacts, SizedFacts DEF IInv, Typed
<1>2. PICK later \in Word(Sized) : UpRest(later)
  BY DEF IInv, Uplink
<1>3. tunnel.sent = Cat(client.pushed, later)
  BY <1>2 DEF UpRest
<1>4. IsPrefix(client.pushed, tunnel.sent)
  BY <1>1, <1>3, PrefixFacts
<1>5. ASSUME ~Closed, ~cut
      PROVE  LET front == Stream(client.pushed) \o client.toNetwork \o up IN
             /\ IsPrefix(front, Stream(tunnel.sent))
             /\ ~Ended => Stream(tunnel.sent) = front \o Unsent(tunnel)
  <2>1. PICK t \in Word(Octets) : /\ Cat(Cat(client.toNetwork, up), t) = Stream(later)
                                  /\ ~Ended => t = Unsent(tunnel)
    BY <1>2, <1>5 DEF UpRest
  <2> DEFINE s == Stream(client.pushed)
             f == Cat(Cat(s, client.toNetwork), up)
  <2>2. /\ s \in Word(Octets) /\ Stream(tunnel.sent) \in Word(Octets)
        /\ Stream(tunnel.sent) = Cat(s, Stream(later))
    <3>1. later \in Word(Packets)
      BY SizedFacts
    <3> QED
      BY <1>1, <1>3, <3>1, StreamFacts
  <2>3. Cat(client.toNetwork, up) \in Word(Octets) /\ f = Cat(s, Cat(client.toNetwork, up))
    <3>1. client.toNetwork \in Word(Octets) /\ up \in Word(Octets) /\ s \in Word(Octets)
      BY <1>1, <2>2
    <3>2. Cat(client.toNetwork, up) \in Word(Octets)
      BY <3>1, CatFacts
    <3>3. f = Cat(s, Cat(client.toNetwork, up))
      BY <3>1, CatAssociative
    <3> QED
      BY <3>2, <3>3
  <2>4. f \in Word(Octets)
    BY <2>2, <2>3, CatFacts
  <2>5. Stream(tunnel.sent) = Cat(f, t)
    BY <2>1, <2>2, <2>3, CatAssociative
  <2>6. f = Stream(client.pushed) \o client.toNetwork \o up
    BY DEF Cat
  <2> HIDE DEF f
  <2>7. IsPrefix(f, Stream(tunnel.sent))
    BY <2>2, <2>4, <2>5, PrefixFacts
  <2>8. ~Ended => Stream(tunnel.sent) = f \o Unsent(tunnel)
    BY <2>1, <2>5 DEF Cat
  <2> QED
    BY <2>6, <2>7, <2>8
<1> QED
  BY <1>4, <1>5 DEF UplinkKeepsTheStream

\* On the downlink, what went to the device, what the tunnel and the socket hold and
\* what the client has yet to write are the packets of the flows, in order.
LEMMA IInvDownlink == IInv => DownlinkKeepsTheStream
<1> SUFFICES ASSUME IInv PROVE DownlinkKeepsTheStream
  OBVIOUS
<1> DEFINE held == Cat(tunnel.written, tunnel.packets)
           r == FromRelay(held)
<1>1. /\ Typed /\ down \in Word(Octets) /\ tunnel.incoming \in Word(Octets)
      /\ tunnel.written \in Word(Held) /\ tunnel.packets \in Word(Held)
      /\ held \in Word(Held) /\ r \in Word(Flow) /\ client.produced \in Word(Flow)
      /\ client \in Clients /\ client.idBytes \in 0 .. IdLength
  BY TypedFacts DEF IInv, Typed
<1>2. PICK later \in Word(Flow) : DownRest(later)
  BY DEF IInv, Downlink
<1>3. client.produced = Cat(r, later)
  BY <1>2 DEF DownRest
<1>4. IsPrefix(FromRelay(tunnel.written), client.produced)
  <2>1. /\ FromRelay(tunnel.written) \in Word(Flow) /\ FromRelay(tunnel.packets) \in Word(Flow)
        /\ r = Cat(FromRelay(tunnel.written), FromRelay(tunnel.packets))
    BY <1>1, FromRelayFacts
  <2>2. client.produced = Cat(FromRelay(tunnel.written), Cat(FromRelay(tunnel.packets), later))
    BY <1>3, <2>1, CatAssociative
  <2>3. Cat(FromRelay(tunnel.packets), later) \in Word(Flow)
    BY <2>1, CatFacts
  <2> QED
    BY <1>1, <2>1, <2>2, <2>3, PrefixFacts
<1>5. ASSUME ~cut, tunnel.phase = "running"
      PROVE  LET front == Stream(FromRelay(tunnel.written \o tunnel.packets)) \o tunnel.incoming \o down IN
             /\ IsPrefix(front, Stream(client.produced))
             /\ ~Closed => Stream(client.produced) = front \o client.toClient
  <2>1. PICK t \in Word(Octets) :
          /\ Cat(Cat(tunnel.incoming, down), t) = Cat(<< >>, Stream(later))
          /\ ~Closed => t = Backlog(client)
    BY <1>2, <1>5 DEF DownRest, Ahead, Ended
  <2>2. ~Closed => t = client.toClient
    <3>1. ASSUME ~Closed
          PROVE  client.idBytes = 0
      <4>1. ~(client.idBytes > 0)
        BY <1>5, <3>1 DEF IInv, Handshake
      <4> QED
        BY <1>1, <4>1, IdFacts
    <3> QED
      BY <1>1, <2>1, <3>1, BacklogFacts
  <2> DEFINE s == Stream(r)
             f == Cat(Cat(s, tunnel.incoming), down)
  <2>3. /\ s \in Word(Octets) /\ Stream(client.produced) \in Word(Octets)
        /\ Stream(later) \in Word(Octets) /\ Stream(client.produced) = Cat(s, Stream(later))
    <3>1. r \in Word(Packets) /\ later \in Word(Packets) /\ client.produced \in Word(Packets)
      BY <1>1, FlowFacts
    <3> QED
      BY <1>3, <3>1, StreamFacts
  <2>4. Cat(<< >>, Stream(later)) = Stream(later)
    BY <2>3, WordFacts
  <2>5. Cat(tunnel.incoming, down) \in Word(Octets) /\ f = Cat(s, Cat(tunnel.incoming, down))
    <3>1. tunnel.incoming \in Word(Octets) /\ down \in Word(Octets) /\ s \in Word(Octets)
      BY <1>1, <2>3
    <3>2. Cat(tunnel.incoming, down) \in Word(Octets)
      BY <3>1, CatFacts
    <3>3. f = Cat(s, Cat(tunnel.incoming, down))
      BY <3>1, CatAssociative
    <3> QED
      BY <3>2, <3>3
  <2>6. f \in Word(Octets)
    BY <2>3, <2>5, CatFacts
  <2>7. Stream(client.produced) = Cat(f, t)
    BY <2>1, <2>3, <2>4, <2>5, CatAssociative
  <2>8. f = Stream(FromRelay(tunnel.written \o tunnel.packets)) \o tunnel.incoming \o down
    BY DEF Cat
  <2> HIDE DEF f
  <2>9. IsPrefix(f, Stream(client.produced))
    BY <2>3, <2>6, <2>7, PrefixFacts
  <2>10. ~Closed => Stream(client.produced) = f \o client.toClient
    BY <2>2, <2>7 DEF Cat
  <2> QED
    BY <2>8, <2>9, <2>10
<1> QED
  BY <1>4, <1>5 DEF DownlinkKeepsTheStream

\* The inductive invariant holds in every state of every behaviour: Connect, the
\* passes of Run, the client's handlers, its pending sources and a cut at any moment.
THEOREM InvariantHolds == Spec => []IInv
<1>1. Init => IInv
  BY InitInv
<1>2. IInv /\ [Next]_vars => IInv'
  BY StepInv
<1> QED
  BY <1>1, <1>2, PTL DEF Spec

\* The buffers of the tunnel, the socket and the client keep their types and
\* capacities: client_to_network and network_to_client never overflow, sendOffset
\* never passes the end of outbound.
THEOREM TypeCorrect == Spec => []TypeOK
<1>1. IInv => TypeOK
  BY IInvTypeOK
<1> QED
  BY <1>1, InvariantHolds, PTL

\* Between the device and the router, either way, no byte is lost, added or
\* reordered while the link lives: send() with its cursor and compaction, the partial
\* reads and writes of process_send and process_receive, process_pending's retries and
\* the erase of parsed packets cut and join one and the same stream of packets.
THEOREM StreamsAreKept == Spec => []StreamsKept
<1>1. IInv => StreamsKept
  BY IInvUplink, IInvDownlink DEF StreamsKept
<1> QED
  BY <1>1, InvariantHolds, PTL

\* Neither parser loses the boundaries of the packets, over any split of the stream
\* into reads: Run never ends with EPROTO, and push_to_network closes a client as
\* malformed only after the device sent a packet that is.
THEOREM FramingIsKept == Spec => []FramingHolds
<1>1. IInv => FramingHolds
  BY DEF IInv
<1> QED
  BY <1>1, InvariantHolds, PTL

\* process_receive takes a read of 0 bytes for the end of the stream, and closes the
\* client, only when the tunnel is gone: never because client_to_network was full.
THEOREM EofsAreReal == Spec => []EofIsReal
<1>1. IInv => EofIsReal
  BY DEF IInv
<1> QED
  BY <1>1, InvariantHolds, PTL

\* The tunnel's memory is bounded: outbound stays below MaxQueue, queuedBytes is the
\* size of the queue, and together with what was read of the next packet it exceeds
\* the limit Run polls by at most by a reply of the tunnel's own.
THEOREM QueuesStayBounded == Spec => []QueuesBounded
<1>1. IInv => QueuesBounded
  BY DEF IInv
<1> QED
  BY <1>1, InvariantHolds, PTL

===============================================================================
