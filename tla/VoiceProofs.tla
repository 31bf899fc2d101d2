----------------------------- MODULE VoiceProofs -----------------------------
(***************************************************************************)
(* Theorems about Voice, for every set of drafts, every text and reply a   *)
(* model may give, and every lexicon: what the report and the supplies     *)
(* look like; that the verdict and the recorded failures say the same;     *)
(* that an edition the reviser wrote is one its ledger accounts for; and   *)
(* that spending supplies item by item passes only what can be assigned    *)
(* an occurrence each, and refuses nothing that can.                       *)
(***************************************************************************)
EXTENDS Voice, FiniteSetTheorems, SequenceTheorems, WellFoundedInduction, TLAPS

-----------------------------------------------------------------------------
(* Folds.  A fold over a sequence stays in a set that holds its base and   *)
(* that its step does not leave.  The step is given as a function F.       *)

\* Every set of naturals that is not empty has a least member.
LEMMA LeastNatural ==
  ASSUME NEW T \in SUBSET Nat, T # {}
  PROVE  \E x \in T : \A y \in T : x <= y
<1> DEFINE R == {s \in Nat \X Nat : s[1] < s[2]}
<1>1. R = OpToRel(<, Nat)
  BY DEF OpToRel
<1>2. IsWellFoundedOn(R, Nat)
  BY ONLY <1>1, NatLessThanWellFounded, Zenon
<1>3. \A x, y \in Nat : <<x, y>> \in R <=> x < y
  OBVIOUS
<1> HIDE DEF R
<1>4. PICK x \in T : \A y \in T : ~ (<<y, x>> \in R)
  BY <1>2, WFMin
<1>5. ASSUME NEW y \in T  PROVE x <= y
  <2>1. x \in Nat /\ y \in Nat
    BY ONLY T \in SUBSET Nat, x \in T, y \in T
  <2>2. ~(y < x)
    BY <1>3, <1>4, <2>1, Zenon
  <2> QED
    BY ONLY <2>1, <2>2
<1> QED
  BY <1>5

LEMMA MaxIs ==
  ASSUME NEW S \in SUBSET Nat, NEW x \in S, \A y \in S : x >= y
  PROVE  Max(S) = x
<1>1. Max(S) \in S /\ \A y \in S : Max(S) >= y
  BY Zenon DEF Max
<1>2. Max(S) \in Nat /\ x \in Nat /\ Max(S) >= x /\ x >= Max(S)
  BY <1>1
<1> QED
  BY ONLY <1>2

LEMMA MaxMember ==
  ASSUME NEW E, NEW seq \in Seq(E), NEW s \in SUBSET (DOMAIN seq), s # {}
  PROVE  Max(s) \in s /\ Max(s) \in DOMAIN seq /\ seq[Max(s)] \in E
<1>1. IsFiniteSet(s) /\ s \in SUBSET Nat
  <2>1. DOMAIN seq = 1..Len(seq) /\ Len(seq) \in Nat
    OBVIOUS
  <2>2. IsFiniteSet(1..Len(seq))
    BY <2>1, FS_Interval
  <2> QED
    BY <2>1, <2>2, FS_Subset
<1>2. \E x \in s : \A y \in s : y <= x
  <2> DEFINE T == {n \in Nat : \A y \in s : y <= n}
  <2>1. Len(seq) \in T
    BY <1>1
  <2>2. PICK n \in T : \A m \in T : n <= m
    <3>1. T \in SUBSET Nat /\ T # {}
      BY <2>1
    <3> HIDE DEF T
    <3> QED
      BY <3>1, LeastNatural
  <2>3. n \in Nat /\ \A y \in s : y <= n
    OBVIOUS
  <2>4. ASSUME n \notin s  PROVE FALSE
    <3>1. PICK y \in s : TRUE
      OBVIOUS
    <3>2. y \in Nat /\ y >= 1 /\ y <= n
      BY <1>1, <2>3
    <3>3. n - 1 \in Nat /\ \A z \in s : z <= n - 1
      BY <1>1, <2>3, <2>4, <3>2
    <3> QED
      BY <2>2, <2>3, <3>3
  <2> QED
    BY <2>3, <2>4
<1>3. Max(s) \in s
  <2>1. PICK x \in s : \A y \in s : x >= y
    BY <1>1, <1>2
  <2> QED
    BY <1>1, <2>1, MaxIs
<1> QED
  BY <1>3

\* g holds the value of the fold of F over the members of seq at each set of places.
FoldOf(g, F, base, seq, D) ==
  \A s \in SUBSET D :
     g[s] = IF s = {} THEN base ELSE F[<<g[s \ {Max(s)}], seq[Max(s)]>>]

HasFold(A, F, base, seq, n) ==
  \E g \in [SUBSET (1..n) -> A] : FoldOf(g, F, base, seq, 1..n)

\* A fold over the first n members can be carried one further.
LEMMA FoldsFurther ==
  ASSUME NEW A, NEW E, NEW base \in A, NEW F \in [A \X E -> A], NEW seq, NEW n \in Nat,
         seq[n + 1] \in E, HasFold(A, F, base, seq, n)
  PROVE  HasFold(A, F, base, seq, n + 1)
<1> PICK f \in [SUBSET (1..n) -> A] : FoldOf(f, F, base, seq, 1..n)
  BY DEF HasFold
<1> DEFINE S == SUBSET (1..(n + 1))
           g == [s \in S |->
                   IF n + 1 \in s THEN F[<<f[s \ {n + 1}], seq[n + 1]>>] ELSE f[s]]
<1>0. \A s \in S : s \ {n + 1} \in SUBSET (1..n)
  OBVIOUS
<1>1. g \in [S -> A]
  <2> SUFFICES ASSUME NEW s \in S
               PROVE  (IF n + 1 \in s THEN F[<<f[s \ {n + 1}], seq[n + 1]>>] ELSE f[s]) \in A
    OBVIOUS
  <2>1. f[s \ {n + 1}] \in A
    BY <1>0
  <2>2. n + 1 \notin s => s \in SUBSET (1..n)
    OBVIOUS
  <2> QED
    BY <2>1, <2>2
<1>2. ASSUME NEW s \in S
      PROVE  g[s] = IF s = {} THEN base ELSE F[<<g[s \ {Max(s)}], seq[Max(s)]>>]
  <2>1. CASE n + 1 \in s
    <3>1. Max(s) = n + 1
      <4>1. s \in SUBSET Nat /\ \A y \in s : n + 1 >= y
        OBVIOUS
      <4> QED
        BY <2>1, <4>1, MaxIs
    <3>2. s \ {n + 1} \in S /\ n + 1 \notin s \ {n + 1} /\ s # {}
      BY <2>1
    <3>3. g[s \ {n + 1}] = f[s \ {n + 1}]
      BY <3>2, Zenon
    <3>4. g[s] = F[<<f[s \ {n + 1}], seq[n + 1]>>]
      BY <2>1, Zenon
    <3> QED
      BY <3>1, <3>2, <3>3, <3>4, Zenon
  <2>2. CASE n + 1 \notin s
    <3>1. s \in SUBSET (1..n)
      BY <2>2
    <3>2. f[s] = IF s = {} THEN base ELSE F[<<f[s \ {Max(s)}], seq[Max(s)]>>]
      BY <3>1, Zenon DEF FoldOf
    <3>3. s \ {Max(s)} \in S /\ n + 1 \notin s \ {Max(s)}
      BY <2>2
    <3>4. g[s] = f[s] /\ g[s \ {Max(s)}] = f[s \ {Max(s)}]
      BY <2>2, <3>3, Zenon
    <3> QED
      BY <3>2, <3>4, Zenon
  <2> QED
    BY <2>1, <2>2
<1> HIDE DEF g
<1> QED
  BY <1>1, <1>2 DEF FoldOf, HasFold

LEMMA FoldExists ==
  ASSUME NEW A, NEW E, NEW base \in A, NEW F \in [A \X E -> A], NEW seq \in Seq(E)
  PROVE  \E g \in [SUBSET (DOMAIN seq) -> A] : FoldOf(g, F, base, seq, DOMAIN seq)
<1> DEFINE Has(n) == HasFold(A, F, base, seq, n)
           bad == {n \in 0..Len(seq) : ~Has(n)}
<1>1. Has(0)
  <2> DEFINE g == [s \in SUBSET (1..0) |-> base]
  <2>1. \A s \in SUBSET (1..0) : s = {}
    OBVIOUS
  <2>2. g \in [SUBSET (1..0) -> A] /\ FoldOf(g, F, base, seq, 1..0)
    BY <2>1 DEF FoldOf
  <2> QED
    BY <2>2 DEF HasFold
<1>2. bad = {}
  <2> SUFFICES ASSUME bad # {}  PROVE FALSE
    OBVIOUS
  <2>0. Len(seq) \in Nat
    OBVIOUS
  <2>1. bad \in SUBSET Nat
    <3> HIDE DEF Has
    <3> QED
      BY <2>0
  <2>2. PICK n \in bad : \A m \in bad : n <= m
    <3> HIDE DEF bad
    <3> QED
      BY <2>1, LeastNatural
  <2>3. n \in Nat /\ n <= Len(seq) /\ ~Has(n)
    <3> HIDE DEF Has
    <3> QED
      BY <2>0
  <2>4. n # 0
    BY <1>1, <2>3
  <2> HIDE DEF Has
  <2>5. PICK m \in Nat : m + 1 = n
    <3>1. n - 1 \in Nat /\ (n - 1) + 1 = n
      BY <2>3, <2>4
    <3> QED
      BY <3>1
  <2>6. m \in 0..Len(seq) /\ ~(n <= m)
    BY <2>0, <2>3, <2>5
  <2>7. Has(m)
    BY <2>2, <2>6
  <2>8. seq[m + 1] \in E
    BY <2>3, <2>5
  <2>9. HasFold(A, F, base, seq, m)
    BY <2>7 DEF Has
  <2>10. Has(n)
    BY <2>5, <2>8, <2>9, FoldsFurther DEF Has
  <2> QED
    BY <2>3, <2>10
<1>3. Len(seq) \in 0..Len(seq) /\ DOMAIN seq = 1..Len(seq)
  OBVIOUS
<1>4. Has(Len(seq))
  <2> HIDE DEF Has
  <2> QED
    BY <1>2, <1>3
<1> QED
  BY <1>3, <1>4 DEF HasFold

\* h takes the steps of F wherever it is in A.
FoldsWithin(h, F, base, seq, A) ==
  /\ h[{}] = base
  /\ \A s \in SUBSET (DOMAIN seq) :
        s # {} /\ h[s \ {Max(s)}] \in A
          => h[s] = F[<<h[s \ {Max(s)}], seq[Max(s)]>>]

\* The first n places of a sequence, and the last of them.
LEMMA FirstPlaces ==
  ASSUME NEW E, NEW seq \in Seq(E), NEW n \in 1..Len(seq)
  PROVE  /\ 1..n \in SUBSET (DOMAIN seq) /\ 1..n # {}
         /\ Max(1..n) = n /\ (1..n) \ {n} = 1..(n - 1)
<1>1. DOMAIN seq = 1..Len(seq) /\ Len(seq) \in Nat /\ n \in Nat /\ n >= 1 /\ n <= Len(seq)
  OBVIOUS
<1>2. 1..n \in SUBSET (DOMAIN seq)
  BY <1>1
<1>3. (1..n) \ {n} = 1..(n - 1) /\ n \in 1..n
  BY <1>1
<1>4. Max(1..n) = n
  <2>1. 1..n \in SUBSET Nat /\ n \in 1..n /\ \A y \in 1..n : n >= y
    BY <1>1
  <2> QED
    BY <2>1, MaxIs
<1> QED
  BY <1>2, <1>3, <1>4

\* Whatever h is, if it takes the steps of F wherever it is in A, it ends in A.
LEMMA FoldStays ==
  ASSUME NEW A, NEW E, NEW base \in A, NEW F \in [A \X E -> A], NEW seq \in Seq(E),
         NEW h, FoldsWithin(h, F, base, seq, A)
  PROVE  h[DOMAIN seq] \in A /\ \A n \in 0..Len(seq) : h[1..n] \in A
<1> DEFINE bad == {n \in 0..Len(seq) : h[1..n] \notin A}
<1>0. Len(seq) \in Nat /\ DOMAIN seq = 1..Len(seq)
  OBVIOUS
<1>1. bad = {}
  <2> SUFFICES ASSUME bad # {}  PROVE FALSE
    OBVIOUS
  <2>1. bad \in SUBSET Nat
    BY <1>0
  <2>2. PICK n \in bad : \A m \in bad : n <= m
    <3> HIDE DEF bad
    <3> QED
      BY <2>1, LeastNatural
  <2>3. n \in Nat /\ n <= Len(seq) /\ h[1..n] \notin A
    BY <1>0
  <2>4. n # 0
    <3>1. 1..0 = {}
      OBVIOUS
    <3> QED
      BY <2>3, <3>1 DEF FoldsWithin
  <2>5. n - 1 \in 0..Len(seq) /\ ~(n <= n - 1)
    BY <1>0, <2>3, <2>4
  <2>6. h[1..(n - 1)] \in A
    BY <2>2, <2>5
  <2>7. n \in 1..Len(seq)
    BY <1>0, <2>3, <2>4
  <2>8. 1..n \in SUBSET (DOMAIN seq) /\ 1..n # {} /\ Max(1..n) = n /\ (1..n) \ {n} = 1..(n - 1)
    BY <2>7, FirstPlaces
  <2>9. h[1..n] = F[<<h[1..(n - 1)], seq[n]>>]
    BY <2>6, <2>8 DEF FoldsWithin
  <2>10. seq[n] \in E
    BY <1>0, <2>3, <2>4
  <2> QED
    BY <2>3, <2>6, <2>9, <2>10
<1> QED
  BY <1>0, <1>1

-----------------------------------------------------------------------------
(* What the folds of Voice return. *)

TextLine == [k : {"text", "quote", "blank", "fence", "delim"}, v : Seq(STRING)]

LEMMA AmongIn ==
  ASSUME NEW T, NEW items \in Seq(T), NEW S
  PROVE  Among(items, S) \in Seq(T \cap S)
<1> DEFINE A == Seq(T \cap S)
           Fn == [p \in A \X T |-> IF p[2] \in S THEN Append(p[1], p[2]) ELSE p[1]]
           Is(g) == g = [s \in SUBSET (DOMAIN items) |->
                      IF s = {} THEN <<>>
                      ELSE IF items[Max(s)] \in S
                           THEN Append(g[s \ {Max(s)}], items[Max(s)])
                           ELSE g[s \ {Max(s)}]]
           h == CHOOSE g : Is(g)
<1>1. Fn \in [A \X T -> A] /\ <<>> \in A
  <2> SUFFICES ASSUME NEW a \in A, NEW x \in T
               PROVE  (IF x \in S THEN Append(a, x) ELSE a) \in A
    OBVIOUS
  <2> QED
    OBVIOUS
<1>2. \A a \in A, x \in T :
         Fn[<<a, x>>] = IF x \in S THEN Append(a, x) ELSE a
  OBVIOUS
<1>3. Among(items, S) = h[DOMAIN items]
  BY Zenon DEF Among, FoldLeft, MapThenFoldSet
<1>4. \A s \in SUBSET (DOMAIN items) : s # {} => Max(s) \in DOMAIN items /\ items[Max(s)] \in T
  BY MaxMember
<1> HIDE DEF A, Fn
<1>5. \E g : Is(g)
  <2>1. PICK g \in [SUBSET (DOMAIN items) -> A] : FoldOf(g, Fn, <<>>, items, DOMAIN items)
    BY <1>1, FoldExists
  <2>2. \A s \in SUBSET (DOMAIN items) :
           g[s] = IF s = {} THEN <<>>
                  ELSE IF items[Max(s)] \in S
                       THEN Append(g[s \ {Max(s)}], items[Max(s)])
                       ELSE g[s \ {Max(s)}]
    BY <1>2, <1>4, <2>1 DEF FoldOf
  <2>3. Is(g)
    BY <2>1, <2>2
  <2> QED
    BY <2>3
<1>6. Is(h)
  BY <1>5, Zenon
<1>7. FoldsWithin(h, Fn, <<>>, items, A)
  <2> HIDE DEF h
  <2> QED
    BY <1>2, <1>4, <1>6 DEF FoldsWithin
<1> HIDE DEF h
<1>8. h[DOMAIN items] \in A
  BY <1>1, <1>7, FoldStays
<1> QED
  BY <1>3, <1>8 DEF A

LEMMA MarksIn ==
  ASSUME NEW lines \in Seq(TextLine)
  PROVE  Marks(lines) \in Seq(STRING)
<1> DEFINE A == Seq(STRING)
           Fn == [p \in A \X TextLine |-> IF p[2].k \in {"text", "quote"} THEN p[1] \o p[2].v ELSE p[1]]
           Is(g) == g = [s \in SUBSET (DOMAIN lines) |->
                      IF s = {} THEN <<>>
                      ELSE IF lines[Max(s)].k \in {"text", "quote"} THEN g[s \ {Max(s)}] \o lines[Max(s)].v ELSE g[s \ {Max(s)}]]
           h == CHOOSE g : Is(g)
<1>1. Fn \in [A \X TextLine -> A] /\ <<>> \in A
  <2>1. ASSUME NEW a \in A, NEW x \in TextLine
        PROVE  (IF x.k \in {"text", "quote"} THEN a \o x.v ELSE a) \in A
    <3>1. x.v \in Seq(STRING)
      BY DEF TextLine
    <3>2. a \o x.v \in Seq(STRING)
      BY <3>1
    <3> QED
      BY <3>2
  <2>2. <<>> \in A
    OBVIOUS
  <2> HIDE DEF A
  <2> QED
    BY <2>1, <2>2
<1>2. \A a \in A, x \in TextLine :
         Fn[<<a, x>>] = IF x.k \in {"text", "quote"} THEN a \o x.v ELSE a
  <2> HIDE DEF A
  <2> QED
    OBVIOUS
<1>3. Marks(lines) = h[DOMAIN lines]
  BY Zenon DEF Marks, FoldLeft, MapThenFoldSet
<1>4. \A s \in SUBSET (DOMAIN lines) : s # {} => Max(s) \in DOMAIN lines /\ lines[Max(s)] \in TextLine
  BY MaxMember
<1> HIDE DEF A, Fn
<1>5. \E g : Is(g)
  <2>1. PICK g \in [SUBSET (DOMAIN lines) -> A] : FoldOf(g, Fn, <<>>, lines, DOMAIN lines)
    BY <1>1, FoldExists
  <2>2. \A s \in SUBSET (DOMAIN lines) :
           g[s] = IF s = {} THEN <<>>
                  ELSE IF lines[Max(s)].k \in {"text", "quote"} THEN g[s \ {Max(s)}] \o lines[Max(s)].v ELSE g[s \ {Max(s)}]
    BY <1>2, <1>4, <2>1 DEF FoldOf
  <2>3. g = [s \in SUBSET (DOMAIN lines) |-> g[s]]
    BY <2>1
  <2>4. Is(g)
    BY <2>2, <2>3, Zenon
  <2> QED
    BY <2>4
<1>6. Is(h)
  BY <1>5, Zenon
<1>7. FoldsWithin(h, Fn, <<>>, lines, A)
  <2> HIDE DEF h
  <2>1. h[{}] = <<>>
    BY ONLY <1>6
  <2>2. ASSUME NEW s \in SUBSET (DOMAIN lines), s # {}, h[s \ {Max(s)}] \in A
        PROVE  h[s] = Fn[<<h[s \ {Max(s)}], lines[Max(s)]>>]
    <3>1. lines[Max(s)] \in TextLine
      BY ONLY <1>4, <2>2
    <3>2. h[s] = IF lines[Max(s)].k \in {"text", "quote"}
                 THEN h[s \ {Max(s)}] \o lines[Max(s)].v ELSE h[s \ {Max(s)}]
      BY ONLY <1>6, <2>2
    <3>3. Fn[<<h[s \ {Max(s)}], lines[Max(s)]>>]
            = IF lines[Max(s)].k \in {"text", "quote"}
              THEN h[s \ {Max(s)}] \o lines[Max(s)].v ELSE h[s \ {Max(s)}]
      BY ONLY <1>2, <2>2, <3>1
    <3> QED
      BY ONLY <3>2, <3>3
  <2> QED
    BY ONLY <2>1, <2>2 DEF FoldsWithin
<1> HIDE DEF h
<1>8. h[DOMAIN lines] \in A
  BY <1>1, <1>7, FoldStays
<1> QED
  BY <1>3, <1>8 DEF A

LEMMA ThoseIn ==
  ASSUME NEW items \in Seq(STRING), NEW S, NEW kind
  PROVE  Those(items, S, kind) \in Seq({kind} \X (STRING \cap S))
<1> DEFINE found == Among(items, S)
<1>1. found \in Seq(STRING \cap S)
  BY AmongIn
<1> HIDE DEF found
<1>2. [i \in DOMAIN found |-> <<kind, found[i]>>] \in Seq({kind} \X (STRING \cap S))
  BY <1>1
<1> QED
  BY <1>2 DEF Those, found

\* The kinds of payload: no term is one when no lexicon is declared.
Kinds == {"quote", "citation", "numeric"} \cup (IF Lexicon = {} THEN {} ELSE {"lexicon"})

Item == Kinds \X (STRING \cup Seq(STRING))

LEMMA PayloadIn ==
  ASSUME NEW lines \in Seq(TextLine)
  PROVE  Payload(lines) \in Seq(Item)
<1> DEFINE quoted == Among(lines, {l \in Range(lines) : l.k = "quote"})
<1>1. [i \in DOMAIN quoted |-> <<"quote", quoted[i].v>>] \in Seq(Item)
  <2>1. quoted \in Seq(TextLine \cap {l \in Range(lines) : l.k = "quote"})
    BY AmongIn
  <2> HIDE DEF quoted
  <2>2. DOMAIN quoted = 1..Len(quoted) /\ Len(quoted) \in Nat
    BY <2>1
  <2>3. \A i \in DOMAIN quoted : quoted[i].v \in Seq(STRING)
    <3>1. \A i \in DOMAIN quoted : quoted[i] \in TextLine
      BY <2>1
    <3> QED
      BY <3>1 DEF TextLine
  <2>4. \A i \in DOMAIN quoted : <<"quote", quoted[i].v>> \in Item
    BY <2>3 DEF Item, Kinds
  <2> QED
    BY <2>2, <2>4
<1>2. Marks(lines) \in Seq(STRING)
  BY MarksIn
<1>3. Those(Marks(lines), Citations, "citation") \in Seq(Item)
  <2>1. Those(Marks(lines), Citations, "citation") \in Seq({"citation"} \X (STRING \cap Citations))
    BY <1>2, ThoseIn
  <2>2. {"citation"} \X (STRING \cap Citations) \subseteq Item
    BY DEF Item, Kinds
  <2> QED
    BY <2>1, <2>2
<1>4. Those(Marks(lines), Numerals, "numeric") \in Seq(Item)
  <2>1. Those(Marks(lines), Numerals, "numeric") \in Seq({"numeric"} \X (STRING \cap Numerals))
    BY <1>2, ThoseIn
  <2>2. {"numeric"} \X (STRING \cap Numerals) \subseteq Item
    BY DEF Item, Kinds
  <2> QED
    BY <2>1, <2>2
<1>5. Those(Marks(lines), Lexicon, "lexicon") \in Seq(Item)
  <2>1. Those(Marks(lines), Lexicon, "lexicon") \in Seq({"lexicon"} \X (STRING \cap Lexicon))
    BY <1>2, ThoseIn
  <2>2. {"lexicon"} \X (STRING \cap Lexicon) \subseteq Item
    BY DEF Item, Kinds
  <2> QED
    BY <2>1, <2>2
<1> HIDE DEF quoted
<1>6. Payload(lines) = [i \in DOMAIN quoted |-> <<"quote", quoted[i].v>>]
                          \o Those(Marks(lines), Citations, "citation")
                          \o Those(Marks(lines), Numerals, "numeric")
                          \o Those(Marks(lines), Lexicon, "lexicon")
  BY Zenon DEF Payload, quoted
<1> QED
  BY <1>1, <1>3, <1>4, <1>5, <1>6

LEMMA LinesIn ==
  ASSUME NEW lines \in Seq(TextLine)
  PROVE  FoldLeft(Line, [units |-> <<>>, run |-> <<>>, fence |-> None], lines) \in [units : Seq(Seq(TextLine)), run : Seq(TextLine), fence : TextLine \cup {None}]
<1> DEFINE A == [units : Seq(Seq(TextLine)), run : Seq(TextLine), fence : TextLine \cup {None}]
           Fn == [p \in A \X TextLine |-> Line(p[1], p[2])]
           Is(g) == g = [s \in SUBSET (DOMAIN lines) |->
                      IF s = {} THEN [units |-> <<>>, run |-> <<>>, fence |-> None]
                      ELSE Line(g[s \ {Max(s)}], lines[Max(s)])]
           h == CHOOSE g : Is(g)
<1>1. Fn \in [A \X TextLine -> A] /\ [units |-> <<>>, run |-> <<>>, fence |-> None] \in A
  <2>1. ASSUME NEW a \in A, NEW x \in TextLine
        PROVE  (Line(a, x)) \in A
    <3>1. Append(a.run, x) \in Seq(TextLine) /\ Append(a.units, a.run) \in Seq(Seq(TextLine))
      OBVIOUS
    <3>2. CASE x.k = "fence"
      <4>1. Line(a, x) = [a EXCEPT !.run = Append(@, x),
                             !.fence = IF @ = None THEN x ELSE IF @ = x THEN None ELSE @]
        BY <3>2, Zenon DEF Line
      <4> DEFINE fen == IF a.fence = None THEN x ELSE IF a.fence = x THEN None ELSE a.fence
      <4>2. fen \in TextLine \cup {None}
        OBVIOUS
      <4>3. Line(a, x) = [units |-> a.units, run |-> Append(a.run, x), fence |-> fen]
        BY <4>1
      <4>4. a.units \in Seq(Seq(TextLine))
        OBVIOUS
      <4> HIDE DEF fen
      <4>5. [units |-> a.units, run |-> Append(a.run, x), fence |-> fen] \in A
        BY ONLY <3>1, <4>2, <4>4
      <4> QED
        BY <4>3, <4>5, Zenon
    <3>3. CASE x.k = "blank" /\ a.fence = None
      <4>1. x.k # "fence"
        BY <3>3
      <4>2. Line(a, x) = [a EXCEPT !.units = IF a.run = <<>> THEN @ ELSE Append(@, a.run),
                             !.run = <<>>]
        BY <3>3, <4>1, Zenon DEF Line
      <4> DEFINE uni == IF a.run = <<>> THEN a.units ELSE Append(a.units, a.run)
      <4>3. uni \in Seq(Seq(TextLine)) /\ a.fence \in TextLine \cup {None}
        BY <3>1
      <4>4. Line(a, x) = [units |-> uni, run |-> <<>>, fence |-> a.fence]
        BY <4>2
      <4> HIDE DEF uni
      <4> QED
        BY <4>3, <4>4
    <3>4. CASE x.k # "fence" /\ ~(x.k = "blank" /\ a.fence = None)
      <4>1. Line(a, x) = [a EXCEPT !.run = Append(@, x)]
        BY <3>4, Zenon DEF Line
      <4> QED
        BY <3>1, <4>1
    <3> QED
      BY <3>2, <3>3, <3>4
  <2>2. [units |-> <<>>, run |-> <<>>, fence |-> None] \in A
    OBVIOUS
  <2> HIDE DEF A
  <2> QED
    BY <2>1, <2>2
<1>2. \A a \in A, x \in TextLine :
         Fn[<<a, x>>] = Line(a, x)
  <2> HIDE DEF A
  <2> QED
    OBVIOUS
<1>3. FoldLeft(Line, [units |-> <<>>, run |-> <<>>, fence |-> None], lines) = h[DOMAIN lines]
  BY Zenon DEF FoldLeft, MapThenFoldSet
<1>4. \A s \in SUBSET (DOMAIN lines) : s # {} => Max(s) \in DOMAIN lines /\ lines[Max(s)] \in TextLine
  BY MaxMember
<1> HIDE DEF A, Fn
<1>5. \E g : Is(g)
  <2>1. PICK g \in [SUBSET (DOMAIN lines) -> A] : FoldOf(g, Fn, [units |-> <<>>, run |-> <<>>, fence |-> None], lines, DOMAIN lines)
    BY <1>1, FoldExists
  <2>2. \A s \in SUBSET (DOMAIN lines) :
           g[s] = IF s = {} THEN [units |-> <<>>, run |-> <<>>, fence |-> None]
                  ELSE Line(g[s \ {Max(s)}], lines[Max(s)])
    BY <1>2, <1>4, <2>1 DEF FoldOf
  <2>3. g = [s \in SUBSET (DOMAIN lines) |-> g[s]]
    BY <2>1
  <2>4. Is(g)
    BY <2>2, <2>3, Zenon
  <2> QED
    BY <2>4
<1>6. Is(h)
  BY <1>5, Zenon
<1>7. FoldsWithin(h, Fn, [units |-> <<>>, run |-> <<>>, fence |-> None], lines, A)
  <2> HIDE DEF h
  <2> QED
    BY <1>2, <1>4, <1>6 DEF FoldsWithin
<1> HIDE DEF h
<1>8. h[DOMAIN lines] \in A
  BY <1>1, <1>7, FoldStays
<1> QED
  BY <1>3, <1>8 DEF A

LEMMA GroupUnitsIn ==
  ASSUME NEW lines \in Seq(TextLine)
  PROVE  GroupUnits(lines) \in Seq(Seq(TextLine))
<1> DEFINE end == FoldLeft(Line, [units |-> <<>>, run |-> <<>>, fence |-> None], lines)
<1>1. end.units \in Seq(Seq(TextLine)) /\ end.run \in Seq(TextLine)
  BY LinesIn
<1>2. GroupUnits(lines) = IF end.run = <<>> THEN end.units ELSE Append(end.units, end.run)
  BY Zenon DEF GroupUnits
<1> HIDE DEF end
<1> QED
  BY <1>1, <1>2

-----------------------------------------------------------------------------
(* Supplies: what is not yet spent of the payload of a unit.               *)

Stock == UNION {[S -> Nat \ {0}] : S \in SUBSET Item}

HowMany(bag, x) == IF x \in DOMAIN bag THEN bag[x] ELSE 0

LEMMA LessIn ==
  ASSUME NEW bag \in Stock, NEW x
  PROVE  /\ Less(bag, x) \in Stock
         /\ \A y : y # x => HowMany(Less(bag, x), y) = HowMany(bag, y)
         /\ BagIn(x, bag) => HowMany(Less(bag, x), x) = HowMany(bag, x) - 1
<1>1. PICK S \in SUBSET Item : bag \in [S -> Nat \ {0}]
  BY DEF Stock
<1> DEFINE rest == [e \in DOMAIN bag |-> IF e \in {x} THEN bag[e] - 1 ELSE bag[e]]
           left == {d \in DOMAIN rest : rest[d] > 0}
<1>2. rest \in [S -> Nat]
  BY <1>1
<1>3. Less(bag, x) = [e \in left |-> rest[e]]
  <2>1. SetToBag({x}) = [e \in {x} |-> 1]
    BY DEF SetToBag
  <2>2. \A e \in {x} : SetToBag({x})[e] = 1
    BY <2>1
  <2>3. DOMAIN SetToBag({x}) = {x}
    BY <2>1
  <2> QED
    BY <2>2, <2>3 DEF Less, (-)
<1>4. \A y \in S : rest[y] = IF y = x THEN bag[y] - 1 ELSE bag[y]
  BY <1>1
<1> HIDE DEF rest
<1>5. left \in SUBSET Item /\ \A y : y \in left <=> y \in S /\ rest[y] > 0
  BY <1>2
<1>6. [e \in left |-> rest[e]] \in [left -> Nat \ {0}]
  BY <1>2
<1> HIDE DEF left
<1>7. Less(bag, x) \in Stock
  BY <1>3, <1>5, <1>6 DEF Stock
<1>8. ASSUME NEW y, y # x  PROVE HowMany(Less(bag, x), y) = HowMany(bag, y)
  BY <1>1, <1>3, <1>4, <1>5, <1>8 DEF HowMany, BagIn, BagToSet
<1>9. ASSUME BagIn(x, bag)  PROVE HowMany(Less(bag, x), x) = HowMany(bag, x) - 1
  <2>1. x \in S /\ bag[x] \in Nat \ {0} /\ HowMany(bag, x) = bag[x] /\ rest[x] = bag[x] - 1
    BY <1>1, <1>4, <1>9 DEF HowMany, BagIn, BagToSet
  <2>2. CASE x \in left
    BY <1>3, <2>1, <2>2 DEF HowMany, BagIn, BagToSet
  <2>3. CASE x \notin left
    <3>1. rest[x] = 0
      BY <1>5, <2>1, <2>3
    <3> QED
      BY <1>3, <2>1, <2>3, <3>1 DEF HowMany, BagIn, BagToSet
  <2> QED
    BY <2>2, <2>3
<1> QED
  BY <1>7, <1>8, <1>9

\* The places of a text that hold x.
Places(lines, x) == {n \in DOMAIN Payload(lines) : Payload(lines)[n] = x}

LEMMA PayloadBagIn ==
  ASSUME NEW lines \in Seq(TextLine)
  PROVE  /\ PayloadBag(lines) \in Stock
         /\ \A x : /\ IsFiniteSet(Places(lines, x))
                  /\ HowMany(PayloadBag(lines), x) = Cardinality(Places(lines, x))
<1> DEFINE p == Payload(lines)
           many(x) == Cardinality(Places(lines, x))
<1>1. p \in Seq(Item)
  BY PayloadIn
<1>2. PayloadBag(lines) = [x \in Range(p) |-> many(x)]
  BY Zenon DEF PayloadBag, Places
<1>3. \A x : Places(lines, x) = {i \in DOMAIN p : p[i] = x}
  BY DEF Places
<1> HIDE DEF p
<1>4. DOMAIN p = 1..Len(p) /\ Len(p) \in Nat
  BY <1>1
<1>5. ASSUME NEW x
      PROVE  IsFiniteSet(Places(lines, x)) /\ many(x) \in Nat
             /\ (many(x) = 0 <=> x \notin Range(p))
  <2>1. IsFiniteSet(1..Len(p))
    BY <1>4, FS_Interval
  <2>2. IsFiniteSet(Places(lines, x))
    BY <1>3, <1>4, <2>1, FS_Subset
  <2>3. many(x) \in Nat /\ (many(x) = 0 <=> Places(lines, x) = {})
    BY <2>2, FS_CardinalityType, FS_EmptySet
  <2>4. Places(lines, x) = {} <=> x \notin Range(p)
    BY <1>3 DEF Range
  <2> QED
    BY <2>2, <2>3, <2>4
<1>6. Range(p) \in SUBSET Item
  BY <1>1, <1>4 DEF Range
<1> HIDE DEF many
<1>7. [x \in Range(p) |-> many(x)] \in [Range(p) -> Nat \ {0}]
  BY <1>5
<1>8. PayloadBag(lines) \in Stock
  BY <1>2, <1>6, <1>7 DEF Stock
<1>9. \A x : HowMany(PayloadBag(lines), x) = many(x)
  BY <1>2, <1>5 DEF HowMany, BagIn, BagToSet
<1> QED
  BY <1>5, <1>8, <1>9 DEF many

LEMMA SpendSteps ==
  ASSUME NEW bag \in Stock, NEW payload \in Seq(Item)
  PROVE  \E v \in [0..Len(payload) -> [left : Stock, missing : SUBSET Item]] :
            /\ v[0] = [left |-> bag, missing |-> {}] /\ v[Len(payload)] = Spend(bag, payload)
            /\ \A n \in 1..Len(payload) : v[n] = SpendItem(v[n - 1], payload[n])
<1> DEFINE A == [left : Stock, missing : SUBSET Item]
           Fn == [p \in A \X Item |-> SpendItem(p[1], p[2])]
           Is(g) == g = [s \in SUBSET (DOMAIN payload) |->
                      IF s = {} THEN [left |-> bag, missing |-> {}]
                      ELSE SpendItem(g[s \ {Max(s)}], payload[Max(s)])]
           h == CHOOSE g : Is(g)
<1>1. Fn \in [A \X Item -> A] /\ [left |-> bag, missing |-> {}] \in A
  <2>1. ASSUME NEW a \in A, NEW x \in Item
        PROVE  (SpendItem(a, x)) \in A
    <3>1. Less(a.left, x) \in Stock
      BY LessIn
    <3> QED
      BY <3>1 DEF SpendItem
  <2>2. [left |-> bag, missing |-> {}] \in A
    OBVIOUS
  <2> HIDE DEF A
  <2> QED
    BY <2>1, <2>2
<1>2. \A a \in A, x \in Item :
         Fn[<<a, x>>] = SpendItem(a, x)
  <2> HIDE DEF A
  <2> QED
    OBVIOUS
<1>3. Spend(bag, payload) = h[DOMAIN payload]
  BY Zenon DEF Spend, FoldLeft, MapThenFoldSet
<1>4. \A s \in SUBSET (DOMAIN payload) : s # {} => Max(s) \in DOMAIN payload /\ payload[Max(s)] \in Item
  BY MaxMember
<1> HIDE DEF A, Fn
<1>5. \E g : Is(g)
  <2>1. PICK g \in [SUBSET (DOMAIN payload) -> A] : FoldOf(g, Fn, [left |-> bag, missing |-> {}], payload, DOMAIN payload)
    BY <1>1, FoldExists
  <2>2. \A s \in SUBSET (DOMAIN payload) :
           g[s] = IF s = {} THEN [left |-> bag, missing |-> {}]
                  ELSE SpendItem(g[s \ {Max(s)}], payload[Max(s)])
    BY <1>2, <1>4, <2>1 DEF FoldOf
  <2>3. g = [s \in SUBSET (DOMAIN payload) |-> g[s]]
    BY <2>1
  <2>4. Is(g)
    BY <2>2, <2>3, Zenon
  <2> QED
    BY <2>4
<1>6. Is(h)
  BY <1>5, Zenon
<1>7. FoldsWithin(h, Fn, [left |-> bag, missing |-> {}], payload, A)
  <2> HIDE DEF h
  <2> QED
    BY <1>2, <1>4, <1>6 DEF FoldsWithin
<1> DEFINE v == [n \in 0..Len(payload) |-> h[1..n]]
<1>8. /\ v \in [0..Len(payload) -> A] /\ v[0] = [left |-> bag, missing |-> {}]
      /\ v[Len(payload)] = Spend(bag, payload)
  <2> HIDE DEF h
  <2>1. \A n \in 0..Len(payload) : h[1..n] \in A
    BY <1>1, <1>7, FoldStays
  <2>2. 1..0 = {} /\ DOMAIN payload = 1..Len(payload) /\ Len(payload) \in Nat
    OBVIOUS
  <2> QED
    BY <1>3, <1>7, <2>1, <2>2 DEF FoldsWithin
<1>9. \A n \in 1..Len(payload) : v[n] = SpendItem(v[n - 1], payload[n])
  <2> HIDE DEF h
  <2>1. ASSUME NEW n \in 1..Len(payload)
        PROVE  h[1..n] = SpendItem(h[1..(n - 1)], payload[n])
    <3>1. 1..n \in SUBSET (DOMAIN payload) /\ 1..n # {} /\ Max(1..n) = n
          /\ (1..n) \ {n} = 1..(n - 1)
      BY FirstPlaces
    <3>2. h[1..n] = SpendItem(h[(1..n) \ {Max(1..n)}], payload[Max(1..n)])
      BY <1>6, <3>1, Zenon
    <3> QED
      BY <3>1, <3>2
  <2>2. \A n \in 1..Len(payload) : n \in 0..Len(payload) /\ n - 1 \in 0..Len(payload)
    OBVIOUS
  <2> QED
    BY <2>1, <2>2
<1> HIDE DEF v, h
<1> QED
  BY <1>8, <1>9 DEF A

LEMMA SpendIn ==
  ASSUME NEW bag \in Stock, NEW payload \in Seq(Item)
  PROVE  Spend(bag, payload) \in [left : Stock, missing : SUBSET Item]
<1>1. Len(payload) \in 0..Len(payload)
  OBVIOUS
<1>2. \E v \in [0..Len(payload) -> [left : Stock, missing : SUBSET Item]] :
            /\ v[0] = [left |-> bag, missing |-> {}] /\ v[Len(payload)] = Spend(bag, payload)
            /\ \A n \in 1..Len(payload) : v[n] = SpendItem(v[n - 1], payload[n])
  BY SpendSteps
<1> QED
  BY <1>1, <1>2

\* Where an item is found among the declared units, if anywhere.
LEMMA DischargeIn ==
  ASSUME NEW D, NEW acc \in [left : [D -> Stock], missing : SUBSET Item],
         NEW dests, NEW x \in Item
  PROVE  Discharge(dests, acc, x) \in [left : [D -> Stock], missing : SUBSET Item]
<1> DEFINE I == {i \in 1..Len(dests) : BagIn(x, acc.left[dests[i]])}
           first == IF I # {} THEN Min(I) ELSE 0
<1>1. Discharge(dests, acc, x) =
         IF first = 0 THEN [acc EXCEPT !.missing = @ \cup {x}]
         ELSE [acc EXCEPT !.left[dests[first]] = Less(@, x)]
  BY Zenon DEF Discharge, SelectInSeq
<1> HIDE DEF first
<1>2. [acc EXCEPT !.missing = @ \cup {x}] \in [left : [D -> Stock], missing : SUBSET Item]
  OBVIOUS
<1>3. [acc EXCEPT !.left[dests[first]] = Less(@, x)]
         \in [left : [D -> Stock], missing : SUBSET Item]
  <2> DEFINE left == [acc.left EXCEPT ![dests[first]] = Less(@, x)]
  <2>1. dests[first] \in D => Less(acc.left[dests[first]], x) \in Stock
    BY LessIn
  <2>2. left \in [D -> Stock]
    BY <2>1
  <2>3. [acc EXCEPT !.left[dests[first]] = Less(@, x)] = [acc EXCEPT !.left = left]
    OBVIOUS
  <2> HIDE DEF left
  <2> QED
    BY <2>2, <2>3
<1> QED
  BY <1>1, <1>2, <1>3

LEMMA SpendAcrossSteps ==
  ASSUME NEW D, NEW sup \in [D -> Stock], NEW dests, NEW payload \in Seq(Item)
  PROVE  \E v \in [0..Len(payload) -> [left : [D -> Stock], missing : SUBSET Item]] :
            /\ v[0] = [left |-> sup, missing |-> {}] /\ v[Len(payload)] = SpendAcross(sup, dests, payload)
            /\ \A n \in 1..Len(payload) : v[n] = Discharge(dests, v[n - 1], payload[n])
<1> DEFINE A == [left : [D -> Stock], missing : SUBSET Item]
           Fn == [p \in A \X Item |-> Discharge(dests, p[1], p[2])]
           Is(g) == g = [s \in SUBSET (DOMAIN payload) |->
                      IF s = {} THEN [left |-> sup, missing |-> {}]
                      ELSE Discharge(dests, g[s \ {Max(s)}], payload[Max(s)])]
           h == CHOOSE g : Is(g)
<1>1. Fn \in [A \X Item -> A] /\ [left |-> sup, missing |-> {}] \in A
  <2>1. ASSUME NEW a \in A, NEW x \in Item
        PROVE  (Discharge(dests, a, x)) \in A
    <3> QED
      BY DischargeIn
  <2>2. [left |-> sup, missing |-> {}] \in A
    OBVIOUS
  <2> HIDE DEF A
  <2> QED
    BY <2>1, <2>2
<1>2. \A a \in A, x \in Item :
         Fn[<<a, x>>] = Discharge(dests, a, x)
  <2> HIDE DEF A
  <2> QED
    OBVIOUS
<1>3. SpendAcross(sup, dests, payload) = h[DOMAIN payload]
  BY Zenon DEF SpendAcross, FoldLeft, MapThenFoldSet
<1>4. \A s \in SUBSET (DOMAIN payload) : s # {} => Max(s) \in DOMAIN payload /\ payload[Max(s)] \in Item
  BY MaxMember
<1> HIDE DEF A, Fn
<1>5. \E g : Is(g)
  <2>1. PICK g \in [SUBSET (DOMAIN payload) -> A] : FoldOf(g, Fn, [left |-> sup, missing |-> {}], payload, DOMAIN payload)
    BY <1>1, FoldExists
  <2>2. \A s \in SUBSET (DOMAIN payload) :
           g[s] = IF s = {} THEN [left |-> sup, missing |-> {}]
                  ELSE Discharge(dests, g[s \ {Max(s)}], payload[Max(s)])
    BY <1>2, <1>4, <2>1 DEF FoldOf
  <2>3. g = [s \in SUBSET (DOMAIN payload) |-> g[s]]
    BY <2>1
  <2>4. Is(g)
    BY <2>2, <2>3, Zenon
  <2> QED
    BY <2>4
<1>6. Is(h)
  BY <1>5, Zenon
<1>7. FoldsWithin(h, Fn, [left |-> sup, missing |-> {}], payload, A)
  <2> HIDE DEF h
  <2> QED
    BY <1>2, <1>4, <1>6 DEF FoldsWithin
<1> DEFINE v == [n \in 0..Len(payload) |-> h[1..n]]
<1>8. /\ v \in [0..Len(payload) -> A] /\ v[0] = [left |-> sup, missing |-> {}]
      /\ v[Len(payload)] = SpendAcross(sup, dests, payload)
  <2> HIDE DEF h
  <2>1. \A n \in 0..Len(payload) : h[1..n] \in A
    BY <1>1, <1>7, FoldStays
  <2>2. 1..0 = {} /\ DOMAIN payload = 1..Len(payload) /\ Len(payload) \in Nat
    OBVIOUS
  <2> QED
    BY <1>3, <1>7, <2>1, <2>2 DEF FoldsWithin
<1>9. \A n \in 1..Len(payload) : v[n] = Discharge(dests, v[n - 1], payload[n])
  <2> HIDE DEF h
  <2>1. ASSUME NEW n \in 1..Len(payload)
        PROVE  h[1..n] = Discharge(dests, h[1..(n - 1)], payload[n])
    <3>1. 1..n \in SUBSET (DOMAIN payload) /\ 1..n # {} /\ Max(1..n) = n
          /\ (1..n) \ {n} = 1..(n - 1)
      BY FirstPlaces
    <3>2. h[1..n] = Discharge(dests, h[(1..n) \ {Max(1..n)}], payload[Max(1..n)])
      BY <1>6, <3>1, Zenon
    <3> QED
      BY <3>1, <3>2
  <2>2. \A n \in 1..Len(payload) : n \in 0..Len(payload) /\ n - 1 \in 0..Len(payload)
    OBVIOUS
  <2> QED
    BY <2>1, <2>2
<1> HIDE DEF v, h
<1> QED
  BY <1>8, <1>9 DEF A

LEMMA SpendAcrossIn ==
  ASSUME NEW D, NEW sup \in [D -> Stock], NEW dests, NEW payload \in Seq(Item)
  PROVE  SpendAcross(sup, dests, payload) \in [left : [D -> Stock], missing : SUBSET Item]
<1>1. Len(payload) \in 0..Len(payload)
  OBVIOUS
<1>2. \E v \in [0..Len(payload) -> [left : [D -> Stock], missing : SUBSET Item]] :
            /\ v[0] = [left |-> sup, missing |-> {}] /\ v[Len(payload)] = SpendAcross(sup, dests, payload)
            /\ \A n \in 1..Len(payload) : v[n] = Discharge(dests, v[n - 1], payload[n])
  BY SpendAcrossSteps
<1> QED
  BY <1>1, <1>2

-----------------------------------------------------------------------------
(* Units, entries and editions. *)

UnitRef == [hash : Seq(TextLine), occ : Nat]
EntryRef == [hash : Seq(TextLine), occ : Nat, bare : BOOLEAN]
Entry == [unit : EntryRef, op : {"verbatim", "represented", "merged", "cut"},
          dests : Seq(EntryRef), reason : BOOLEAN]
Edition == [head : {None} \cup [hash : Drafts \cup {None}, coverage : Seq(Entry)],
            lines : Seq(TextLine)]

SpendCopies(sup, coverage) == FoldLeft(SpendCopy, sup, coverage)

LEMMA SpendCopySteps ==
  ASSUME NEW D, NEW sup \in [D -> Stock], NEW coverage \in Seq(Entry)
  PROVE  \E v \in [0..Len(coverage) -> [D -> Stock]] :
            /\ v[0] = sup /\ v[Len(coverage)] = SpendCopies(sup, coverage)
            /\ \A n \in 1..Len(coverage) : v[n] = SpendCopy(v[n - 1], coverage[n])
<1> DEFINE A == [D -> Stock]
           Fn == [p \in A \X Entry |-> SpendCopy(p[1], p[2])]
           Is(g) == g = [s \in SUBSET (DOMAIN coverage) |->
                      IF s = {} THEN sup
                      ELSE SpendCopy(g[s \ {Max(s)}], coverage[Max(s)])]
           h == CHOOSE g : Is(g)
<1>1. Fn \in [A \X Entry -> A] /\ sup \in A
  <2>1. ASSUME NEW a \in A, NEW x \in Entry
        PROVE  (SpendCopy(a, x)) \in A
    <3> DEFINE d == Normal(x.dests[1])
               paid == Spend(a[d], Payload(x.unit.hash)).left
    <3>1. SpendCopy(a, x) = IF Copies(x) THEN [a EXCEPT ![d] = paid] ELSE a
      BY DEF SpendCopy
    <3>2. Payload(x.unit.hash) \in Seq(Item)
      <4>1. x.unit.hash \in Seq(TextLine)
        BY DEF Entry, EntryRef
      <4> QED
        BY <4>1, PayloadIn
    <3>3. d \in D => paid \in Stock
      <4>1. SUFFICES ASSUME d \in D  PROVE paid \in Stock
        OBVIOUS
      <4>2. a[d] \in Stock
        BY <4>1
      <4> HIDE DEF d
      <4>3. Spend(a[d], Payload(x.unit.hash)) \in [left : Stock, missing : SUBSET Item]
        BY <3>2, <4>2, SpendIn
      <4> QED
        BY <4>3
    <3> HIDE DEF d, paid
    <3>4. [a EXCEPT ![d] = paid] \in [D -> Stock]
      BY <3>3
    <3> QED
      BY <3>1, <3>4
  <2>2. sup \in A
    OBVIOUS
  <2> HIDE DEF A
  <2> QED
    BY <2>1, <2>2
<1>2. \A a \in A, x \in Entry :
         Fn[<<a, x>>] = SpendCopy(a, x)
  <2> HIDE DEF A
  <2> QED
    OBVIOUS
<1>3. SpendCopies(sup, coverage) = h[DOMAIN coverage]
  BY Zenon DEF SpendCopies, FoldLeft, MapThenFoldSet
<1>4. \A s \in SUBSET (DOMAIN coverage) : s # {} => Max(s) \in DOMAIN coverage /\ coverage[Max(s)] \in Entry
  BY MaxMember
<1> HIDE DEF A, Fn
<1>5. \E g : Is(g)
  <2>1. PICK g \in [SUBSET (DOMAIN coverage) -> A] : FoldOf(g, Fn, sup, coverage, DOMAIN coverage)
    BY <1>1, FoldExists
  <2>2. \A s \in SUBSET (DOMAIN coverage) :
           g[s] = IF s = {} THEN sup
                  ELSE SpendCopy(g[s \ {Max(s)}], coverage[Max(s)])
    BY <1>2, <1>4, <2>1 DEF FoldOf
  <2>3. g = [s \in SUBSET (DOMAIN coverage) |-> g[s]]
    BY <2>1
  <2>4. Is(g)
    BY <2>2, <2>3, Zenon
  <2> QED
    BY <2>4
<1>6. Is(h)
  BY <1>5, Zenon
<1>7. FoldsWithin(h, Fn, sup, coverage, A)
  <2> HIDE DEF h
  <2> QED
    BY <1>2, <1>4, <1>6 DEF FoldsWithin
<1> DEFINE v == [n \in 0..Len(coverage) |-> h[1..n]]
<1>8. /\ v \in [0..Len(coverage) -> A] /\ v[0] = sup
      /\ v[Len(coverage)] = SpendCopies(sup, coverage)
  <2> HIDE DEF h
  <2>1. \A n \in 0..Len(coverage) : h[1..n] \in A
    BY <1>1, <1>7, FoldStays
  <2>2. 1..0 = {} /\ DOMAIN coverage = 1..Len(coverage) /\ Len(coverage) \in Nat
    OBVIOUS
  <2> QED
    BY <1>3, <1>7, <2>1, <2>2 DEF FoldsWithin
<1>9. \A n \in 1..Len(coverage) : v[n] = SpendCopy(v[n - 1], coverage[n])
  <2> HIDE DEF h
  <2>1. ASSUME NEW n \in 1..Len(coverage)
        PROVE  h[1..n] = SpendCopy(h[1..(n - 1)], coverage[n])
    <3>1. 1..n \in SUBSET (DOMAIN coverage) /\ 1..n # {} /\ Max(1..n) = n
          /\ (1..n) \ {n} = 1..(n - 1)
      BY FirstPlaces
    <3>2. h[1..n] = SpendCopy(h[(1..n) \ {Max(1..n)}], coverage[Max(1..n)])
      BY <1>6, <3>1, Zenon
    <3> QED
      BY <3>1, <3>2
  <2>2. \A n \in 1..Len(coverage) : n \in 0..Len(coverage) /\ n - 1 \in 0..Len(coverage)
    OBVIOUS
  <2> QED
    BY <2>1, <2>2
<1> HIDE DEF v, h
<1> QED
  BY <1>8, <1>9 DEF A

LEMMA SpendCopyIn ==
  ASSUME NEW D, NEW sup \in [D -> Stock], NEW coverage \in Seq(Entry)
  PROVE  SpendCopies(sup, coverage) \in [D -> Stock]
<1>1. Len(coverage) \in 0..Len(coverage)
  OBVIOUS
<1>2. \E v \in [0..Len(coverage) -> [D -> Stock]] :
            /\ v[0] = sup /\ v[Len(coverage)] = SpendCopies(sup, coverage)
            /\ \A n \in 1..Len(coverage) : v[n] = SpendCopy(v[n - 1], coverage[n])
  BY SpendCopySteps
<1> QED
  BY <1>1, <1>2

\* The texts a document is made of are sequences of lines.
LEMMA Documents ==
  /\ \A d \in Drafts \cup Bodies : d.lines \in Seq(TextLine)
  /\ None \notin Drafts
  /\ \A b \in Bodies : b.head = None
  /\ Destinations \subseteq Seq(Nat)
BY VoiceAssumption, Zenon DEF VoiceAssumption, TextLine

LEMMA BodyIn ==
  ASSUME NEW doc, doc.lines \in Seq(TextLine)
  PROVE  Body(doc) \in Seq(TextLine)
<1> DEFINE lines == doc.lines
           closers == {i \in 2..Len(lines) : lines[i].k = "delim"}
<1>1. ASSUME closers # {}
      PROVE  SubSeq(lines, Min(closers) + 1, Len(lines)) \in Seq(TextLine)
  <2>1. closers \in SUBSET Nat /\ \A i \in closers : i >= 2
    OBVIOUS
  <2> HIDE DEF closers
  <2>2. PICK x \in closers : \A y \in closers : x <= y
    BY <1>1, <2>1, LeastNatural
  <2>3. Min(closers) \in closers
    BY <2>2, Zenon DEF Min
  <2> DEFINE m == Min(closers)
  <2>4. m \in closers
    BY <2>3
  <2> HIDE DEF m
  <2>5. m + 1 \in Nat /\ m + 1 >= 1
    BY ONLY <2>1, <2>4
  <2>6. SubSeq(lines, m + 1, Len(lines)) \in Seq(TextLine)
    <3>1. Len(lines) \in Nat
      OBVIOUS
    <3>2. \A i \in (m + 1)..Len(lines) : lines[i] \in TextLine
      BY <2>5, <3>1
    <3> HIDE DEF lines
    <3> QED
      BY <2>5, <3>1, <3>2
  <2> QED
    BY <2>6 DEF m
<1>2. \/ StripBlock(lines) = lines
      \/ closers # {} /\ StripBlock(lines) = SubSeq(lines, Min(closers) + 1, Len(lines))
  BY Zenon DEF StripBlock
<1> QED
  BY <1>1, <1>2 DEF Body

LEMMA DeriveIn ==
  ASSUME NEW doc, doc.lines \in Seq(TextLine)
  PROVE  DeriveUnits(doc) \in Seq(UnitRef)
<1> DEFINE contents == GroupUnits(Body(doc))
<1>1. contents \in Seq(Seq(TextLine))
  BY BodyIn, GroupUnitsIn
<1> HIDE DEF contents
<1>2. DOMAIN contents = 1..Len(contents) /\ Len(contents) \in Nat
  BY <1>1
<1>3. ASSUME NEW i \in DOMAIN contents  PROVE Ref(contents, i) \in UnitRef
  <2>1. contents[i] \in Seq(TextLine)
    BY <1>1
  <2>2. IsFiniteSet({j \in 1..(i - 1) : contents[j] = contents[i]})
    <3>1. IsFiniteSet(1..(i - 1))
      BY <1>2, FS_Interval
    <3> QED
      BY <3>1, FS_Subset
  <2>3. Cardinality({j \in 1..(i - 1) : contents[j] = contents[i]}) \in Nat
    BY <2>2, FS_CardinalityType
  <2> QED
    BY <2>1, <2>3 DEF Ref, UnitRef
<1>4. DeriveUnits(doc) = [i \in DOMAIN contents |-> Ref(contents, i)]
  BY Zenon DEF DeriveUnits, contents
<1> QED
  BY <1>2, <1>3, <1>4

\* No two units of a document have one reference: the later of two that read
\* alike counts the earlier.
LEMMA RefsDiffer ==
  ASSUME NEW doc, doc.lines \in Seq(TextLine),
         NEW i \in DOMAIN DeriveUnits(doc), NEW j \in DOMAIN DeriveUnits(doc), i < j
  PROVE  DeriveUnits(doc)[i] # DeriveUnits(doc)[j]
<1> DEFINE contents == GroupUnits(Body(doc))
           same(k) == {l \in 1..(k - 1) : contents[l] = contents[k]}
<1>1. contents \in Seq(Seq(TextLine))
  BY BodyIn, GroupUnitsIn
<1>2. DeriveUnits(doc) = [k \in DOMAIN contents |-> Ref(contents, k)]
  BY Zenon DEF DeriveUnits
<1> HIDE DEF contents
<1>3. i \in Nat /\ j \in Nat /\ i >= 1 /\ DeriveUnits(doc)[i] = Ref(contents, i)
      /\ DeriveUnits(doc)[j] = Ref(contents, j)
  BY <1>1, <1>2
<1> SUFFICES ASSUME Ref(contents, i) = Ref(contents, j)  PROVE FALSE
  BY <1>3
<1>4. contents[i] = contents[j] /\ Cardinality(same(i)) = Cardinality(same(j))
  BY DEF Ref
<1>5. IsFiniteSet(same(j))
  <2>1. IsFiniteSet(1..(j - 1))
    BY <1>3, FS_Interval
  <2> QED
    BY <2>1, FS_Subset
<1>6. same(i) \subseteq same(j) /\ i \in same(j) /\ i \notin same(i)
  BY <1>3, <1>4
<1> HIDE DEF same
<1>7. same(j) = same(i)
  BY <1>4, <1>5, <1>6, FS_Subset
<1> QED
  BY <1>6, <1>7

\* What the reviser writes is an edition.
LEMMA BuildsEdition ==
  ASSUME NEW body \in Bodies, NEW reply \in Seq(Declarable), Buildable(body, reply),
         shown \in Drafts, declared \in Drafts
  PROVE  BuildEdition(body, reply) \in Edition
<1> DEFINE from == DeriveUnits(shown)
           into == DeriveUnits(body)
           dests(i) == [j \in DOMAIN reply[i].to |-> Named(into[reply[i].to[j]])]
           entry(i) == [unit |-> Named(from[i]), op |-> reply[i].op,
                        dests |-> dests(i), reason |-> reply[i].op = "cut"]
           coverage == [i \in DOMAIN reply |-> entry(i)]
<1>1. from \in Seq(UnitRef) /\ into \in Seq(UnitRef)
  BY DeriveIn, Documents
<1>2. Len(reply) = Len(from) /\ \A i \in DOMAIN reply : Range(reply[i].to) \subseteq DOMAIN into
  BY DEF Buildable
<1>3. BuildEdition(body, reply) =
         [head |-> [hash |-> declared, coverage |-> coverage], lines |-> body.lines]
  BY Zenon DEF BuildEdition
<1> HIDE DEF from, into
<1>4. \A r \in UnitRef : Named(r) \in EntryRef
  BY DEF Named, UnitRef, EntryRef
<1>5. ASSUME NEW i \in DOMAIN reply  PROVE entry(i) \in Entry
  <2>1. from[i] \in UnitRef
    BY <1>1, <1>2
  <2>2. reply[i].to \in Seq(Nat) /\ reply[i].op \in {"verbatim", "represented", "merged", "cut"}
    <3>1. reply[i] \in Declarable
      OBVIOUS
    <3>2. CASE reply[i] \in [op : {"verbatim", "represented", "merged"}, to : Destinations]
      <4>1. reply[i].to \in Destinations /\ reply[i].op \in {"verbatim", "represented", "merged"}
        BY <3>2
      <4> QED
        BY <4>1, Documents
    <3>3. CASE reply[i] = [op |-> "cut", to |-> <<>>]
      <4>1. reply[i].to = <<>> /\ reply[i].op = "cut"
        BY <3>3
      <4> QED
        BY <4>1
    <3> QED
      BY <3>1, <3>2, <3>3 DEF Declarable
  <2>3. dests(i) \in Seq(EntryRef)
    <3>1. DOMAIN reply[i].to = 1..Len(reply[i].to) /\ Len(reply[i].to) \in Nat
      BY <2>2
    <3>2. ASSUME NEW j \in DOMAIN reply[i].to  PROVE Named(into[reply[i].to[j]]) \in EntryRef
      <4>1. reply[i].to[j] \in DOMAIN into
        BY <1>2 DEF Range
      <4> QED
        BY <1>1, <1>4, <4>1
    <3> QED
      BY <3>1, <3>2
  <2> HIDE DEF dests
  <2> QED
    BY <1>4, <2>1, <2>2, <2>3 DEF Entry
<1> HIDE DEF entry
<1>6. coverage \in Seq(Entry)
  BY <1>5
<1> HIDE DEF coverage
<1>7. [hash |-> declared, coverage |-> coverage]
         \in {None} \cup [hash : Drafts \cup {None}, coverage : Seq(Entry)]
  BY <1>6
<1>8. body.lines \in Seq(TextLine)
  BY Documents
<1> QED
  BY <1>3, <1>7, <1>8 DEF Edition

-----------------------------------------------------------------------------
(* The inductive invariant: how far the stage says the report has come,    *)
(* what supplies there are, what failures of entries there can be, and     *)
(* where an edition nobody touched came from.                              *)

States == {"passed", "failed", "aborted", "not-run", "reported", "not-checkable"}

Checked == {"hash", "structure", "accounting", "verbatim", "entries", "decided"}

FilesOK ==
  /\ source \in Drafts /\ declared \in Drafts /\ edited \in BOOLEAN /\ at \in Nat
  /\ stage \in {"requested", "asked", "refused", "emitted", "undecided"} \cup Checked
  /\ stage = "asked" => shown = declared
  /\ stage \in {"requested", "asked"} => edition = None
  /\ stage \in {"emitted", "undecided"} \cup Checked => edition # None
  /\ edition # None => edition \in Edition
  /\ stage \in Checked => edition.head # None

\* A check that is entered in the report before the end has passed.
ReportOK ==
  /\ stage \notin {"entries", "decided"} => failures = {}
  /\ stage \in {"requested", "asked", "refused", "emitted", "undecided", "hash"}
        => DOMAIN checks = {}
  /\ stage = "structure" => DOMAIN checks = {"source_hash"}
  /\ stage = "accounting" => DOMAIN checks = {"source_hash", "ledger_structure"}
  /\ stage \in {"verbatim", "entries"}
        => DOMAIN checks = {"source_hash", "ledger_structure", "unit_accounting"}
  /\ stage # "decided" => \A c \in DOMAIN checks : checks[c] = "passed"
  /\ stage = "decided" => /\ DOMAIN checks \subseteq Required \cup {"op_obligations"}
                          /\ \A c \in DOMAIN checks : checks[c] \in States

SuppliesOK ==
  /\ supply \in [DOMAIN supply -> Stock]
  /\ stage \notin {"entries", "decided"} => DOMAIN supply = {}
  /\ stage \in {"entries", "decided"} => DOMAIN supply \subseteq Range(EditionUnits)

EntryKinds == Kinds \cup {"destination", "verbatim", "structural"}

\* A destination that does not resolve has been recorded once its entry is past.
EntriesOK ==
  stage = "entries" =>
    /\ at >= 1
    /\ \A f \in failures : f.kind \in EntryKinds
    /\ \A i \in DOMAIN Coverage :
          i < at /\ Coverage[i].op # "cut" /\ Missing(Coverage[i]) # {} => failures # {}

Emitted ==
  /\ shown = declared
  /\ \E body \in Bodies, reply \in Seq(Declarable) :
        Buildable(body, reply) /\ edition = BuildEdition(body, reply)

OwnOK == ~edited => source = declared /\ (edition # None => Emitted)

VoiceInv ==
  /\ FilesOK /\ ReportOK /\ SuppliesOK /\ EntriesOK /\ OwnOK
  /\ VerdictMatchesFailures /\ OwnEditionResolves

\* An edition nobody touched, whose text does not open with a block.
Own == edition # None /\ ~edited /\ StripBlock(edition.lines) = edition.lines

LEMMA CoverageIn ==
  ASSUME FilesOK, edition # None, edition.head # None
  PROVE  Coverage \in Seq(Entry) /\ edition.head.hash \in Drafts \cup {None}
BY DEF FilesOK, Edition, Coverage

\* Its ledger has one entry for each paragraph of the source, names no others,
\* and names only paragraphs that it has.
LEMMA OwnAccounts ==
  ASSUME FilesOK, OwnOK, Own
  PROVE  /\ edition.head # None /\ edition.head.hash = source
         /\ \A u \in Range(SourceUnits) : Cardinality(EntriesFor(u)) = 1
         /\ \A i \in DOMAIN Coverage : Normal(Coverage[i].unit) \in Range(SourceUnits)
         /\ \A i \in DOMAIN Coverage : Missing(Coverage[i]) = {}
<1>1. source = declared /\ shown = declared /\ source \in Drafts
  BY DEF OwnOK, Own, Emitted, FilesOK
<1>2. PICK body \in Bodies, reply \in Seq(Declarable) :
         Buildable(body, reply) /\ edition = BuildEdition(body, reply)
  BY DEF OwnOK, Own, Emitted
<1> DEFINE from == DeriveUnits(shown)
           into == DeriveUnits(body)
           dests(i) == [j \in DOMAIN reply[i].to |-> Named(into[reply[i].to[j]])]
           entry(i) == [unit |-> Named(from[i]), op |-> reply[i].op,
                        dests |-> dests(i), reason |-> reply[i].op = "cut"]
           coverage == [i \in DOMAIN reply |-> entry(i)]
<1>3. edition = [head |-> [hash |-> declared, coverage |-> coverage], lines |-> body.lines]
  BY <1>2, Zenon DEF BuildEdition
<1>4. Coverage = coverage /\ edition.head.hash = source /\ edition.lines = body.lines
  BY <1>1, <1>3 DEF Coverage
<1>5. edition.head # None
  <2>1. edition.head = [hash |-> declared, coverage |-> coverage]
    BY <1>3
  <2>2. [hash |-> declared, coverage |-> coverage] # [none |-> TRUE]
    OBVIOUS
  <2> QED
    BY <2>1, <2>2 DEF None
<1>6. from \in Seq(UnitRef) /\ into \in Seq(UnitRef)
  BY <1>1, DeriveIn, Documents
<1>7. EditionUnits = into
  <2>1. Body(edition) = edition.lines
    BY <1>5 DEF Body
  <2>2. Body(body) = StripBlock(body.lines)
    BY Documents DEF Body
  <2>3. Body(edition) = Body(body)
    BY <1>4, <2>1, <2>2 DEF Own
  <2> QED
    BY <2>3 DEF EditionUnits, DeriveUnits
<1>8. SourceUnits = from
  BY <1>1 DEF SourceUnits
<1>9. \A i, j \in DOMAIN from : from[i] = from[j] => i = j
  <2> SUFFICES ASSUME NEW i \in DOMAIN from, NEW j \in DOMAIN from, from[i] = from[j], i # j
               PROVE  FALSE
    BY Zenon
  <2>1. i \in Nat /\ j \in Nat
    BY <1>6
  <2>2. shown.lines \in Seq(TextLine)
    BY <1>1, Documents
  <2>3. CASE i < j
    BY <2>2, <2>3, RefsDiffer
  <2>4. CASE j < i
    BY <2>2, <2>4, RefsDiffer
  <2> QED
    BY <2>1, <2>3, <2>4
<1>10. Len(reply) = Len(from) /\ \A i \in DOMAIN reply : Range(reply[i].to) \subseteq DOMAIN into
  BY <1>2 DEF Buildable
<1> HIDE DEF from, into
<1>11. DOMAIN reply = DOMAIN from
  BY <1>6, <1>10
<1>12. \A r \in UnitRef : Normal(Named(r)) = r
  BY DEF Normal, Named, UnitRef
<1>13. ASSUME NEW i \in DOMAIN reply
       PROVE  Normal(coverage[i].unit) = from[i] /\ coverage[i].dests = dests(i)
  <2>1. from[i] \in UnitRef
    BY <1>6, <1>11
  <2>2. coverage[i] = entry(i)
    BY Zenon
  <2>3. coverage[i].unit = Named(from[i]) /\ coverage[i].dests = dests(i)
    BY <2>2
  <2> QED
    BY <1>12, <2>1, <2>3
<1>14. DOMAIN coverage = DOMAIN reply
  OBVIOUS
<1>15. ASSUME NEW i \in DOMAIN reply  PROVE Missing(coverage[i]) = {}
  <2>1. coverage[i].dests = dests(i)
    BY <1>13
  <2> DEFINE to == reply[i].to
  <2>2. NormalDests(coverage[i]) = [j \in DOMAIN to |-> Normal(Named(into[to[j]]))]
    <3> HIDE DEF coverage
    <3> QED
      BY <2>1 DEF NormalDests
  <2>3. \A j \in DOMAIN to : Normal(Named(into[to[j]])) \in Range(into)
    <3>1. ASSUME NEW j \in DOMAIN to  PROVE Normal(Named(into[to[j]])) \in Range(into)
      <4>1. to[j] \in DOMAIN into
        BY <1>10 DEF Range
      <4>2. into[to[j]] \in UnitRef /\ into[to[j]] \in Range(into)
        BY <1>6, <4>1 DEF Range
      <4> QED
        BY <1>12, <4>2
    <3> QED
      BY <3>1
  <2> HIDE DEF coverage, dests, to
  <2> QED
    BY <1>7, <2>2, <2>3 DEF Missing, Range
<1> HIDE DEF coverage, entry, dests
<1>16. ASSUME NEW u \in Range(SourceUnits)  PROVE Cardinality(EntriesFor(u)) = 1
  <2>1. PICK k \in DOMAIN from : u = from[k]
    BY <1>8 DEF Range
  <2>2. EntriesFor(u) = {k}
    BY <1>4, <1>9, <1>11, <1>13, <1>14, <2>1 DEF EntriesFor
  <2> QED
    BY <2>2, FS_Singleton
<1>17. \A i \in DOMAIN Coverage : Normal(Coverage[i].unit) \in Range(SourceUnits)
  BY <1>4, <1>8, <1>11, <1>13, <1>14 DEF Range
<1>18. \A i \in DOMAIN Coverage : Missing(Coverage[i]) = {}
  BY <1>4, <1>14, <1>15
<1> QED
  BY <1>4, <1>5, <1>16, <1>17, <1>18

-----------------------------------------------------------------------------
(* What each step of the validator does to the report. *)

LEMMA AbortReport ==
  ASSUME NEW check, NEW rest, check \in Required, rest \subseteq Required,
         DOMAIN checks \subseteq Required, \A c \in DOMAIN checks : checks[c] = "passed",
         Abort(check, rest)
  PROVE  /\ stage' = "decided" /\ failures' = {[kind |-> check, entry |-> 0]}
         /\ DOMAIN checks' \subseteq Required \cup {"op_obligations"}
         /\ \A c \in DOMAIN checks' : checks'[c] \in States
         /\ VerdictMatchesFailures'
<1> DEFINE one == [c \in {check} |-> "failed"]
           two == [c \in rest |-> "aborted"]
           a == Report(one, checks)
           b == Report(a, two)
<1>1. stage' = "decided" /\ failures' = {[kind |-> check, entry |-> 0]}
      /\ checks' = Report(b, Boundary)
  BY DEF Abort
<1>2. DOMAIN a = {check} \cup DOMAIN checks /\ a[check] = "failed"
      /\ \A c \in DOMAIN a : a[c] \in {"failed", "passed"}
  BY DEF Report
<1> HIDE DEF a
<1>3. DOMAIN b = DOMAIN a \cup rest /\ b[check] = "failed"
      /\ \A c \in DOMAIN b : b[c] \in {"failed", "passed", "aborted"}
  BY <1>2 DEF Report
<1> HIDE DEF b
<1>4. DOMAIN Boundary = {"semantic_claim_fidelity", "voice_conformance"}
      /\ \A c \in DOMAIN Boundary : Boundary[c] = "not-checkable"
  BY DEF Boundary
<1>5. DOMAIN checks' = DOMAIN b \cup DOMAIN Boundary /\ checks'[check] = "failed"
      /\ \A c \in DOMAIN checks' : checks'[c] \in {"failed", "passed", "aborted", "not-checkable"}
  BY <1>1, <1>2, <1>3, <1>4 DEF Report
<1>6. DOMAIN checks' \subseteq Required \cup {"op_obligations"}
  BY <1>2, <1>3, <1>4, <1>5 DEF Required
<1>7. ~Passed'
  <2>1. check \in DOMAIN checks'
    BY <1>2, <1>3, <1>5
  <2>2. BlocksVerdict(checks'[check])
    BY <1>5 DEF BlocksVerdict
  <2> QED
    BY <2>1, <2>2 DEF Passed
<1>8. VerdictMatchesFailures'
  BY <1>1, <1>7 DEF VerdictMatchesFailures
<1> QED
  BY <1>1, <1>5, <1>6, <1>8 DEF States

LEMMA PassReport ==
  ASSUME NEW check, NEW next, \A c \in DOMAIN checks : checks[c] = "passed",
         Pass(check, next)
  PROVE  /\ stage' = next /\ failures' = failures
         /\ DOMAIN checks' = DOMAIN checks \cup {check}
         /\ \A c \in DOMAIN checks' : checks'[c] = "passed"
BY DEF Pass, Report

\* An entry that is checked records what of it is missing, and nothing else.
LEMMA EntryRecords ==
  ASSUME FilesOK, SuppliesOK, EntriesOK, CheckEntry
  PROVE  /\ failures \subseteq failures'
         /\ \A f \in failures' \ failures :
               /\ f.kind \in EntryKinds
               /\ f.kind = "destination" => Missing(Coverage[at]) # {}
         /\ Coverage[at].op # "cut" /\ Missing(Coverage[at]) # {} => failures' # {}
         /\ supply' \in [DOMAIN supply -> Stock]
<1> DEFINE e == Coverage[at]
           spent == SpendAcross(supply, NormalDests(e), Payload(e.unit.hash))
           survives == e.op \in {"represented", "merged"} /\ Missing(e) = {}
           dangling == IF e.op # "cut" /\ Missing(e) # {} THEN {"destination"} ELSE {}
           copied == IF e.op = "verbatim" /\ Missing(e) = {} /\ ~Copies(e)
                     THEN {"verbatim"} ELSE {}
           lost == IF survives THEN {x[1] : x \in spent.missing} ELSE {}
           shared == IF e.op = "merged" /\ ~Shares([i \in DOMAIN Coverage |->
                                             NormalDests(Coverage[i])], at)
                     THEN {"structural"} ELSE {}
           kinds == dangling \cup copied \cup lost \cup shared
<1>1. failures' = failures \cup Failed(kinds)
      /\ supply' = (IF survives THEN spent.left ELSE supply)
      /\ stage = "entries" /\ at <= Len(Coverage)
  BY Zenon DEF CheckEntry
<1>2. e \in Entry
  <2>1. Coverage \in Seq(Entry)
    BY <1>1, CoverageIn DEF FilesOK, Checked
  <2>2. at \in Nat /\ at >= 1
    BY <1>1 DEF FilesOK, EntriesOK
  <2> QED
    BY <1>1, <2>1, <2>2
<1>3. spent \in [left : [DOMAIN supply -> Stock], missing : SUBSET Item]
  <2>1. e.unit.hash \in Seq(TextLine)
    BY <1>2 DEF Entry, EntryRef
  <2>2. Payload(e.unit.hash) \in Seq(Item)
    BY <2>1, PayloadIn
  <2>3. supply \in [DOMAIN supply -> Stock]
    BY DEF SuppliesOK
  <2> HIDE DEF e
  <2> QED
    BY <2>2, <2>3, SpendAcrossIn
<1> HIDE DEF spent
<1>4. supply' \in [DOMAIN supply -> Stock]
  BY <1>1, <1>3 DEF SuppliesOK
<1>5. lost \subseteq Kinds
  BY <1>3 DEF Item
<1>6. "destination" \notin Kinds
  BY DEF Kinds
<1> HIDE DEF lost, survives
<1>7. kinds \subseteq EntryKinds /\ ("destination" \in kinds => Missing(e) # {})
  <2>1. dangling \subseteq {"destination"} /\ ("destination" \in dangling => Missing(e) # {})
    OBVIOUS
  <2>2. copied \subseteq {"verbatim"} /\ shared \subseteq {"structural"}
    OBVIOUS
  <2> HIDE DEF dangling, copied, shared
  <2> QED
    BY <1>5, <1>6, <2>1, <2>2 DEF EntryKinds
<1>8. e.op # "cut" /\ Missing(e) # {} => "destination" \in kinds
  OBVIOUS
<1> HIDE DEF kinds
<1>9. Failed(kinds) = {[kind |-> k, entry |-> at] : k \in kinds}
  BY DEF Failed
<1>10. \A f \in Failed(kinds) : f.kind \in kinds
  BY <1>9
<1>11. "destination" \in kinds => Failed(kinds) # {}
  BY <1>9
<1>12. \A f \in failures' \ failures :
          f.kind \in EntryKinds /\ (f.kind = "destination" => Missing(e) # {})
  BY <1>1, <1>7, <1>10
<1>13. failures \subseteq failures'
  BY <1>1
<1>14. e.op # "cut" /\ Missing(e) # {} => failures' # {}
  BY <1>1, <1>8, <1>11
<1> HIDE DEF e
<1> QED
  BY <1>4, <1>12, <1>13, <1>14 DEF e

\* Every kind of failure flips a check that blocks the verdict; and without a
\* failure no check is flipped.
LEMMA ConcludeReport ==
  ASSUME FilesOK, ReportOK, EntriesOK, Conclude
  PROVE  /\ stage' = "decided"
         /\ DOMAIN checks' \subseteq Required \cup {"op_obligations"}
         /\ \A c \in DOMAIN checks' : checks'[c] \in States
         /\ VerdictMatchesFailures'
<1> DEFINE named == Payloads \cup (Affected \cap {"op_obligations"})
           last == [c \in named |-> StateOf(c)]
           a == Report(checks, Boundary)
<1>1. stage = "entries" /\ at > Len(Coverage) /\ stage' = "decided"
      /\ checks' = Report(a, last)
      /\ failures' = failures \cup
            (IF ForgesNothing THEN {} ELSE {[kind |-> "forged", entry |-> 0]})
  BY Zenon DEF Conclude
<1> HIDE DEF named
<1>2. DOMAIN checks = {"source_hash", "ledger_structure", "unit_accounting"}
      /\ \A c \in DOMAIN checks : checks[c] = "passed"
  BY <1>1 DEF ReportOK
<1>3. DOMAIN a = {"source_hash", "ledger_structure", "unit_accounting",
                  "semantic_claim_fidelity", "voice_conformance"}
      /\ \A c \in DOMAIN a : a[c] \in {"passed", "not-checkable"}
  BY <1>2 DEF Report, Boundary
<1> HIDE DEF a
<1>4. \A c \in named : StateOf(c) \in States
  BY DEF StateOf, States
<1>5. DOMAIN checks' = DOMAIN a \cup named
      /\ (\A c \in DOMAIN a : checks'[c] \in {"passed", "not-checkable"})
      /\ \A c \in named \ DOMAIN a : checks'[c] = StateOf(c)
  BY <1>1, <1>3 DEF Report
<1>6. Payloads \subseteq named /\ named \subseteq Payloads \cup {"op_obligations"}
      /\ ("op_obligations" \in Affected => "op_obligations" \in named)
  BY DEF named
<1>7. named \cap DOMAIN a = {}
  BY <1>3, <1>6 DEF Payloads
<1>8. Required \subseteq DOMAIN checks' /\ DOMAIN checks' \subseteq Required \cup {"op_obligations"}
  BY <1>3, <1>5, <1>6 DEF Required, Payloads
<1>9. \A c \in DOMAIN checks' : checks'[c] \in States
  BY <1>3, <1>4, <1>5 DEF States
<1>10. ASSUME failures' # {}  PROVE ~Passed'
  <2>1. ASSUME NEW c \in named, StateOf(c) = "failed"  PROVE ~Passed'
    <3>1. checks'[c] = "failed" /\ c \in DOMAIN checks'
      BY <1>5, <1>7, <2>1
    <3> QED
      BY <3>1 DEF Passed, BlocksVerdict
  <2>2. CASE ~ForgesNothing
    <3>1. StateOf("citations") = "failed"
      BY <2>2 DEF StateOf
    <3> QED
      BY <1>6, <2>1, <3>1 DEF Payloads
  <2>3. CASE ForgesNothing
    <3>1. PICK f \in failures : TRUE
      BY <1>1, <1>10, <2>3
    <3>2. f.kind \in EntryKinds /\ CheckForKind(f.kind) \in Affected
      BY <1>1 DEF EntriesOK, Affected
    <3>3. CheckForKind(f.kind) \in
             {"verbatim_quotes", "citations", "numeric_literals", "lexicon", "op_obligations"}
      BY DEF CheckForKind
    <3>4. CheckForKind(f.kind) = "lexicon" => Lexicon # {}
      BY <3>2 DEF CheckForKind, EntryKinds, Kinds
    <3>5. StateOf(CheckForKind(f.kind)) = "failed"
      BY <3>2, <3>3, <3>4 DEF StateOf
    <3>6. CheckForKind(f.kind) \in named
      BY <1>6, <3>2, <3>3 DEF Payloads
    <3> QED
      BY <2>1, <3>5, <3>6
  <2> QED
    BY <2>2, <2>3
<1>11. ASSUME failures' = {}  PROVE Passed'
  <2>1. failures = {} /\ ForgesNothing
    BY <1>1, <1>11
  <2>2. Coverage \in Seq(Entry) /\ at \in Nat
    BY <1>1, CoverageIn DEF FilesOK, Checked
  <2>3. ASSUME NEW i \in DOMAIN Coverage  PROVE Unresolved(Coverage[i]) = {}
    <3>1. i < at
      BY <1>1, <2>2
    <3>2. Coverage[i].op = "cut" \/ Missing(Coverage[i]) = {}
      BY <1>1, <2>1, <3>1 DEF EntriesOK
    <3> QED
      BY <3>2, Zenon DEF Unresolved
  <2>4. Affected = {}
    BY <2>1, <2>3 DEF Affected
  <2>5. \A c \in named : ~BlocksVerdict(StateOf(c))
    BY <2>1, <2>4 DEF StateOf, BlocksVerdict
  <2>6. \A c \in DOMAIN checks' : ~BlocksVerdict(checks'[c])
    <3>1. \A c \in DOMAIN a : ~BlocksVerdict(checks'[c])
      BY <1>5 DEF BlocksVerdict
    <3> QED
      BY <1>5, <1>7, <2>5, <3>1
  <2> QED
    BY <1>1, <1>8, <2>6 DEF Passed
<1>12. VerdictMatchesFailures'
  BY <1>10, <1>11 DEF VerdictMatchesFailures
<1> QED
  BY <1>1, <1>8, <1>9, <1>12

-----------------------------------------------------------------------------
(* Every step keeps the invariant. *)

LEMMA VoiceStarts == VoiceInit => VoiceInv
<1> SUFFICES ASSUME VoiceInit  PROVE VoiceInv
  OBVIOUS
<1>1. source \in Drafts /\ declared = source /\ shown = None /\ edition = None
      /\ stage = "requested" /\ edited = FALSE /\ failures = {} /\ at = 0
      /\ DOMAIN checks = {} /\ supply = [d \in {} |-> EmptyBag]
  BY DEF VoiceInit
<1>2. FilesOK /\ ReportOK /\ EntriesOK /\ OwnOK /\ VerdictMatchesFailures /\ OwnEditionResolves
  BY <1>1 DEF FilesOK, Checked, ReportOK, EntriesOK, OwnOK, VerdictMatchesFailures,
              OwnEditionResolves
<1>3. SuppliesOK
  BY <1>1 DEF SuppliesOK
<1> QED
  BY <1>2, <1>3 DEF VoiceInv

\* A step before the validator's: no report, no supplies and no failures yet.
Early == {"requested", "asked", "refused", "emitted", "undecided", "hash"}

LEMMA BeforeReport ==
  ASSUME VoiceInv, stage \in Early, stage' \in Early,
         UNCHANGED <<checks, failures, supply, at>>, FilesOK', OwnOK'
  PROVE  VoiceInv'
<1>1. failures = {} /\ DOMAIN checks = {} /\ DOMAIN supply = {}
      /\ \A c \in DOMAIN checks : checks[c] = "passed"
  BY DEF VoiceInv, ReportOK, SuppliesOK, Early
<1>2. ReportOK' /\ EntriesOK' /\ VerdictMatchesFailures' /\ OwnEditionResolves'
  BY <1>1 DEF ReportOK, EntriesOK, VerdictMatchesFailures, OwnEditionResolves, Early
<1>3. SuppliesOK'
  BY <1>1 DEF SuppliesOK, Early, VoiceInv
<1> QED
  BY <1>2, <1>3 DEF VoiceInv

LEMMA RequestSteps ==
  ASSUME VoiceInv, ReadRequest \/ ModelFails
  PROVE  VoiceInv'
<1>1. stage \in {"requested", "asked"} /\ stage' \in {"asked", "refused"}
      /\ UNCHANGED <<source, declared, edition, edited, checks, failures, supply, at>>
      /\ (stage' = "asked" => shown' = source /\ source = declared)
  BY DEF ReadRequest, ModelFails
<1>2. edition = None
  BY <1>1 DEF VoiceInv, FilesOK
<1>3. FilesOK'
  BY <1>1, <1>2 DEF VoiceInv, FilesOK, Checked
<1>4. OwnOK'
  BY <1>1, <1>2 DEF VoiceInv, OwnOK
<1> QED
  BY <1>1, <1>3, <1>4, BeforeReport DEF Early

LEMMA ReviseStep ==
  ASSUME VoiceInv, Revise
  PROVE  VoiceInv'
<1>1. stage = "asked" /\ UNCHANGED <<source, declared, shown, edited, checks, failures, supply, at>>
  BY DEF Revise
<1>2. shown = declared /\ declared \in Drafts
  BY <1>1 DEF VoiceInv, FilesOK
<1>3. PICK body \in Bodies, n \in {Len(DeriveUnits(shown)), 1} :
        \E reply \in [1..n -> Declarable] :
          IF Buildable(body, reply)
          THEN edition' = BuildEdition(body, reply) /\ stage' = "emitted"
          ELSE edition' = None /\ stage' = "refused"
  BY Zenon DEF Revise
<1>4. PICK reply \in [1..n -> Declarable] :
          IF Buildable(body, reply)
          THEN edition' = BuildEdition(body, reply) /\ stage' = "emitted"
          ELSE edition' = None /\ stage' = "refused"
  BY <1>3
<1>5. reply \in Seq(Declarable)
  <2>1. DeriveUnits(shown) \in Seq(UnitRef)
    BY <1>2, DeriveIn, Documents
  <2>2. n \in Nat
    BY <2>1
  <2> QED
    BY <2>2
<1>6. CASE Buildable(body, reply)
  <2>1. edition' = BuildEdition(body, reply) /\ stage' = "emitted"
    BY <1>4, <1>6
  <2>2. edition' \in Edition
    BY <1>2, <1>5, <1>6, <2>1, BuildsEdition
  <2>3. edition' # None
    <3>1. DOMAIN edition' = {"head", "lines"} /\ DOMAIN None = {"none"}
      BY <2>2 DEF Edition, None
    <3> QED
      BY <3>1
  <2>4. FilesOK'
    BY <1>1, <2>1, <2>2, <2>3 DEF VoiceInv, FilesOK, Checked
  <2>5. Emitted'
    <3>1. Buildable(body, reply)' /\ edition' = BuildEdition(body, reply)'
      BY <1>1, <1>6, <2>1 DEF Buildable, BuildEdition
    <3> QED
      BY <1>1, <1>2, <1>5, <3>1 DEF Emitted
  <2>6. OwnOK'
    BY <1>1, <2>5 DEF VoiceInv, OwnOK
  <2> QED
    BY <1>1, <2>1, <2>4, <2>6, BeforeReport DEF Early
<1>7. CASE ~Buildable(body, reply)
  <2>1. edition' = None /\ stage' = "refused"
    BY <1>4, <1>7
  <2>2. FilesOK' /\ OwnOK'
    BY <1>1, <2>1 DEF VoiceInv, FilesOK, Checked, OwnOK
  <2> QED
    BY <1>1, <2>1, <2>2, BeforeReport DEF Early
<1> QED
  BY <1>6, <1>7

LEMMA HandSteps ==
  ASSUME VoiceInv, EditSource \/ EditBody \/ DropHead \/ EditLedger
  PROVE  VoiceInv'
<1>1. /\ stage \in {"requested", "asked", "emitted"} /\ ~edited /\ edited' = TRUE
      /\ UNCHANGED <<declared, shown, stage, checks, failures, supply, at>>
  BY DEF EditSource, EditBody, DropHead, EditLedger, ByHand
<1>2. OwnOK'
  BY <1>1 DEF OwnOK
<1>3. SUFFICES FilesOK'
  BY <1>1, <1>2, BeforeReport DEF Early
<1>4. CASE EditSource
  BY <1>1, <1>4 DEF EditSource, VoiceInv, FilesOK, Checked
<1>5. CASE EditBody \/ DropHead \/ EditLedger
  <2>1. stage = "emitted" /\ source' = source /\ edition \in Edition
    BY <1>5 DEF EditBody, DropHead, EditLedger, ByHand, VoiceInv, FilesOK
  <2>2. SUFFICES edition' \in Edition
    <3>1. edition' \in Edition => edition' # None
      <4>1. SUFFICES ASSUME edition' \in Edition  PROVE DOMAIN edition' # DOMAIN None
        BY Zenon
      <4> QED
        BY <4>1 DEF Edition, None
    <3> QED
      BY <1>1, <2>1, <2>2, <3>1 DEF VoiceInv, FilesOK, Checked
  <2>3. CASE EditBody
    <3>1. PICK b \in Bodies : edition' = [edition EXCEPT !.lines = b.lines]
      BY <2>3 DEF EditBody
    <3>2. b.lines \in Seq(TextLine)
      BY Documents
    <3> QED
      BY <2>1, <3>1, <3>2 DEF Edition
  <2>4. CASE DropHead
    BY <2>1, <2>4 DEF DropHead, Edition
  <2>5. CASE EditLedger
    <3> DEFINE cov == edition.head.coverage
    <3>1. edition.head \in [hash : Drafts \cup {None}, coverage : Seq(Entry)]
      <4>1. edition # None /\ Emitted
        BY <1>1, <2>1 DEF VoiceInv, FilesOK, OwnOK
      <4>2. PICK body \in Bodies, reply \in Seq(Declarable) : edition = BuildEdition(body, reply)
        BY <4>1 DEF Emitted
      <4>3. "hash" \in DOMAIN edition.head
        BY <4>2 DEF BuildEdition
      <4>4. DOMAIN None = {"none"}
        BY DEF None
      <4> QED
        BY <2>1, <4>3, <4>4 DEF Edition
    <3>2. cov \in Seq(Entry)
      BY <3>1
    <3>3. PICK i \in DOMAIN cov : \E new \in
               {RemoveAt(cov, i), Append(cov, [cov[i] EXCEPT !.unit.bare = TRUE])}
               \cup {[cov EXCEPT ![i].op = op] :
                        op \in {"verbatim", "represented", "merged", "cut"}} :
              \/ edition' = [edition EXCEPT !.head.coverage = new]
              \/ edition' = [edition EXCEPT !.head.hash = None]
      BY <2>5, Zenon DEF EditLedger
    <3>4. PICK new \in
               {RemoveAt(cov, i), Append(cov, [cov[i] EXCEPT !.unit.bare = TRUE])}
               \cup {[cov EXCEPT ![i].op = op] :
                        op \in {"verbatim", "represented", "merged", "cut"}} :
              \/ edition' = [edition EXCEPT !.head.coverage = new]
              \/ edition' = [edition EXCEPT !.head.hash = None]
      BY <3>3
    <3> HIDE DEF cov
    <3>5. cov[i] \in Entry /\ i \in Nat /\ i >= 1 /\ i <= Len(cov) /\ Len(cov) \in Nat
      BY <3>2
    <3>6. new \in Seq(Entry)
      <4>1. RemoveAt(cov, i) \in Seq(Entry)
        <5>1. SubSeq(cov, 1, i - 1) \in Seq(Entry) /\ SubSeq(cov, i + 1, Len(cov)) \in Seq(Entry)
          <6>1. \A k \in 1..(i - 1) : cov[k] \in Entry
            BY <3>2, <3>5
          <6>2. \A k \in (i + 1)..Len(cov) : cov[k] \in Entry
            BY <3>2, <3>5
          <6> QED
            BY <3>2, <3>5, <6>1, <6>2
        <5> QED
          BY <5>1 DEF RemoveAt
      <4>2. [cov[i] EXCEPT !.unit.bare = TRUE] \in Entry
        BY <3>5 DEF Entry, EntryRef
      <4>3. Append(cov, [cov[i] EXCEPT !.unit.bare = TRUE]) \in Seq(Entry)
        BY <3>2, <4>2
      <4>4. ASSUME NEW op \in {"verbatim", "represented", "merged", "cut"}
            PROVE  [cov EXCEPT ![i].op = op] \in Seq(Entry)
        <5>1. [cov[i] EXCEPT !.op = op] \in Entry
          BY <3>5 DEF Entry
        <5>2. [cov EXCEPT ![i].op = op] = [cov EXCEPT ![i] = [cov[i] EXCEPT !.op = op]]
          OBVIOUS
        <5> QED
          BY <3>2, <3>5, <5>1, <5>2
      <4> QED
        BY <3>4, <4>1, <4>3, <4>4
    <3>7. [edition EXCEPT !.head.coverage = new] \in Edition
      BY <2>1, <3>1, <3>6 DEF Edition
    <3>8. [edition EXCEPT !.head.hash = None] \in Edition
      BY <2>1, <3>1 DEF Edition
    <3> QED
      BY <3>4, <3>7, <3>8
  <2> QED
    BY <1>5, <2>3, <2>4, <2>5
<1> QED
  BY <1>4, <1>5

\* The validator changes neither the source nor the edition.
Unmoved == UNCHANGED <<source, declared, shown, edition, edited>>

LEMMA UnmovedKeeps ==
  ASSUME VoiceInv, Unmoved
  PROVE  /\ OwnOK' /\ (Own' <=> Own)
         /\ EditionUnits' = EditionUnits /\ Coverage' = Coverage
         /\ \A i : Missing(Coverage[i])' = Missing(Coverage[i])
<1>1. Own' <=> Own
  BY DEF Unmoved, Own
<1>2. EditionUnits' = EditionUnits /\ Coverage' = Coverage
  BY DEF Unmoved, EditionUnits, Coverage
<1>3. \A i : Missing(Coverage[i])' = Missing(Coverage[i])
  BY <1>2 DEF Missing
<1>4. Emitted => Emitted'
  BY ZenonT(60) DEF Unmoved, Emitted, Buildable, BuildEdition
<1>5. OwnOK'
  BY <1>4 DEF VoiceInv, OwnOK, Unmoved
<1> QED
  BY <1>1, <1>2, <1>3, <1>5

LEMMA OwnResolves ==
  ASSUME VoiceInv, Own, edition.head # None
  PROVE  /\ edition.head.hash = source
         /\ \A u \in Range(SourceUnits) : Cardinality(EntriesFor(u)) = 1
         /\ \A i \in DOMAIN Coverage : Normal(Coverage[i].unit) \in Range(SourceUnits)
         /\ \A i \in DOMAIN Coverage : Missing(Coverage[i]) = {}
BY OwnAccounts DEF VoiceInv

LEMMA ReadLedgerStep ==
  ASSUME VoiceInv, ReadLedger
  PROVE  VoiceInv'
<1>1. stage = "emitted" /\ Unmoved /\ UNCHANGED <<checks, failures, supply, at>>
      /\ stage' = IF edition.head = None THEN "undecided" ELSE "hash"
  BY DEF ReadLedger, Unmoved
<1>2. FilesOK'
  BY <1>1 DEF VoiceInv, FilesOK, Checked, Unmoved
<1> QED
  BY <1>1, <1>2, UnmovedKeeps, BeforeReport DEF Early

\* A check that fails early ends the run.
LEMMA AbortStep ==
  ASSUME VoiceInv, stage \in {"hash", "structure", "accounting"},
         NEW check, NEW rest, check \in Required, rest \subseteq Required,
         Abort(check, rest), Unmoved, UNCHANGED <<supply, at>>,
         Own => check \notin {"source_hash", "unit_accounting", "destination"}
  PROVE  VoiceInv'
<1>1. DOMAIN checks \subseteq Required /\ \A c \in DOMAIN checks : checks[c] = "passed"
  BY DEF VoiceInv, ReportOK, Required
<1>2. /\ stage' = "decided" /\ failures' = {[kind |-> check, entry |-> 0]}
      /\ DOMAIN checks' \subseteq Required \cup {"op_obligations"}
      /\ \A c \in DOMAIN checks' : checks'[c] \in States
      /\ VerdictMatchesFailures'
  BY <1>1, AbortReport
<1>3. OwnOK' /\ (Own' <=> Own) /\ EditionUnits' = EditionUnits
  BY UnmovedKeeps
<1>4. FilesOK'
  BY <1>2 DEF VoiceInv, FilesOK, Checked, Unmoved
<1>5. ReportOK' /\ EntriesOK'
  BY <1>2 DEF ReportOK, EntriesOK
<1>6. SuppliesOK'
  <2>1. DOMAIN supply = {} /\ supply \in [DOMAIN supply -> Stock]
    BY DEF VoiceInv, SuppliesOK
  <2> QED
    BY <1>2, <2>1 DEF SuppliesOK
<1>7. OwnEditionResolves'
  BY <1>2, <1>3 DEF OwnEditionResolves, Own
<1> QED
  BY <1>2, <1>3, <1>4, <1>5, <1>6, <1>7 DEF VoiceInv

\* A check that passes is entered in the report.
LEMMA PassStep ==
  ASSUME VoiceInv, NEW check, NEW next,
         Pass(check, next), Unmoved, UNCHANGED <<supply, at>>,
         \/ stage = "hash" /\ check = "source_hash" /\ next = "structure"
         \/ stage = "structure" /\ check = "ledger_structure" /\ next = "accounting"
         \/ stage = "accounting" /\ check = "unit_accounting" /\ next = "verbatim"
  PROVE  VoiceInv'
<1>1. failures = {} /\ (\A c \in DOMAIN checks : checks[c] = "passed") /\ DOMAIN supply = {}
  BY DEF VoiceInv, ReportOK, SuppliesOK
<1>2. /\ stage' = next /\ failures' = failures
      /\ DOMAIN checks' = DOMAIN checks \cup {check}
      /\ \A c \in DOMAIN checks' : checks'[c] = "passed"
  BY <1>1, PassReport
<1>3. FilesOK'
  BY <1>2 DEF VoiceInv, FilesOK, Checked, Unmoved
<1>4. ReportOK'
  BY <1>1, <1>2 DEF VoiceInv, ReportOK
<1>5. EntriesOK' /\ VerdictMatchesFailures' /\ OwnEditionResolves'
  BY <1>1, <1>2 DEF EntriesOK, VerdictMatchesFailures, OwnEditionResolves
<1>6. SuppliesOK'
  BY <1>1, <1>2 DEF VoiceInv, SuppliesOK
<1> QED
  BY <1>3, <1>4, <1>5, <1>6, UnmovedKeeps DEF VoiceInv

LEMMA ChecksStep ==
  ASSUME VoiceInv, CheckSourceHash \/ CheckLedgerStructure \/ CheckUnitAccounting
  PROVE  VoiceInv'
<1>0. Unmoved /\ UNCHANGED <<supply, at>>
  BY DEF CheckSourceHash, CheckLedgerStructure, CheckUnitAccounting, Unmoved
<1>1. stage \in Checked => edition.head # None
  BY DEF VoiceInv, FilesOK
<1>2. CASE CheckSourceHash
  <2>1. stage = "hash"
    BY <1>2 DEF CheckSourceHash
  <2>2. CASE edition.head.hash = None
    <3>1. Abort("ledger_structure", Payloads \cup {"source_hash", "unit_accounting"})
      <4>1. edition.head.hash # source
        BY <2>2, Documents DEF VoiceInv, FilesOK
      <4> QED
        BY <1>2, <2>2, <4>1 DEF CheckSourceHash
    <3>2. Payloads \cup {"source_hash", "unit_accounting"} \subseteq Required
          /\ "ledger_structure" \in Required
      BY DEF Payloads, Required
    <3> QED
      BY <1>0, <2>1, <3>1, <3>2, AbortStep
  <2>3. CASE edition.head.hash # None /\ edition.head.hash = source
    <3>1. Pass("source_hash", "structure")
      BY <1>2, <2>3 DEF CheckSourceHash
    <3> QED
      BY <1>0, <2>1, <3>1, PassStep
  <2>4. CASE edition.head.hash # None /\ edition.head.hash # source
    <3>1. Abort("source_hash", Payloads \cup {"ledger_structure", "unit_accounting"})
      BY <1>2, <2>4 DEF CheckSourceHash
    <3>2. Payloads \cup {"ledger_structure", "unit_accounting"} \subseteq Required
          /\ "source_hash" \in Required
      BY DEF Payloads, Required
    <3>3. ~Own
      BY <1>1, <2>1, <2>4, OwnResolves DEF Checked
    <3> QED
      BY <1>0, <2>1, <3>1, <3>2, <3>3, AbortStep
  <2> QED
    BY <2>2, <2>3, <2>4
<1>3. CASE CheckLedgerStructure
  <2>1. stage = "structure"
        /\ (Pass("ledger_structure", "accounting")
            \/ Abort("ledger_structure", Payloads \cup {"unit_accounting"}))
    BY <1>3, Zenon DEF CheckLedgerStructure
  <2>2. Payloads \cup {"unit_accounting"} \subseteq Required /\ "ledger_structure" \in Required
    BY DEF Payloads, Required
  <2>3. CASE Pass("ledger_structure", "accounting")
    BY <1>0, <2>1, <2>3, PassStep
  <2>4. CASE Abort("ledger_structure", Payloads \cup {"unit_accounting"})
    BY <1>0, <2>1, <2>2, <2>4, AbortStep
  <2> QED
    BY <2>1, <2>3, <2>4
<1>4. CASE CheckUnitAccounting
  <2> DEFINE accounted == /\ \A u \in Range(SourceUnits) : Cardinality(EntriesFor(u)) = 1
                          /\ \A i \in DOMAIN Coverage :
                                Normal(Coverage[i].unit) \in Range(SourceUnits)
  <2>1. stage = "accounting"
        /\ IF accounted THEN Pass("unit_accounting", "verbatim")
           ELSE Abort("unit_accounting", Payloads)
    BY <1>4, Zenon DEF CheckUnitAccounting
  <2>2. Payloads \subseteq Required /\ "unit_accounting" \in Required
    BY DEF Payloads, Required
  <2>3. Own => accounted
    BY <1>1, <2>1, OwnResolves DEF Checked
  <2> HIDE DEF accounted
  <2>4. CASE accounted
    <3>1. Pass("unit_accounting", "verbatim")
      BY <2>1, <2>4
    <3> QED
      BY <1>0, <2>1, <3>1, PassStep
  <2>5. CASE ~accounted
    <3>1. Abort("unit_accounting", Payloads)
      BY <2>1, <2>5
    <3> QED
      BY <1>0, <2>1, <2>2, <2>3, <2>5, <3>1, AbortStep
  <2> QED
    BY <2>4, <2>5
<1> QED
  BY <1>2, <1>3, <1>4

LEMMA SpendVerbatimStep ==
  ASSUME VoiceInv, SpendVerbatim
  PROVE  VoiceInv'
<1>1. stage = "verbatim" /\ stage' = "entries" /\ at' = 1 /\ Unmoved
      /\ UNCHANGED <<checks, failures>> /\ supply' = SpendCopies(Supplies, Coverage)
  BY DEF SpendVerbatim, Unmoved, SpendCopies
<1>2. edition \in Edition /\ edition.head # None /\ failures = {}
      /\ edition.lines \in Seq(TextLine) /\ Coverage \in Seq(Entry)
  <2>1. edition # None /\ edition.head # None /\ FilesOK /\ failures = {}
    BY <1>1 DEF VoiceInv, FilesOK, ReportOK, Checked
  <2>2. edition \in Edition
    BY <2>1 DEF FilesOK
  <2> QED
    BY <2>1, <2>2, CoverageIn DEF Edition
<1> DEFINE D == (UNION {Range(NormalDests(Coverage[i])) : i \in Kept}) \cap Range(EditionUnits)
<1>3. Supplies \in [D -> Stock]
  <2>1. ASSUME NEW d \in Range(EditionUnits)  PROVE PayloadBag(d.hash) \in Stock
    <3>1. EditionUnits \in Seq(UnitRef)
      BY <1>2, DeriveIn DEF EditionUnits
    <3>2. d \in UnitRef
      BY <3>1 DEF Range
    <3>3. d.hash \in Seq(TextLine)
      BY <3>2 DEF UnitRef
    <3> QED
      BY <3>3, PayloadBagIn
  <2>2. Supplies = [d \in D |-> PayloadBag(d.hash)]
    BY Zenon DEF Supplies
  <2>3. D \subseteq Range(EditionUnits)
    OBVIOUS
  <2> HIDE DEF D
  <2> QED
    BY <2>1, <2>2, <2>3
<1>4. D \subseteq Range(EditionUnits)
  OBVIOUS
<1> HIDE DEF D
<1>5. supply' \in [D -> Stock]
  BY <1>1, <1>2, <1>3, SpendCopyIn
<1>6. SuppliesOK'
  <2>1. EditionUnits' = EditionUnits
    BY <1>1, UnmovedKeeps
  <2>2. DOMAIN supply' = D
    BY <1>5
  <2> QED
    BY <1>1, <1>4, <1>5, <2>1, <2>2 DEF SuppliesOK
<1>7. FilesOK' /\ ReportOK'
  BY <1>1, <1>2 DEF VoiceInv, FilesOK, ReportOK, Checked, Unmoved
<1>8. EntriesOK'
  <2>1. Coverage' = Coverage
    BY <1>1, UnmovedKeeps
  <2>2. \A i \in DOMAIN Coverage' : ~(i < at')
    BY <1>1, <1>2, <2>1
  <2> QED
    BY <1>1, <1>2, <2>2 DEF EntriesOK
<1>9. VerdictMatchesFailures' /\ OwnEditionResolves'
  BY <1>1, <1>2 DEF VerdictMatchesFailures, OwnEditionResolves
<1> QED
  BY <1>1, <1>6, <1>7, <1>8, <1>9, UnmovedKeeps DEF VoiceInv

LEMMA CheckEntryStep ==
  ASSUME VoiceInv, CheckEntry
  PROVE  VoiceInv'
<1>1. stage = "entries" /\ stage' = "entries" /\ at <= Len(Coverage) /\ at' = at + 1
      /\ checks' = checks /\ Unmoved
  BY DEF CheckEntry, Unmoved
<1>2. /\ failures \subseteq failures'
      /\ \A f \in failures' \ failures :
            f.kind \in EntryKinds /\ (f.kind = "destination" => Missing(Coverage[at]) # {})
      /\ Coverage[at].op # "cut" /\ Missing(Coverage[at]) # {} => failures' # {}
      /\ supply' \in [DOMAIN supply -> Stock]
  BY EntryRecords DEF VoiceInv
<1>3. at \in Nat /\ at >= 1 /\ edition.head # None /\ Coverage \in Seq(Entry)
  <2>1. edition # None /\ edition.head # None /\ FilesOK /\ at \in Nat
    BY <1>1 DEF VoiceInv, FilesOK, Checked
  <2> QED
    BY <1>1, <2>1, CoverageIn DEF VoiceInv, EntriesOK
<1>4. FilesOK' /\ ReportOK'
  BY <1>1, <1>3 DEF VoiceInv, FilesOK, ReportOK, Checked, Unmoved
<1>5. Coverage' = Coverage /\ EditionUnits' = EditionUnits /\ (Own' <=> Own)
      /\ \A i : Missing(Coverage[i])' = Missing(Coverage[i])
  BY <1>1, UnmovedKeeps
<1>6. SuppliesOK'
  <2>1. DOMAIN supply' = DOMAIN supply
    BY <1>2
  <2> QED
    BY <1>1, <1>2, <1>5, <2>1 DEF VoiceInv, SuppliesOK
<1>7. EntriesOK'
  <2>1. \A f \in failures' : f.kind \in EntryKinds
    BY <1>1, <1>2 DEF VoiceInv, EntriesOK
  <2>2. ASSUME NEW i \in DOMAIN Coverage, i < at + 1, Coverage[i].op # "cut",
               Missing(Coverage[i]) # {}
        PROVE  failures' # {}
    <3>1. CASE i = at
      BY <1>2, <2>2, <3>1
    <3>2. CASE i # at
      <4>1. i < at
        BY <1>3, <2>2, <3>2
      <4>2. failures # {}
        BY <1>1, <2>2, <4>1 DEF VoiceInv, EntriesOK
      <4> QED
        BY <1>2, <4>2
    <3> QED
      BY <3>1, <3>2
  <2>3. \A i \in DOMAIN Coverage' : Missing(Coverage[i])' = Missing(Coverage[i])
    BY <1>5
  <2> QED
    BY <1>1, <1>3, <1>5, <2>1, <2>2, <2>3 DEF EntriesOK
<1>8. OwnEditionResolves'
  <2>1. SUFFICES ASSUME Own', NEW f \in failures',
                        f.kind \in {"source_hash", "unit_accounting", "destination"}
                 PROVE  FALSE
    BY DEF OwnEditionResolves, Own
  <2>2. f \notin failures
    BY <1>5, <2>1 DEF VoiceInv, OwnEditionResolves, Own
  <2>3. f.kind = "destination" /\ Missing(Coverage[at]) # {}
    BY <1>2, <2>1, <2>2 DEF EntryKinds, Kinds
  <2> QED
    BY <1>1, <1>3, <1>5, <2>1, <2>3, OwnResolves
<1>9. VerdictMatchesFailures'
  BY <1>1 DEF VerdictMatchesFailures
<1> QED
  BY <1>1, <1>4, <1>6, <1>7, <1>8, <1>9, UnmovedKeeps DEF VoiceInv

LEMMA ConcludeStep ==
  ASSUME VoiceInv, Conclude
  PROVE  VoiceInv'
<1>1. stage = "entries" /\ Unmoved /\ UNCHANGED <<supply, at>>
      /\ failures' = failures \cup
            (IF ForgesNothing THEN {} ELSE {[kind |-> "forged", entry |-> 0]})
  BY DEF Conclude, Unmoved
<1>2. /\ stage' = "decided"
      /\ DOMAIN checks' \subseteq Required \cup {"op_obligations"}
      /\ \A c \in DOMAIN checks' : checks'[c] \in States
      /\ VerdictMatchesFailures'
  BY ConcludeReport DEF VoiceInv
<1>3. FilesOK' /\ ReportOK' /\ EntriesOK'
  BY <1>1, <1>2 DEF VoiceInv, FilesOK, ReportOK, EntriesOK, Checked, Unmoved
<1>4. SuppliesOK'
  <2>1. EditionUnits' = EditionUnits
    BY <1>1, UnmovedKeeps
  <2> QED
    BY <1>1, <1>2, <2>1 DEF VoiceInv, SuppliesOK
<1>5. OwnEditionResolves'
  <2>1. Own' <=> Own
    BY <1>1, UnmovedKeeps
  <2>2. \A f \in failures' : f \in failures \/ f.kind = "forged"
    BY <1>1
  <2> QED
    BY <2>1, <2>2 DEF VoiceInv, OwnEditionResolves, Own
<1> QED
  BY <1>1, <1>2, <1>3, <1>4, <1>5, UnmovedKeeps DEF VoiceInv

LEMMA VoiceStep == VoiceInv /\ [VoiceNext]_vars => VoiceInv'
<1> SUFFICES ASSUME VoiceInv, [VoiceNext]_vars  PROVE VoiceInv'
  OBVIOUS
<1>1. CASE VoiceNext
  BY <1>1, RequestSteps, ReviseStep, HandSteps, ReadLedgerStep, ChecksStep,
     SpendVerbatimStep, CheckEntryStep, ConcludeStep DEF VoiceNext
<1>2. CASE UNCHANGED vars
  <2>1. Unmoved /\ UNCHANGED <<stage, checks, failures, supply, at>>
    BY <1>2 DEF vars, Unmoved
  <2>2. Coverage' = Coverage /\ EditionUnits' = EditionUnits /\ (Own' <=> Own) /\ OwnOK'
        /\ \A i : Missing(Coverage[i])' = Missing(Coverage[i])
    BY <2>1, UnmovedKeeps
  <2>3. FilesOK' /\ ReportOK'
    BY <2>1 DEF VoiceInv, FilesOK, ReportOK, Unmoved
  <2>4. SuppliesOK'
    BY <2>1, <2>2 DEF VoiceInv, SuppliesOK
  <2>5. EntriesOK'
    <3>1. \A i \in DOMAIN Coverage' : Missing(Coverage[i])' = Missing(Coverage[i])
      BY <2>2
    <3> QED
      BY <2>1, <2>2, <3>1 DEF VoiceInv, EntriesOK
  <2>6. VerdictMatchesFailures' /\ OwnEditionResolves'
    BY <2>1, <2>2 DEF VoiceInv, VerdictMatchesFailures, OwnEditionResolves, Own, Passed
  <2> QED
    BY <2>2, <2>3, <2>4, <2>5, <2>6 DEF VoiceInv
<1> QED
  BY <1>1, <1>2

LEMMA VoiceInvariant == VoiceSpec => []VoiceInv
BY VoiceStarts, VoiceStep, PTL DEF VoiceSpec

LEMMA VoiceTypes == VoiceInv => VoiceTypeOK
<1> SUFFICES ASSUME VoiceInv  PROVE VoiceTypeOK
  OBVIOUS
<1>1. DOMAIN checks \subseteq Required \cup {"op_obligations"}
  <2>1. stage \in {"requested", "asked", "refused", "emitted", "undecided"} \cup Checked
    BY DEF VoiceInv, FilesOK
  <2> QED
    BY <2>1 DEF VoiceInv, ReportOK, Required, Checked
<1>2. Range(checks) \subseteq States
  BY DEF VoiceInv, ReportOK, States, Range
<1>3. DOMAIN supply # {} => DOMAIN supply \subseteq Range(EditionUnits)
  BY DEF VoiceInv, SuppliesOK
<1> QED
  BY <1>1, <1>2, <1>3 DEF VoiceTypeOK, States

-----------------------------------------------------------------------------

\* Whatever the model writes and whatever is changed by hand, the report names
\* the checks there are and the supplies are those of units of the edition.
THEOREM VoiceTypeCorrect == VoiceSpec => []VoiceTypeOK
BY VoiceInvariant, VoiceTypes, PTL

\* The verdict is withheld exactly when a failure was recorded: every kind of
\* failure flips a check that blocks it (CheckForKind), and nothing else does.
THEOREM VerdictMatches == VoiceSpec => []VerdictMatchesFailures
<1>1. VoiceInv => VerdictMatchesFailures
  BY DEF VoiceInv
<1> QED
  BY <1>1, VoiceInvariant, PTL

\* The ledger the reviser builds accounts for every paragraph of the source
\* once, and names only paragraphs of the edition it is put in front of.
THEOREM OwnEditionCorrect == VoiceSpec => []OwnEditionResolves
<1>1. VoiceInv => OwnEditionResolves
  BY DEF VoiceInv
<1> QED
  BY <1>1, VoiceInvariant, PTL

-----------------------------------------------------------------------------
(* What a passed verdict means.  While no failure is recorded, every claim *)
(* of the entries that were checked has an occurrence of its own, and what *)
(* a supply still holds is no more than the occurrences no claim stands on *)
(* (Assigned).                                                             *)

\* What holds at 0 and at each n if at n - 1 holds up to any bound.
LEMMA Upwards ==
  ASSUME NEW n \in Nat, NEW good, 0 \in good, \A k \in 1..n : k - 1 \in good => k \in good
  PROVE  \A k \in 0..n : k \in good
<1> DEFINE bad == {k \in 0..n : k \notin good}
<1>1. SUFFICES ASSUME bad # {}  PROVE FALSE
  OBVIOUS
<1>2. PICK k \in bad : \A m \in bad : k <= m
  <2>1. bad \in SUBSET Nat
    OBVIOUS
  <2> HIDE DEF bad
  <2> QED
    BY <1>1, <2>1, LeastNatural
<1>3. k \in 1..n /\ k - 1 \in 0..n /\ ~(k <= k - 1)
  OBVIOUS
<1>4. k - 1 \notin bad
  BY <1>2, <1>3
<1> QED
  BY <1>3, <1>4

LEMMA HowManyIn ==
  ASSUME NEW bag \in Stock, NEW x
  PROVE  /\ HowMany(bag, x) \in Nat
         /\ HowMany(bag, x) = 0 <=> x \notin DOMAIN bag
         /\ BagIn(x, bag) <=> x \in DOMAIN bag
BY DEF Stock, HowMany, BagIn, BagToSet

\* A supply that holds no more than a text is spent by that text.
LEMMA SpendsAll ==
  ASSUME NEW lines \in Seq(TextLine), NEW bag \in Stock,
         \A x : HowMany(bag, x) <= HowMany(PayloadBag(lines), x)
  PROVE  \A x : x \notin DOMAIN Spend(bag, Payload(lines)).left
<1> DEFINE p == Payload(lines)
           after(k, x) == {i \in DOMAIN p : p[i] = x /\ i > k}
<1>1. p \in Seq(Item)
  BY PayloadIn
<1>2. PICK v \in [0..Len(p) -> [left : Stock, missing : SUBSET Item]] :
         /\ v[0] = [left |-> bag, missing |-> {}] /\ v[Len(p)] = Spend(bag, p)
         /\ \A n \in 1..Len(p) : v[n] = SpendItem(v[n - 1], p[n])
  <2> HIDE DEF p
  <2> QED
    BY <1>1, SpendSteps
<1>3. \A x : IsFiniteSet(Places(lines, x))
             /\ HowMany(PayloadBag(lines), x) = Cardinality(Places(lines, x))
  BY PayloadBagIn
<1>4. \A x : Places(lines, x) = {i \in DOMAIN p : p[i] = x}
  BY DEF Places
<1> HIDE DEF p
<1>5. DOMAIN p = 1..Len(p) /\ Len(p) \in Nat
  BY <1>1
<1> DEFINE good == {k \in 0..Len(p) : \A x : HowMany(v[k].left, x) <= Cardinality(after(k, x))}
<1>6. \A k, x : IsFiniteSet(after(k, x)) /\ Cardinality(after(k, x)) \in Nat
  <2> SUFFICES ASSUME NEW k, NEW x
               PROVE  IsFiniteSet(after(k, x)) /\ Cardinality(after(k, x)) \in Nat
    OBVIOUS
  <2>1. after(k, x) \in SUBSET Places(lines, x)
    BY <1>4
  <2> QED
    BY <1>3, <2>1, FS_Subset, FS_CardinalityType
<1>7. 0 \in good
  <2>1. \A x : after(0, x) = Places(lines, x)
    BY <1>4, <1>5
  <2> HIDE DEF after
  <2>2. \A x : HowMany(v[0].left, x) <= Cardinality(after(0, x))
    BY <1>2, <1>3, <2>1
  <2> QED
    BY <1>5, <2>2
<1>8. ASSUME NEW k \in 1..Len(p), k - 1 \in good  PROVE k \in good
  <2>1. k \in Nat /\ k - 1 \in 0..Len(p) /\ k \in 0..Len(p) /\ k \in DOMAIN p
    BY <1>5
  <2> DEFINE was == v[k - 1].left
             y == p[k]
  <2>2. was \in Stock
    BY <1>2, <2>1
  <2>3. v[k].left = IF BagIn(y, was) THEN Less(was, y) ELSE was
    BY <1>2, <2>1 DEF SpendItem
  <2>4. \A x : HowMany(was, x) <= Cardinality(after(k - 1, x))
    BY <1>8
  <2>5. after(k, y) = after(k - 1, y) \ {k} /\ k \in after(k - 1, y)
    BY <1>5, <2>1
  <2>6. \A x : x # y => after(k, x) = after(k - 1, x)
    BY <1>5, <2>1
  <2> HIDE DEF after, was, y
  <2>7. Cardinality(after(k, y)) = Cardinality(after(k - 1, y)) - 1
    <3> DEFINE S == after(k - 1, y)
    <3>1. IsFiniteSet(S) /\ after(k, y) = S \ {k} /\ k \in S
      BY <1>6, <2>5
    <3> HIDE DEF S
    <3>2. Cardinality(S \ {k}) = Cardinality(S) - 1
      BY <3>1, FS_RemoveElement
    <3> QED
      BY <3>1, <3>2 DEF S
  <2>8. ASSUME NEW x  PROVE HowMany(v[k].left, x) <= Cardinality(after(k, x))
    <3>1. CASE BagIn(y, was) /\ x = y
      <4>1. HowMany(v[k].left, y) = HowMany(was, y) - 1
        BY <2>2, <2>3, <3>1, LessIn
      <4>2. HowMany(was, y) \in Nat
        BY <2>2, HowManyIn
      <4> QED
        BY <1>6, <2>4, <2>7, <3>1, <4>1, <4>2
    <3>2. CASE BagIn(y, was) /\ x # y
      BY <2>2, <2>3, <2>4, <2>6, <3>2, LessIn
    <3>3. CASE ~BagIn(y, was) /\ x = y
      <4>1. HowMany(v[k].left, x) = 0
        BY <2>2, <2>3, <3>3, HowManyIn
      <4> QED
        BY <1>6, <4>1
    <3>4. CASE ~BagIn(y, was) /\ x # y
      BY <2>3, <2>4, <2>6, <3>4
    <3> QED
      BY <3>1, <3>2, <3>3, <3>4
  <2> QED
    BY <2>1, <2>8
<1>9. Len(p) \in good
  <2>1. \A k \in 0..Len(p) : k \in good
    <3> HIDE DEF good
    <3> QED
      BY <1>5, <1>7, <1>8, Upwards
  <2> QED
    BY <1>5, <2>1
<1>10. ASSUME NEW x  PROVE x \notin DOMAIN v[Len(p)].left
  <2>1. after(Len(p), x) = {}
    BY <1>5
  <2>2. HowMany(v[Len(p)].left, x) <= 0
    <3> HIDE DEF after
    <3>1. HowMany(v[Len(p)].left, x) <= Cardinality(after(Len(p), x))
      BY <1>9
    <3> QED
      BY <2>1, <3>1, FS_EmptySet
  <2>3. v[Len(p)].left \in Stock
    BY <1>2, <1>5
  <2> QED
    BY <2>2, <2>3, HowManyIn
<1> QED
  BY <1>2, <1>10 DEF p

\* Spending never adds to a supply.
LEMMA SpendsDown ==
  ASSUME NEW bag \in Stock, NEW payload \in Seq(Item)
  PROVE  \A x : HowMany(Spend(bag, payload).left, x) <= HowMany(bag, x)
<1>1. PICK v \in [0..Len(payload) -> [left : Stock, missing : SUBSET Item]] :
         /\ v[0] = [left |-> bag, missing |-> {}] /\ v[Len(payload)] = Spend(bag, payload)
         /\ \A n \in 1..Len(payload) : v[n] = SpendItem(v[n - 1], payload[n])
  BY SpendSteps
<1> DEFINE good == {k \in 0..Len(payload) : \A x : HowMany(v[k].left, x) <= HowMany(bag, x)}
<1>2. Len(payload) \in Nat
  OBVIOUS
<1>3. 0 \in good
  <2>1. \A x : HowMany(bag, x) \in Nat
    BY HowManyIn
  <2> QED
    BY <1>1, <1>2, <2>1
<1>4. ASSUME NEW k \in 1..Len(payload), k - 1 \in good  PROVE k \in good
  <2>1. k - 1 \in 0..Len(payload) /\ k \in 0..Len(payload)
    BY <1>2
  <2>2. v[k - 1].left \in Stock /\ \A x : HowMany(v[k - 1].left, x) <= HowMany(bag, x)
    BY <1>1, <1>4, <2>1
  <2>3. \/ v[k].left = v[k - 1].left
        \/ (BagIn(payload[k], v[k - 1].left) /\ v[k].left = Less(v[k - 1].left, payload[k]))
    BY <1>1, <2>1 DEF SpendItem
  <2>4. ASSUME NEW x  PROVE HowMany(v[k].left, x) <= HowMany(bag, x)
    <3>1. HowMany(v[k - 1].left, x) \in Nat /\ HowMany(bag, x) \in Nat
      BY <2>2, HowManyIn
    <3>2. HowMany(v[k].left, x) \in {HowMany(v[k - 1].left, x), HowMany(v[k - 1].left, x) - 1}
      BY <2>2, <2>3, LessIn
    <3> QED
      BY <2>2, <3>1, <3>2
  <2> QED
    BY <2>1, <2>4
<1>5. Len(payload) \in good
  <2>1. \A k \in 0..Len(payload) : k \in good
    <3> HIDE DEF good
    <3> QED
      BY <1>2, <1>3, <1>4, Upwards
  <2> QED
    BY <1>2, <2>1
<1> QED
  BY <1>1, <1>5

\* The occurrences of x in a unit, as slots; what a claim asks for; and the
\* occurrences in a unit that no claim stands on yet.
Spots(d, x) == {<<d, n>> : n \in Places(d.hash, x)}
Asked(cov, c) == Payload(cov[c[1]].unit.hash)[c[2]]
Free(f, d, x, units) == IF d \in units THEN Spots(d, x) \ Range(f) ELSE {}

\* The claims of one entry.
ClaimsOf(cov, i) == {<<i, n>> : n \in DOMAIN Payload(cov[i].unit.hash)}

\* What is left when x is taken from the supply of d.
Taken(left, d, x) == [left EXCEPT ![d] = Less(@, x)]

\* f gives every claim of C an occurrence of its own, and no supply holds more
\* of an item than there are occurrences left.
Assigned(f, C, left, cov, units) ==
  /\ f \in [C -> Slots(units)]
  /\ \A b, c \in C : f[b] = f[c] => b = c
  /\ \A c \in C : Offered(f[c]) = Asked(cov, c) /\ f[c][1] \in Range(NormalDests(cov[c[1]]))
  /\ \A d \in DOMAIN left : \A x :
        HowMany(left[d], x) <= Cardinality(Free(f, d, x, units))

LEMMA SpotsMany ==
  ASSUME NEW d, d.hash \in Seq(TextLine), NEW x
  PROVE  /\ IsFiniteSet(Spots(d, x))
         /\ Cardinality(Spots(d, x)) = Cardinality(Places(d.hash, x))
<1>1. IsFiniteSet(Places(d.hash, x))
  BY PayloadBagIn
<1> DEFINE g == [n \in Places(d.hash, x) |-> <<d, n>>]
<1>2. g \in Bijection(Places(d.hash, x), Spots(d, x))
  <2>1. \A m, n \in Places(d.hash, x) : g[m] = g[n] => m = n
    OBVIOUS
  <2>2. g \in [Places(d.hash, x) -> Spots(d, x)]
        /\ \A t \in Spots(d, x) : \E n \in Places(d.hash, x) : g[n] = t
    BY DEF Spots
  <2>3. DOMAIN g = Places(d.hash, x)
    OBVIOUS
  <2> HIDE DEF g
  <2> QED
    BY <2>1, <2>2, <2>3, Zenon DEF Bijection, Injection, Surjection, IsInjective
<1>3. ExistsBijection(Places(d.hash, x), Spots(d, x))
  BY <1>2 DEF ExistsBijection
<1> QED
  BY <1>1, <1>3, FS_Bijection

LEMMA FreeIn ==
  ASSUME NEW f, NEW d, NEW x, NEW units, \A u \in units : u.hash \in Seq(TextLine)
  PROVE  /\ IsFiniteSet(Free(f, d, x, units)) /\ Cardinality(Free(f, d, x, units)) \in Nat
         /\ \A s \in Free(f, d, x, units) :
               s \in Slots(units) /\ Offered(s) = x /\ s[1] = d /\ s \notin Range(f)
<1>1. CASE d \in units
  <2>1. IsFiniteSet(Spots(d, x)) /\ Free(f, d, x, units) = Spots(d, x) \ Range(f)
    BY <1>1, SpotsMany DEF Free
  <2>2. IsFiniteSet(Free(f, d, x, units)) /\ Cardinality(Free(f, d, x, units)) \in Nat
    BY <2>1, FS_Subset, FS_CardinalityType
  <2>3. ASSUME NEW s \in Free(f, d, x, units)
        PROVE  s \in Slots(units) /\ Offered(s) = x /\ s[1] = d /\ s \notin Range(f)
    <3>1. PICK n \in DOMAIN Payload(d.hash) : Payload(d.hash)[n] = x /\ s = <<d, n>>
      BY <2>1 DEF Spots, Places
    <3>2. s \in Slots(units)
      BY <1>1, <3>1 DEF Slots
    <3> QED
      BY <2>1, <3>1, <3>2 DEF Offered
  <2> QED
    BY <2>2, <2>3
<1>2. CASE d \notin units
  BY <1>2, FS_EmptySet DEF Free
<1> QED
  BY <1>1, <1>2

\* One more claim gets an occurrence of what it asks for in a unit whose supply
\* still holds it; and that supply loses one.
LEMMA AssignsOneMore ==
  ASSUME NEW D, NEW left \in [D -> Stock], NEW f, NEW C, NEW cov, NEW units,
         \A u \in units : u.hash \in Seq(TextLine),
         Assigned(f, C, left, cov, units),
         NEW c, c \notin C, NEW d \in D, d \in Range(NormalDests(cov[c[1]])),
         BagIn(Asked(cov, c), left[d])
  PROVE  \E g : Assigned(g, C \cup {c}, Taken(left, d, Asked(cov, c)), cov, units)
<1> DEFINE y == Asked(cov, c)
<1>1. HowMany(left[d], y) \in Nat /\ HowMany(left[d], y) # 0
  BY HowManyIn
<1>2. HowMany(left[d], y) <= Cardinality(Free(f, d, y, units))
  BY DEF Assigned
<1>3. Free(f, d, y, units) # {}
  <2> DEFINE S == Free(f, d, y, units)
  <2>1. IsFiniteSet(S)
    BY FreeIn
  <2> HIDE DEF y, S
  <2>2. Cardinality(S) # 0
    BY <1>1, <1>2 DEF S
  <2>3. S # {}
    BY <2>1, <2>2, FS_EmptySet
  <2> QED
    BY <2>3 DEF S
<1>4. PICK s \in Free(f, d, y, units) : TRUE
  BY <1>3
<1>5. s \in Slots(units) /\ Offered(s) = y /\ s[1] = d /\ s \notin Range(f)
  BY <1>4, FreeIn
<1> DEFINE g == [b \in C \cup {c} |-> IF b = c THEN s ELSE f[b]]
           less == [left EXCEPT ![d] = Less(@, y)]
<1>6. f \in [C -> Slots(units)] /\ (\A b \in C : f[b] # s)
  BY <1>5 DEF Assigned, Range
<1>7. g \in [C \cup {c} -> Slots(units)] /\ g[c] = s /\ \A b \in C : g[b] = f[b]
  BY <1>5, <1>6
<1>8. Range(g) = Range(f) \cup {s}
  BY <1>6, <1>7 DEF Range
<1> HIDE DEF g
<1>9. \A a, b \in C \cup {c} : g[a] = g[b] => a = b
  BY <1>6, <1>7 DEF Assigned
<1>10. \A b \in C \cup {c} : Offered(g[b]) = Asked(cov, b)
                            /\ g[b][1] \in Range(NormalDests(cov[b[1]]))
  BY <1>5, <1>7 DEF Assigned
<1>11. ASSUME NEW e \in D, NEW x
       PROVE  HowMany(less[e], x) <= Cardinality(Free(g, e, x, units))
  <2>1. HowMany(left[e], x) <= Cardinality(Free(f, e, x, units))
    BY DEF Assigned
  <2>2. CASE e = d /\ x = y
    <3>1. Free(g, d, y, units) = Free(f, d, y, units) \ {s}
      BY <1>8 DEF Free
    <3> DEFINE S == Free(f, d, y, units)
    <3>2. IsFiniteSet(S) /\ s \in S /\ Cardinality(S) \in Nat
      BY <1>4, FreeIn
    <3> HIDE DEF S
    <3>3. Cardinality(S \ {s}) = Cardinality(S) - 1
      BY <3>2, FS_RemoveElement
    <3>4. HowMany(Less(left[d], y), y) = HowMany(left[d], y) - 1
      BY LessIn
    <3>5. less[d] = Less(left[d], y)
      OBVIOUS
    <3> HIDE DEF y, less
    <3> QED
      BY <1>1, <1>2, <2>2, <3>1, <3>2, <3>3, <3>4, <3>5 DEF S
  <2>3. CASE e # d \/ x # y
    <3>1. s \notin Free(f, e, x, units)
      BY <1>5, <2>3, FreeIn
    <3>2. Free(g, e, x, units) = Free(f, e, x, units)
      BY <1>8, <3>1 DEF Free
    <3>3. HowMany(less[e], x) = HowMany(left[e], x)
      <4>1. CASE e # d
        <5>1. less[e] = left[e]
          BY <4>1
        <5> QED
          BY <5>1
      <4>2. CASE e = d /\ x # y
        <5>1. less[e] = Less(left[d], y)
          BY <4>2
        <5> HIDE DEF y, less
        <5> QED
          BY <4>2, <5>1, LessIn
      <4> QED
        BY <2>3, <4>1, <4>2
    <3> QED
      BY <2>1, <3>2, <3>3
  <2> QED
    BY <2>2, <2>3
<1>12. DOMAIN less = D
  OBVIOUS
<1> HIDE DEF less
<1>13. Assigned(g, C \cup {c}, less, cov, units)
  BY <1>7, <1>9, <1>10, <1>11, <1>12 DEF Assigned
<1> QED
  BY <1>13 DEF less, Taken

\* What one item does to the supplies, and what it means that it is missing.
LEMMA DischargeLoses ==
  ASSUME NEW D, NEW acc \in [left : [D -> Stock], missing : SUBSET Item],
         NEW dests \in Seq(D), NEW x \in Item
  PROVE  \/ /\ Discharge(dests, acc, x).missing = acc.missing
            /\ \E d \in Range(dests) :
                  BagIn(x, acc.left[d]) /\ Discharge(dests, acc, x).left = Taken(acc.left, d, x)
         \/ /\ Discharge(dests, acc, x).missing = acc.missing \cup {x}
            /\ Discharge(dests, acc, x).left = acc.left
            /\ \A d \in Range(dests) : ~BagIn(x, acc.left[d])
<1> DEFINE I == {i \in 1..Len(dests) : BagIn(x, acc.left[dests[i]])}
           first == IF I # {} THEN Min(I) ELSE 0
<1>1. Discharge(dests, acc, x) =
         IF first = 0 THEN [acc EXCEPT !.missing = @ \cup {x}]
         ELSE [acc EXCEPT !.left[dests[first]] = Less(@, x)]
  BY Zenon DEF Discharge, SelectInSeq
<1>2. I # {} => Min(I) \in I
  <2> SUFFICES ASSUME I # {}  PROVE Min(I) \in I
    OBVIOUS
  <2>1. I \in SUBSET Nat
    OBVIOUS
  <2> HIDE DEF I
  <2>2. \E m \in I : \A n \in I : m <= n
    BY <2>1, LeastNatural
  <2> QED
    BY <2>2, Zenon DEF Min
<1>3. CASE I = {}
  <2>1. \A d \in Range(dests) : ~BagIn(x, acc.left[d])
    BY <1>3 DEF Range
  <2>2. Discharge(dests, acc, x) = [acc EXCEPT !.missing = @ \cup {x}]
    BY <1>1, <1>3
  <2> QED
    BY <2>1, <2>2
<1>4. CASE I # {}
  <2>1. first \in I /\ first # 0
    BY <1>2, <1>4
  <2>2. first \in DOMAIN dests /\ BagIn(x, acc.left[dests[first]])
    BY <2>1
  <2> HIDE DEF first, I
  <2>3. dests[first] \in Range(dests) /\ dests[first] \in D
    BY <2>2 DEF Range
  <2>4. Discharge(dests, acc, x) = [acc EXCEPT !.left[dests[first]] = Less(@, x)]
    BY <1>1, <2>1
  <2>5. /\ Discharge(dests, acc, x).missing = acc.missing
        /\ Discharge(dests, acc, x).left = Taken(acc.left, dests[first], x)
    BY <2>4 DEF Taken
  <2> QED
    BY <2>2, <2>3, <2>5
<1> QED
  BY <1>3, <1>4

LEMMA DischargeFinds ==
  ASSUME NEW D, NEW acc \in [left : [D -> Stock], missing : SUBSET Item],
         NEW dests \in Seq(D), NEW x \in Item, Discharge(dests, acc, x).missing = {}
  PROVE  /\ acc.missing = {}
         /\ \E d \in Range(dests) :
               BagIn(x, acc.left[d]) /\ Discharge(dests, acc, x).left = Taken(acc.left, d, x)
BY DischargeLoses

\* Carrying the claims of one entry further by one item.
LEMMA EntryOneMore ==
  ASSUME NEW D, NEW was \in [left : [D -> Stock], missing : SUBSET Item],
         NEW now, NEW C, NEW cov, NEW units, \A u \in units : u.hash \in Seq(TextLine),
         NEW c, c \notin C, Asked(cov, c) \in Item,
         NormalDests(cov[c[1]]) \in Seq(D),
         now = Discharge(NormalDests(cov[c[1]]), was, Asked(cov, c)), now.missing = {},
         NEW f, Assigned(f, C, was.left, cov, units)
  PROVE  \E g : Assigned(g, C \cup {c}, now.left, cov, units)
<1> DEFINE dests == NormalDests(cov[c[1]])
<1>1. Range(dests) \subseteq D /\ dests \in Seq(D)
  <2>1. dests \in Seq(D)
    OBVIOUS
  <2> HIDE DEF dests
  <2> QED
    BY <2>1 DEF Range
<1>2. PICK d \in Range(dests) :
         /\ BagIn(Asked(cov, c), was.left[d])
         /\ now.left = Taken(was.left, d, Asked(cov, c))
  <2> HIDE DEF dests
  <2>1. now = Discharge(dests, was, Asked(cov, c)) /\ now.missing = {}
    BY DEF dests
  <2> DEFINE x == Asked(cov, c)
  <2>2. x \in Item
    OBVIOUS
  <2> HIDE DEF x
  <2>3. Discharge(dests, was, x).missing = {}
    BY <2>1 DEF x
  <2>4. \E d \in Range(dests) :
           /\ BagIn(x, was.left[d])
           /\ Discharge(dests, was, x).left = Taken(was.left, d, x)
    BY ONLY <1>1, <2>2, <2>3, was \in [left : [D -> Stock], missing : SUBSET Item],
            DischargeFinds
  <2> QED
    BY <2>1, <2>4 DEF x
<1>3. d \in D /\ was.left \in [D -> Stock]
  BY <1>1
<1>4. \E g : Assigned(g, C \cup {c}, Taken(was.left, d, Asked(cov, c)), cov, units)
  BY <1>2, <1>3, AssignsOneMore
<1> QED
  BY <1>2, <1>4

\* An entry nothing of which is missing has all its claims met, by occurrences
\* no other claim stands on.
LEMMA EntryAssigns ==
  ASSUME NEW D, NEW sup \in [D -> Stock], NEW C, NEW cov, NEW units,
         \A u \in units : u.hash \in Seq(TextLine),
         NEW i, \A c \in C : c[1] # i,
         Payload(cov[i].unit.hash) \in Seq(Item), NormalDests(cov[i]) \in Seq(D),
         NEW f, Assigned(f, C, sup, cov, units),
         SpendAcross(sup, NormalDests(cov[i]), Payload(cov[i].unit.hash)).missing = {}
  PROVE  \E g : Assigned(g, C \cup ClaimsOf(cov, i),
             SpendAcross(sup, NormalDests(cov[i]), Payload(cov[i].unit.hash)).left, cov, units)
<1> DEFINE p == Payload(cov[i].unit.hash)
           dests == NormalDests(cov[i])
           A == [left : [D -> Stock], missing : SUBSET Item]
           first(k) == {<<i, n>> : n \in 1..k}
<1> HIDE DEF p, dests
<1>0. p \in Seq(Item) /\ Len(p) \in Nat /\ DOMAIN p = 1..Len(p)
  BY DEF p
<1>1. PICK v \in [0..Len(p) -> A] :
         /\ v[0] = [left |-> sup, missing |-> {}] /\ v[Len(p)] = SpendAcross(sup, dests, p)
         /\ \A n \in 1..Len(p) : v[n] = Discharge(dests, v[n - 1], p[n])
  BY ONLY <1>0, sup \in [D -> Stock], SpendAcrossSteps
<1> DEFINE Good(k) == \E g : Assigned(g, C \cup first(k), v[k].left, cov, units)
           good == {k \in 0..Len(p) : v[k].missing = {} => Good(k)}
<1>2. 0 \in good
  <2>1. C \cup first(0) = C
    OBVIOUS
  <2>2. v[0].left = sup
    BY <1>1
  <2> HIDE DEF first
  <2>3. Good(0)
    BY <2>1, <2>2
  <2> HIDE DEF Good
  <2> QED
    BY <1>0, <2>3
<1>3. ASSUME NEW k \in 1..Len(p), k - 1 \in good  PROVE k \in good
  <2>1. k \in Nat /\ k - 1 \in 0..Len(p) /\ k \in 0..Len(p) /\ p[k] \in Item
    BY <1>0
  <2>2. SUFFICES ASSUME v[k].missing = {}  PROVE Good(k)
    <3> HIDE DEF Good
    <3> QED
      BY <2>1
  <2> DEFINE was == v[k - 1]
             now == v[k]
             c == <<i, k>>
             C1 == C \cup first(k - 1)
  <2>3. was \in A /\ now = Discharge(dests, was, p[k]) /\ now.missing = {}
    BY <1>1, <2>1, <2>2
  <2>4. was.missing = {}
    <3>1. dests \in Seq(D)
      BY DEF dests
    <3> HIDE DEF was, now
    <3> QED
      BY <2>1, <2>3, <3>1, DischargeFinds
  <2>5. PICK g : Assigned(g, C1, was.left, cov, units)
    <3>1. Good(k - 1)
      <4> HIDE DEF Good
      <4> QED
        BY <1>3, <2>4
    <3> QED
      BY <3>1
  <2>6. Asked(cov, c) = p[k] /\ c[1] = i
    BY DEF Asked, p
  <2>7. c \notin C1 /\ C1 \cup {c} = C \cup first(k)
    <3>1. c \notin C
      BY <2>6
    <3>2. \A n \in 1..(k - 1) : <<i, n>> # c
      BY <2>1
    <3>3. \A n : n \in 1..k <=> n \in 1..(k - 1) \/ n = k
      BY <2>1
    <3> QED
      BY <3>1, <3>2, <3>3
  <2> HIDE DEF was, now, c, C1, first
  <2>8. NormalDests(cov[c[1]]) = dests /\ dests \in Seq(D)
    BY <2>6 DEF dests
  <2>9. \E h : Assigned(h, C1 \cup {c}, now.left, cov, units)
    <3>1. /\ was \in [left : [D -> Stock], missing : SUBSET Item]
          /\ c \notin C1 /\ Asked(cov, c) \in Item
          /\ NormalDests(cov[c[1]]) \in Seq(D)
      BY <2>1, <2>3, <2>6, <2>7, <2>8
    <3>2. /\ now = Discharge(NormalDests(cov[c[1]]), was, Asked(cov, c))
          /\ now.missing = {}
      BY <2>3, <2>6, <2>8
    <3> QED
      BY ONLY <3>1, <3>2, <2>5, EntryOneMore, \A u \in units : u.hash \in Seq(TextLine)
  <2> QED
    BY <2>7, <2>9 DEF now
<1>4. Len(p) \in good
  <2>1. \A k \in 0..Len(p) : k \in good
    <3> HIDE DEF good
    <3> QED
      BY <1>0, <1>2, <1>3, Upwards
  <2>2. Len(p) \in 0..Len(p)
    BY <1>0
  <2> HIDE DEF good
  <2> QED
    BY <2>1, <2>2
<1>5. Good(Len(p))
  <2>1. v[Len(p)].missing = {}
    BY <1>1 DEF p, dests
  <2> HIDE DEF Good
  <2> QED
    BY <1>4, <2>1
<1>6. first(Len(p)) = ClaimsOf(cov, i)
  BY <1>0 DEF ClaimsOf, p
<1> QED
  BY <1>1, <1>5, <1>6 DEF p, dests

\* No supply of a holds more of an item than that of b.
Within(a, b, D) == \A d \in D : \A x : HowMany(a[d], x) <= HowMany(b[d], x)

\* A bag of no more than a unit has, and one that has nothing.
Capped(bag, d) == \A x : HowMany(bag, x) <= HowMany(PayloadBag(d.hash), x)
Exhausted(bag) == \A x : HowMany(bag, x) = 0

LEMMA SpendCopyDown ==
  ASSUME NEW D, NEW sup \in [D -> Stock], NEW e \in Entry
  PROVE  /\ SpendCopy(sup, e) \in [D -> Stock] /\ Within(SpendCopy(sup, e), sup, D)
         /\ \A d \in D : Copies(e) /\ d = Normal(e.dests[1]) /\ Capped(sup[d], d)
                         => Exhausted(SpendCopy(sup, e)[d])
<1> DEFINE p == Payload(e.unit.hash)
<1>1. p \in Seq(Item) /\ e.unit.hash \in Seq(TextLine)
  <2>1. e.unit.hash \in Seq(TextLine)
    BY DEF Entry, EntryRef
  <2> QED
    BY <2>1, PayloadIn
<1>2. CASE Copies(e)
  <2> DEFINE to == Normal(e.dests[1])
             left == Spend(sup[to], p).left
  <2>1. SpendCopy(sup, e) = [sup EXCEPT ![to] = left]
    BY <1>2 DEF SpendCopy
  <2>2. to \in D => left \in Stock /\ \A x : HowMany(left, x) <= HowMany(sup[to], x)
    <3>1. SUFFICES ASSUME to \in D
                   PROVE  left \in Stock /\ \A x : HowMany(left, x) <= HowMany(sup[to], x)
      OBVIOUS
    <3>2. sup[to] \in Stock
      BY <3>1
    <3> HIDE DEF to, p
    <3>3. Spend(sup[to], p) \in [left : Stock, missing : SUBSET Item]
      BY <1>1, <3>2, SpendIn
    <3> QED
      BY <1>1, <3>2, <3>3, SpendsDown
  <2>3. to.hash = e.unit.hash
    BY <1>2 DEF Copies, Normal
  <2>4. ASSUME to \in D, Capped(sup[to], to)
        PROVE  Exhausted(left)
    <3>1. sup[to] \in Stock
      BY <2>4
    <3> HIDE DEF to
    <3>2. \A x : x \notin DOMAIN Spend(sup[to], Payload(e.unit.hash)).left
      BY <1>1, <2>3, <2>4, <3>1, SpendsAll DEF Capped
    <3> QED
      BY <3>2 DEF HowMany, Exhausted
  <2> HIDE DEF to, left
  <2>5. SpendCopy(sup, e) \in [D -> Stock]
    BY <2>1, <2>2
  <2>6. \A d \in D : SpendCopy(sup, e)[d] = IF d = to THEN left ELSE sup[d]
    BY <2>1
  <2>7. \A d \in D : \A x : HowMany(sup[d], x) \in Nat
    BY HowManyIn
  <2>8. Within(SpendCopy(sup, e), sup, D)
    BY <2>2, <2>6, <2>7 DEF Within
  <2> QED
    BY <2>4, <2>5, <2>6, <2>8 DEF to
<1>3. CASE ~Copies(e)
  <2>1. SpendCopy(sup, e) = sup
    BY <1>3 DEF SpendCopy
  <2>2. \A d \in D : \A x : HowMany(sup[d], x) \in Nat
    BY HowManyIn
  <2>3. Within(sup, sup, D)
    BY <2>2 DEF Within
  <2> QED
    BY <1>3, <2>1, <2>3
<1> QED
  BY <1>2, <1>3

LEMMA WithinSome ==
  ASSUME NEW D, NEW a \in [D -> Stock], NEW b \in [D -> Stock], NEW c \in [D -> Stock]
  PROVE  /\ Within(a, a, D)
         /\ Within(a, b, D) /\ Within(b, c, D) => Within(a, c, D)
<1>1. ASSUME NEW d \in D, NEW x
      PROVE  HowMany(a[d], x) \in Nat /\ HowMany(b[d], x) \in Nat /\ HowMany(c[d], x) \in Nat
  <2>1. a[d] \in Stock /\ b[d] \in Stock /\ c[d] \in Stock
    OBVIOUS
  <2> QED
    BY <2>1, HowManyIn
<1>2. Within(a, a, D)
  BY <1>1 DEF Within
<1>3. ASSUME Within(a, b, D), Within(b, c, D), NEW d \in D, NEW x
      PROVE  HowMany(a[d], x) <= HowMany(c[d], x)
  <2>1. HowMany(a[d], x) <= HowMany(b[d], x) /\ HowMany(b[d], x) <= HowMany(c[d], x)
    BY <1>3 DEF Within
  <2> QED
    BY <1>1, <2>1
<1> QED
  BY <1>2, <1>3 DEF Within

\* When the verbatim copies have been spent no supply has grown, and the supply
\* of a unit that such a copy stands on is empty.
LEMMA CopiesLeave ==
  ASSUME NEW D, NEW sup \in [D -> Stock], NEW coverage \in Seq(Entry),
         \A d \in D : Capped(sup[d], d),
         \A d \in D : d.hash \in Seq(TextLine)
  PROVE  /\ Within(SpendCopies(sup, coverage), sup, D)
         /\ \A i \in DOMAIN coverage : \A d \in D :
               Copies(coverage[i]) /\ d = Normal(coverage[i].dests[1])
               => Exhausted(SpendCopies(sup, coverage)[d])
<1> DEFINE n == Len(coverage)
<1>0. n \in Nat /\ DOMAIN coverage = 1..n
  OBVIOUS
<1>1. PICK v \in [0..n -> [D -> Stock]] :
         /\ v[0] = sup /\ v[n] = SpendCopies(sup, coverage)
         /\ \A k \in 1..n : v[k] = SpendCopy(v[k - 1], coverage[k])
  BY SpendCopySteps
<1> HIDE DEF n
<1>2. \A k \in 0..n : v[k] \in [D -> Stock]
  BY <1>1
<1>3. ASSUME NEW k \in 1..n
      PROVE  k - 1 \in 0..n /\ k \in 0..n /\ coverage[k] \in Entry /\ k \in Nat
  <2>1. coverage \in Seq(Entry) /\ k \in DOMAIN coverage
    BY <1>0
  <2> QED
    BY <1>0, <2>1
<1>4. ASSUME NEW k \in 1..n  PROVE Within(v[k], v[k - 1], D)
  <2>1. v[k - 1] \in [D -> Stock] /\ coverage[k] \in Entry /\ v[k] = SpendCopy(v[k - 1], coverage[k])
    BY <1>1, <1>2, <1>3
  <2>2. Within(SpendCopy(v[k - 1], coverage[k]), v[k - 1], D)
    BY ONLY <2>1, SpendCopyDown
  <2> QED
    BY <2>1, <2>2
<1>5. ASSUME NEW k \in 0..n  PROVE Within(v[k], sup, D)
  <2> DEFINE good == {m \in 0..n : Within(v[m], sup, D)}
  <2>1. 0 \in good
    <3>1. 0 \in 0..n /\ Within(sup, sup, D)
      BY <1>0, WithinSome
    <3> QED
      BY <1>1, <3>1
  <2>2. ASSUME NEW m \in 1..n, m - 1 \in good  PROVE m \in good
    <3>1. Within(v[m - 1], sup, D) /\ Within(v[m], v[m - 1], D)
      BY <1>4, <2>2
    <3>2. v[m] \in [D -> Stock] /\ v[m - 1] \in [D -> Stock]
      BY <1>2, <1>3
    <3>3. Within(v[m], sup, D)
      BY <3>1, <3>2, WithinSome
    <3> QED
      BY <1>3, <3>3
  <2>3. \A m \in 0..n : m \in good
    <3> HIDE DEF good
    <3> QED
      BY <1>0, <2>1, <2>2, Upwards
  <2> QED
    BY <2>3
<1>6. ASSUME NEW i \in DOMAIN coverage, NEW d \in D,
             Copies(coverage[i]), d = Normal(coverage[i].dests[1])
      PROVE  Exhausted(v[n][d])
  <2> DEFINE Empty(m) == Exhausted(v[m][d])
             good == {m \in 0..n : m >= i => Empty(m)}
  <2>0. i \in 1..n /\ i \in Nat
    BY <1>0
  <2>1. 0 \in good
    BY <1>0, <2>0
  <2>2. ASSUME NEW m \in 1..n, m - 1 \in good  PROVE m \in good
    <3>0. m - 1 \in 0..n /\ m \in 0..n /\ coverage[m] \in Entry /\ m \in Nat
      BY <1>3
    <3>1. SUFFICES ASSUME m >= i  PROVE Empty(m)
      BY <3>0
    <3>2. CASE m = i
      <4>1. v[m - 1] \in [D -> Stock] /\ v[m] = SpendCopy(v[m - 1], coverage[m])
        BY <1>1, <3>0
      <4>2. Capped(v[m - 1][d], d)
        <5>1. Within(v[m - 1], sup, D)
          BY <1>5, <3>0
        <5>2. PayloadBag(d.hash) \in Stock /\ v[m - 1][d] \in Stock /\ sup[d] \in Stock
          BY <4>1, PayloadBagIn
        <5> SUFFICES ASSUME NEW x
                     PROVE  HowMany(v[m - 1][d], x) <= HowMany(PayloadBag(d.hash), x)
          BY DEF Capped
        <5>3. /\ HowMany(v[m - 1][d], x) \in Nat /\ HowMany(sup[d], x) \in Nat
              /\ HowMany(PayloadBag(d.hash), x) \in Nat
          BY <5>2, HowManyIn
        <5>4. /\ HowMany(v[m - 1][d], x) <= HowMany(sup[d], x)
              /\ HowMany(sup[d], x) <= HowMany(PayloadBag(d.hash), x)
          BY <5>1 DEF Within, Capped
        <5> QED
          BY <5>3, <5>4
      <4> QED
        <5>1. Copies(coverage[m]) /\ d = Normal(coverage[m].dests[1])
          BY <1>6, <3>2
        <5> DEFINE was == v[m - 1]
                   e == coverage[m]
        <5> HIDE DEF was, e
        <5>2. was \in [D -> Stock] /\ e \in Entry /\ v[m] = SpendCopy(was, e)
          BY <3>0, <4>1 DEF was, e
        <5>3. Copies(e) /\ d = Normal(e.dests[1])
          BY <5>1 DEF e
        <5>4. Capped(was[d], d)
          BY <4>2 DEF was
        <5>5. Exhausted(SpendCopy(was, e)[d])
          BY ONLY <5>2, <5>3, <5>4, d \in D, SpendCopyDown
        <5> QED
          BY <5>2, <5>5
    <3>3. CASE m # i
      <4>1. m - 1 >= i
        BY <2>0, <3>0, <3>1, <3>3
      <4>2. Empty(m - 1)
        BY <2>2, <4>1
      <4>3. \A x : HowMany(v[m][d], x) \in Nat /\ HowMany(v[m - 1][d], x) \in Nat
        <5>1. v[m][d] \in Stock /\ v[m - 1][d] \in Stock
          <6>1. v[m] \in [D -> Stock] /\ v[m - 1] \in [D -> Stock]
            BY <1>2, <3>0
          <6> QED
            BY <6>1
        <5> QED
          BY <5>1, HowManyIn
      <4>4. \A x : HowMany(v[m][d], x) <= HowMany(v[m - 1][d], x)
        BY <1>4 DEF Within
      <4> QED
        BY <4>2, <4>3, <4>4 DEF Exhausted
    <3> QED
      BY <3>2, <3>3
  <2>3. \A m \in 0..n : m \in good
    <3> HIDE DEF good
    <3> QED
      BY <1>0, <2>1, <2>2, Upwards
  <2>4. n \in 0..n /\ n >= i
    BY <1>0, <2>0
  <2>5. n >= i => Empty(n)
    <3>1. n \in good
      <4> HIDE DEF good
      <4> QED
        BY <2>3, <2>4
    <3> QED
      BY <3>1
  <2> QED
    BY <2>4, <2>5
<1>7. Within(v[n], sup, D)
  BY <1>0, <1>5
<1> QED
  BY <1>1, <1>6, <1>7

LEMMA UnitsIn ==
  ASSUME FilesOK, edition # None
  PROVE  \A d \in Range(EditionUnits) : d.hash \in Seq(TextLine)
<1>1. edition \in Edition /\ edition.lines \in Seq(TextLine)
  BY DEF FilesOK, Edition
<1>2. EditionUnits \in Seq(UnitRef)
  BY <1>1, DeriveIn DEF EditionUnits
<1>3. Range(EditionUnits) \subseteq UnitRef
  BY <1>2 DEF Range
<1> QED
  BY <1>3 DEF UnitRef

\* What each supply starts from, and what it holds once the verbatim copies are
\* spent: no more than the occurrences in units no verbatim copy stands on.
LEMMA StartAssigned ==
  ASSUME FilesOK, edition # None, edition.head # None
  PROVE  /\ DOMAIN SpendCopies(Supplies, Coverage) = DOMAIN Supplies
         /\ \E f : Assigned(f, {}, SpendCopies(Supplies, Coverage), Coverage, Unspent)
<1> DEFINE D == (UNION {Range(NormalDests(Coverage[i])) : i \in Kept}) \cap Range(EditionUnits)
<1>1. Coverage \in Seq(Entry)
  BY CoverageIn
<1>2. \A d \in Range(EditionUnits) : d.hash \in Seq(TextLine)
  BY UnitsIn
<1>3. Supplies = [d \in D |-> PayloadBag(d.hash)]
  BY Zenon DEF Supplies
<1>4. D \subseteq Range(EditionUnits)
  OBVIOUS
<1>5. \A d \in D : d \in Range(EditionUnits) /\ d.hash \in Seq(TextLine)
  BY <1>2, <1>4
<1> HIDE DEF D
<1>6. Supplies \in [D -> Stock] /\ \A d \in D : Supplies[d] = PayloadBag(d.hash)
  <2>1. \A d \in D : PayloadBag(d.hash) \in Stock
    BY <1>5, PayloadBagIn
  <2> QED
    BY <1>3, <2>1
<1> DEFINE left == SpendCopies(Supplies, Coverage)
<1>7. left \in [D -> Stock]
  BY <1>1, <1>6, SpendCopyIn
<1>8. \A d \in D : Capped(Supplies[d], d)
  <2>1. \A d \in D : \A x : HowMany(PayloadBag(d.hash), x) \in Nat
    BY <1>5, PayloadBagIn, HowManyIn
  <2> QED
    BY <1>6, <2>1 DEF Capped
<1>9. /\ Within(left, Supplies, D)
      /\ \A i \in DOMAIN Coverage : \A d \in D :
            Copies(Coverage[i]) /\ d = Normal(Coverage[i].dests[1])
            => Exhausted(left[d])
  BY <1>1, <1>5, <1>6, <1>8, CopiesLeave
<1> HIDE DEF left
<1> DEFINE f == [c \in {} |-> c]
<1>10. Range(f) = {}
  BY DEF Range
<1>11. ASSUME NEW d \in D, NEW x
       PROVE  HowMany(left[d], x) <= Cardinality(Free(f, d, x, Unspent))
  <2>1. CASE d \in Unspent
    <3>1. Free(f, d, x, Unspent) = Spots(d, x)
      BY <1>10, <2>1 DEF Free
    <3>2. HowMany(PayloadBag(d.hash), x) = Cardinality(Spots(d, x))
      BY <1>5, PayloadBagIn, SpotsMany
    <3> QED
      BY <1>6, <1>9, <3>1, <3>2 DEF Within
  <2>2. CASE d \notin Unspent
    <3>1. PICK i \in Verbatim : Copies(Coverage[i]) /\ d = Normal(Coverage[i].dests[1])
      BY <1>5, <2>2 DEF Unspent
    <3>2. i \in DOMAIN Coverage
      BY DEF Verbatim
    <3>3. HowMany(left[d], x) = 0
      BY <1>9, <3>1, <3>2 DEF Exhausted
    <3>4. Cardinality(Free(f, d, x, Unspent)) = 0
      BY <2>2, FS_EmptySet DEF Free
    <3> QED
      BY <3>3, <3>4
  <2> QED
    BY <2>1, <2>2
<1>12. Assigned(f, {}, left, Coverage, Unspent)
  <2>1. f \in [{} -> Slots(Unspent)]
    OBVIOUS
  <2> HIDE DEF f
  <2> QED
    BY <1>7, <1>11, <2>1 DEF Assigned
<1>13. DOMAIN left = DOMAIN Supplies
  BY <1>6, <1>7
<1> HIDE DEF f
<1> QED
  BY <1>12, <1>13 DEF left

\* What each stage knows of the entries that are past.
Accounted == \A u \in Range(SourceUnits) : Cardinality(EntriesFor(u)) = 1
Needed == (UNION {Range(NormalDests(Coverage[i])) : i \in Kept}) \cap Range(EditionUnits)
Past == {i \in Rewritten : i < at}
Placed == \E f : Assigned(f, Claims(Past), supply, Coverage, Unspent)

KeptInv ==
  /\ stage \in {"verbatim", "entries"} => Accounted
  /\ stage = "entries" =>
       /\ DOMAIN supply = Needed
       /\ failures = {} => (\A i \in Verbatim : i < at => Copies(Coverage[i])) /\ Placed
  /\ PassedMeansKept

Whole ==
  /\ Accounted
  /\ \A i \in Verbatim : Copies(Coverage[i])
  /\ Met(Claims(Rewritten), Slots(Unspent))

LEMMA UnmovedSame ==
  ASSUME Unmoved
  PROVE  /\ Coverage' = Coverage /\ EditionUnits' = EditionUnits
         /\ SourceUnits' = SourceUnits /\ (Accounted' <=> Accounted)
         /\ Verbatim' = Verbatim /\ Rewritten' = Rewritten /\ Kept' = Kept
         /\ Needed' = Needed /\ Unspent' = Unspent
         /\ \A i : Copies(Coverage[i])' <=> Copies(Coverage[i])
         /\ \A S : Claims(S)' = Claims(S)
<1>1. Coverage' = Coverage /\ EditionUnits' = EditionUnits /\ SourceUnits' = SourceUnits
  BY DEF Unmoved, Coverage, EditionUnits, SourceUnits
<1>2. Verbatim' = Verbatim /\ Rewritten' = Rewritten /\ Kept' = Kept
  BY <1>1 DEF Verbatim, Rewritten, Kept
<1>3. \A u : EntriesFor(u)' = EntriesFor(u)
  BY <1>1 DEF EntriesFor
<1>4. Accounted' <=> Accounted
  BY <1>1, <1>3 DEF Accounted
<1>5. \A i : Copies(Coverage[i])' <=> Copies(Coverage[i])
  BY <1>1 DEF Copies
<1>6. Needed' = Needed
  BY <1>1, <1>2 DEF Needed
<1>7. Unspent' = Unspent
  BY <1>1, <1>2, <1>5 DEF Unspent
<1>8. \A S : Claims(S)' = Claims(S)
  BY <1>1 DEF Claims
<1> QED
  BY <1>1, <1>2, <1>4, <1>5, <1>6, <1>7, <1>8

LEMMA UnmovedWhole ==
  ASSUME Unmoved, Whole
  PROVE  Whole'
<1>1. \A c : Claimed(c)' = Claimed(c)
  BY UnmovedSame DEF Claimed
<1>2. \A C, S : Met(C, S) => Met(C, S)'
  BY <1>1, UnmovedSame DEF Met
<1> QED
  BY <1>2, UnmovedSame DEF Whole

\* Before the entries are checked nothing is claimed of them, and a verdict that
\* comes with a failure is none that passes.
LEMMA KeptEarly ==
  ASSUME VoiceInv', \/ stage' \notin {"verbatim", "entries", "decided"}
                    \/ stage' = "decided" /\ failures' # {}
  PROVE  KeptInv'
<1>1. ~Passed'
  BY DEF VoiceInv, VerdictMatchesFailures, Passed
<1> QED
  BY <1>1 DEF KeptInv, PassedMeansKept

LEMMA AssignedMeets ==
  ASSUME NEW f, NEW C, NEW left, Assigned(f, C, left, Coverage, Unspent)
  PROVE  Met(C, Slots(Unspent))
<1> SUFFICES ASSUME NEW x \in {Claimed(c) : c \in C}
             PROVE  \E g \in [{c \in C : Claimed(c) = x} ->
                                 {s \in Slots(Unspent) : Offered(s) = x}] :
                       /\ IsInjective(g)
                       /\ \A c \in DOMAIN g :
                             g[c][1] \in Range(NormalDests(Coverage[c[1]]))
  BY DEF Met
<1> DEFINE B == {c \in C : Claimed(c) = x}
           g == [c \in B |-> f[c]]
<1>1. \A c \in C : Asked(Coverage, c) = Claimed(c)
  BY DEF Asked, Claimed
<1>2. f \in [C -> Slots(Unspent)] /\ \A c \in C :
         Offered(f[c]) = Claimed(c) /\ f[c][1] \in Range(NormalDests(Coverage[c[1]]))
  BY <1>1 DEF Assigned
<1>3. \A c \in B : c \in C /\ Claimed(c) = x
  OBVIOUS
<1> HIDE DEF B
<1>4. g \in [B -> {s \in Slots(Unspent) : Offered(s) = x}]
  BY <1>2, <1>3
<1>5. DOMAIN g = B /\ \A c \in B : g[c] = f[c]
  OBVIOUS
<1> HIDE DEF g
<1>6. IsInjective(g)
  BY <1>3, <1>5 DEF Assigned, IsInjective
<1>7. \A c \in DOMAIN g : g[c][1] \in Range(NormalDests(Coverage[c[1]]))
  BY <1>2, <1>3, <1>5
<1> QED
  BY <1>4, <1>6, <1>7 DEF B

LEMMA KeptSpendVerbatim ==
  ASSUME VoiceInv, VoiceInv', KeptInv, SpendVerbatim
  PROVE  KeptInv'
<1>1. stage = "verbatim" /\ stage' = "entries" /\ at' = 1 /\ Unmoved
      /\ supply' = SpendCopies(Supplies, Coverage)
  BY DEF SpendVerbatim, Unmoved, SpendCopies
<1>2. FilesOK /\ edition # None /\ edition.head # None
  BY <1>1 DEF VoiceInv, FilesOK, Checked
<1>3. DOMAIN supply' = Needed /\ \E f : Assigned(f, {}, supply', Coverage, Unspent)
  <2>1. DOMAIN Supplies = Needed
    BY DEF Supplies, Needed
  <2> QED
    BY <1>1, <1>2, <2>1, StartAssigned
<1>4. DOMAIN Coverage \subseteq Nat \ {0}
  BY <1>2, CoverageIn
<1>5. \A i \in DOMAIN Coverage : ~(i < 1)
  BY <1>4
<1>6. Past' = {} /\ Claims({}) = {}
  BY <1>1, <1>5, UnmovedSame DEF Past, Rewritten, Claims
<1>7. Placed'
  <2>1. Claims(Past)' = {}
    BY <1>1, <1>6, UnmovedSame DEF Claims
  <2> QED
    BY <1>1, <1>3, <2>1, UnmovedSame DEF Placed
<1>8. \A i \in Verbatim' : ~(i < at')
  BY <1>1, <1>5, UnmovedSame DEF Verbatim
<1>9. Accounted'
  BY <1>1, UnmovedSame DEF KeptInv
<1>10. ~Passed'
  BY <1>1 DEF Passed
<1> QED
  BY <1>1, <1>3, <1>7, <1>8, <1>9, <1>10, UnmovedSame DEF KeptInv, PassedMeansKept

LEMMA KeptConclude ==
  ASSUME VoiceInv, VoiceInv', KeptInv, Conclude
  PROVE  KeptInv'
<1>1. stage = "entries" /\ stage' = "decided" /\ at > Len(Coverage) /\ Unmoved
      /\ failures \subseteq failures'
  BY DEF Conclude, Unmoved
<1>2. CASE failures' # {}
  BY <1>1, <1>2, KeptEarly
<1>3. CASE failures' = {}
  <2>1. failures = {} /\ Accounted /\ Placed
        /\ \A i \in Verbatim : i < at => Copies(Coverage[i])
    BY <1>1, <1>3 DEF KeptInv
  <2>2. \A i \in DOMAIN Coverage : i < at
    <3>1. FilesOK /\ edition # None /\ edition.head # None /\ at \in Nat
      BY <1>1 DEF VoiceInv, FilesOK, Checked
    <3>2. Coverage \in Seq(Entry)
      BY <3>1, CoverageIn
    <3> QED
      BY <1>1, <3>1, <3>2
  <2>3. Past = Rewritten
    BY <2>2 DEF Past, Rewritten
  <2>4. Met(Claims(Rewritten), Slots(Unspent))
    BY <2>1, <2>3, AssignedMeets DEF Placed
  <2>5. Whole
    BY <2>1, <2>2, <2>4 DEF Whole, Verbatim
  <2>6. Whole'
    BY <1>1, <2>5, UnmovedWhole
  <2> QED
    BY <1>1, <2>6 DEF KeptInv, PassedMeansKept, Whole, Accounted
<1> QED
  BY <1>2, <1>3

\* What the step over an entry works on, and which claims are past after it.
Reworded(e) == e.op \in {"represented", "merged"}

LEMMA EntryClaims ==
  ASSUME VoiceInv, KeptInv, CheckEntry
  PROVE  /\ Coverage \in Seq(Entry) /\ at \in DOMAIN Coverage /\ Coverage[at] \in Entry
         /\ supply \in [DOMAIN supply -> Stock] /\ DOMAIN supply = Needed
         /\ Payload(Coverage[at].unit.hash) \in Seq(Item)
         /\ Reworded(Coverage[at]) /\ Missing(Coverage[at]) = {}
               => NormalDests(Coverage[at]) \in Seq(DOMAIN supply)
         /\ Claims(Past)' = IF Reworded(Coverage[at])
                            THEN Claims(Past) \cup ClaimsOf(Coverage, at) ELSE Claims(Past)
         /\ \A c \in Claims(Past) : c[1] # at
         /\ \A u \in Unspent : u.hash \in Seq(TextLine)
<1> DEFINE e == Coverage[at]
<1>1. stage = "entries" /\ at <= Len(Coverage) /\ at' = at + 1 /\ Unmoved
  BY DEF CheckEntry, Unmoved
<1>2. FilesOK /\ edition # None /\ edition.head # None /\ at \in Nat /\ at >= 1
  BY <1>1 DEF VoiceInv, FilesOK, Checked, EntriesOK
<1>3. Coverage \in Seq(Entry) /\ at \in DOMAIN Coverage /\ e \in Entry
  <2>1. Coverage \in Seq(Entry)
    BY <1>2, CoverageIn
  <2> QED
    BY <1>1, <1>2, <2>1
<1>4. supply \in [DOMAIN supply -> Stock] /\ DOMAIN supply = Needed
  BY <1>1 DEF VoiceInv, SuppliesOK, KeptInv
<1>5. Payload(e.unit.hash) \in Seq(Item)
  <2>1. e.unit.hash \in Seq(TextLine)
    BY <1>3 DEF Entry, EntryRef
  <2> QED
    BY <2>1, PayloadIn
<1>6. ASSUME Reworded(e), Missing(e) = {}  PROVE NormalDests(e) \in Seq(DOMAIN supply)
  <2>1. e.dests \in Seq(EntryRef)
    BY <1>3 DEF Entry
  <2>2. /\ DOMAIN NormalDests(e) = 1..Len(e.dests) /\ Len(e.dests) \in Nat
        /\ \A i \in 1..Len(e.dests) : NormalDests(e)[i] \in Range(NormalDests(e))
    BY <2>1 DEF NormalDests, Range
  <2>3. NormalDests(e) = [i \in 1..Len(e.dests) |-> NormalDests(e)[i]]
    BY <2>1 DEF NormalDests
  <2>4. at \in Kept
    BY <1>3, <1>6 DEF Kept, Reworded
  <2>5. Range(NormalDests(e)) \subseteq Needed
    BY <1>6, <2>4 DEF Needed, Missing
  <2>6. \A i \in 1..Len(e.dests) : NormalDests(e)[i] \in DOMAIN supply
    BY <1>4, <2>2, <2>5
  <2> HIDE DEF e
  <2> QED
    BY <2>2, <2>3, <2>6
<1>7. \A i : i \in Past' <=> i \in Past \/ (i = at /\ Reworded(e))
  <2>1. DOMAIN Coverage \subseteq Nat
    BY <1>3
  <2>2. Past' = {i \in Rewritten : i < at + 1}
    BY <1>1, UnmovedSame DEF Past
  <2>3. \A i \in DOMAIN Coverage : i < at + 1 <=> i < at \/ i = at
    BY <1>2, <2>1
  <2>4. ~(at < at)
    BY <1>2
  <2> QED
    BY <1>3, <2>2, <2>3, <2>4 DEF Past, Rewritten, Reworded
<1>8. Claims(Past)' = Claims(Past')
  BY <1>1, UnmovedSame DEF Claims
<1>9. Reworded(e) => Claims(Past') = Claims(Past) \cup ClaimsOf(Coverage, at)
  BY <1>7 DEF Claims, ClaimsOf
<1>10. ~Reworded(e) => Claims(Past') = Claims(Past)
  BY <1>7 DEF Claims
<1>11. \A c \in Claims(Past) : c[1] # at
  <2>1. at \notin Past
    BY <1>2 DEF Past
  <2> QED
    BY <2>1 DEF Claims
<1>12. \A u \in Unspent : u.hash \in Seq(TextLine)
  BY <1>2, UnitsIn DEF Unspent
<1> QED
  BY <1>3, <1>4, <1>5, <1>6, <1>8, <1>9, <1>10, <1>11, <1>12

\* What the step records when an item is missing, or anything else is wrong.
Spent == SpendAcross(supply, NormalDests(Coverage[at]), Payload(Coverage[at].unit.hash))

LEMMA EntryFailures ==
  ASSUME CheckEntry
  PROVE  /\ supply' = (IF Reworded(Coverage[at]) /\ Missing(Coverage[at]) = {}
                       THEN Spent.left ELSE supply)
         /\ failures \subseteq failures'
         /\ failures' = {} =>
              /\ Coverage[at].op # "cut" => Missing(Coverage[at]) = {}
              /\ Coverage[at].op = "verbatim" => Copies(Coverage[at])
              /\ Reworded(Coverage[at]) => Spent.missing = {}
         /\ Coverage[at].op # "cut" /\ Missing(Coverage[at]) # {} =>
              \E f \in failures' : f.kind = "destination"
         /\ \A f \in failures' \ failures :
              \/ f.kind \in {"destination", "verbatim", "structural"}
              \/ /\ Reworded(Coverage[at]) /\ Missing(Coverage[at]) = {}
                 /\ Spent.missing # {}
<1> DEFINE e == Coverage[at]
           survives == e.op \in {"represented", "merged"} /\ Missing(e) = {}
           dangling == IF e.op # "cut" /\ Missing(e) # {} THEN {"destination"} ELSE {}
           copied == IF e.op = "verbatim" /\ Missing(e) = {} /\ ~Copies(e)
                     THEN {"verbatim"} ELSE {}
           lost == IF survives THEN {x[1] : x \in Spent.missing} ELSE {}
           shared == IF e.op = "merged" /\ ~Shares([i \in DOMAIN Coverage |->
                                             NormalDests(Coverage[i])], at)
                     THEN {"structural"} ELSE {}
           kinds == dangling \cup copied \cup lost \cup shared
<1>1. failures' = failures \cup Failed(kinds)
      /\ supply' = (IF survives THEN Spent.left ELSE supply)
  BY Zenon DEF CheckEntry, Spent
<1>2. survives <=> Reworded(e) /\ Missing(e) = {}
  BY DEF Reworded
<1>3. Reworded(e) => e.op # "cut"
  BY DEF Reworded
<1>4. /\ survives /\ Spent.missing # {} => lost # {}
      /\ lost # {} => survives /\ Spent.missing # {}
  OBVIOUS
<1>5. /\ e.op # "cut" /\ Missing(e) # {} => "destination" \in dangling
      /\ e.op = "verbatim" /\ Missing(e) = {} /\ ~Copies(e) => "verbatim" \in copied
      /\ dangling \cup copied \cup shared \subseteq {"destination", "verbatim", "structural"}
  OBVIOUS
<1> HIDE DEF survives, dangling, copied, lost, shared, e
<1>6. \A k : [kind |-> k, entry |-> at] \in Failed(kinds) <=> k \in kinds
  <2> HIDE DEF kinds
  <2> QED
    BY DEF Failed
<1>7. \A f \in Failed(kinds) : f.kind \in kinds
  <2> HIDE DEF kinds
  <2> QED
    BY DEF Failed
<1>8. ASSUME failures' = {}
      PROVE  /\ e.op # "cut" => Missing(e) = {}
             /\ e.op = "verbatim" => Copies(e)
             /\ Reworded(e) => Spent.missing = {}
  <2>1. \A k : k \notin kinds
    BY <1>1, <1>6, <1>8
  <2> QED
    BY <1>2, <1>3, <1>4, <1>5, <2>1
<1>9. ASSUME e.op # "cut", Missing(e) # {}
      PROVE  \E f \in failures' : f.kind = "destination"
  <2>1. "destination" \in kinds
    BY <1>5, <1>9
  <2>2. [kind |-> "destination", entry |-> at] \in failures'
    BY <1>1, <1>6, <2>1
  <2> QED
    BY <2>2
<1>10. ASSUME NEW f \in failures' \ failures
       PROVE  \/ f.kind \in {"destination", "verbatim", "structural"}
              \/ Reworded(e) /\ Missing(e) = {} /\ Spent.missing # {}
  <2>1. f.kind \in kinds
    BY <1>1, <1>7
  <2> QED
    BY <1>2, <1>4, <1>5, <2>1
<1>11. failures \subseteq failures'
  BY <1>1
<1> QED
  BY <1>1, <1>2, <1>8, <1>9, <1>10, <1>11 DEF e

LEMMA KeptCheckEntry ==
  ASSUME VoiceInv, VoiceInv', KeptInv, CheckEntry
  PROVE  KeptInv'
<1> DEFINE e == Coverage[at]
<1>1. stage = "entries" /\ stage' = "entries" /\ at' = at + 1 /\ Unmoved
  BY DEF CheckEntry, Unmoved
<1>2. DOMAIN supply' = DOMAIN supply /\ DOMAIN supply = Needed
  BY <1>1, EntryRecords, EntryClaims DEF VoiceInv
<1>3. ASSUME failures' = {}  PROVE Placed'
  <2>1. PICK f : Assigned(f, Claims(Past), supply, Coverage, Unspent)
    BY <1>1, <1>3, EntryFailures DEF KeptInv, Placed
  <2>2. CASE Reworded(e)
    <3> DEFINE D == DOMAIN supply
               C == Claims(Past)
               p == Payload(e.unit.hash)
    <3>1. Spent.missing = {} /\ Missing(e) = {} /\ supply' = Spent.left
      BY <1>3, <2>2, EntryFailures DEF Reworded
    <3>2. /\ supply \in [D -> Stock] /\ p \in Seq(Item) /\ NormalDests(e) \in Seq(D)
          /\ \A c \in C : c[1] # at
          /\ \A u \in Unspent : u.hash \in Seq(TextLine)
          /\ Claims(Past)' = C \cup ClaimsOf(Coverage, at)
      BY <2>2, <3>1, EntryClaims
    <3>3. SpendAcross(supply, NormalDests(e), p).missing = {}
      BY <3>1 DEF Spent
    <3> HIDE DEF D, C
    <3>4. \E g : Assigned(g, C \cup ClaimsOf(Coverage, at),
                          SpendAcross(supply, NormalDests(e), p).left, Coverage, Unspent)
      <4>1. Assigned(f, C, supply, Coverage, Unspent)
        BY <2>1 DEF C
      <4> QED
        BY ONLY <3>2, <3>3, <4>1, EntryAssigns
    <3>5. SpendAcross(supply, NormalDests(e), p).left = supply'
      BY <3>1 DEF Spent
    <3> QED
      BY <1>1, <3>2, <3>4, <3>5, UnmovedSame DEF Placed
  <2>3. CASE ~Reworded(e)
    <3>1. Claims(Past)' = Claims(Past) /\ supply' = supply
      BY <2>3, EntryClaims, EntryFailures
    <3> QED
      BY <1>1, <2>1, <3>1, UnmovedSame DEF Placed
  <2> QED
    BY <2>2, <2>3
<1>4. ASSUME failures' = {}, NEW i \in Verbatim', i < at'
      PROVE  Copies(Coverage[i])'
  <2>1. i \in Verbatim /\ i \in DOMAIN Coverage /\ Coverage[i].op = "verbatim"
    BY <1>1, <1>4, UnmovedSame DEF Verbatim
  <2>2. i < at \/ i = at
    <3>1. i \in Nat /\ at \in Nat
      BY <2>1, EntryClaims
    <3> QED
      BY <1>1, <1>4, <3>1
  <2>3. Copies(Coverage[i])
    BY <1>1, <1>4, <2>1, <2>2, EntryFailures DEF KeptInv
  <2> QED
    BY <1>1, <2>3, UnmovedSame
<1>5. ~Passed'
  BY <1>1 DEF Passed
<1>6. Accounted' /\ DOMAIN supply' = Needed'
  BY <1>1, <1>2, UnmovedSame DEF KeptInv
<1> QED
  BY <1>1, <1>3, <1>4, <1>5, <1>6 DEF KeptInv, PassedMeansKept

\* The check of the accounting establishes that each unit has one entry.
LEMMA KeptAccounting ==
  ASSUME VoiceInv, VoiceInv', CheckUnitAccounting
  PROVE  KeptInv'
<1> DEFINE others == \A i \in DOMAIN Coverage :
                        Normal(Coverage[i].unit) \in Range(SourceUnits)
<1>1. IF Accounted /\ others THEN Pass("unit_accounting", "verbatim")
      ELSE Abort("unit_accounting", Payloads)
  BY Zenon DEF CheckUnitAccounting, Accounted
<1>2. Unmoved
  BY DEF CheckUnitAccounting, Unmoved
<1> HIDE DEF others
<1>3. CASE Accounted /\ others
  <2>1. stage' = "verbatim"
    BY <1>1, <1>3 DEF Pass
  <2>2. Accounted'
    BY <1>2, <1>3, UnmovedSame
  <2> QED
    BY <2>1, <2>2 DEF KeptInv, PassedMeansKept, Passed
<1>4. CASE ~(Accounted /\ others)
  <2>1. stage' = "decided" /\ failures' # {}
    BY <1>1, <1>4 DEF Abort
  <2> QED
    BY <2>1, KeptEarly
<1> QED
  BY <1>3, <1>4

LEMMA KeptChecks ==
  ASSUME VoiceInv, VoiceInv', CheckSourceHash \/ CheckLedgerStructure
  PROVE  KeptInv'
<1>1. \/ stage' \in {"structure", "accounting"}
      \/ (stage' = "decided" /\ failures' # {})
  BY DEF CheckSourceHash, CheckLedgerStructure, Pass, Abort
<1> QED
  BY <1>1, KeptEarly

LEMMA KeptStep == VoiceInv /\ VoiceInv' /\ KeptInv /\ [VoiceNext]_vars => KeptInv'
<1> SUFFICES ASSUME VoiceInv, VoiceInv', KeptInv, [VoiceNext]_vars  PROVE KeptInv'
  OBVIOUS
<1>1. CASE ReadRequest \/ ModelFails \/ Revise \/ ReadLedger
  <2>1. stage' \in {"asked", "refused", "emitted", "hash", "undecided"}
    BY <1>1 DEF ReadRequest, ModelFails, Revise, ReadLedger
  <2> QED
    BY <2>1, KeptEarly
<1>2. CASE EditSource \/ EditBody \/ DropHead \/ EditLedger
  <2>1. stage' \in {"requested", "asked", "emitted"}
    BY <1>2 DEF EditSource, EditBody, DropHead, EditLedger, ByHand
  <2> QED
    BY <2>1, KeptEarly
<1>3. CASE UNCHANGED vars
  <2>1. Unmoved /\ UNCHANGED <<stage, checks, failures, supply, at>>
    BY <1>3 DEF vars, Unmoved
  <2>2. Past' = Past
    BY <2>1, UnmovedSame DEF Past
  <2>3. Claims(Past)' = Claims(Past)
    BY <2>1, <2>2, UnmovedSame DEF Claims
  <2>4. Placed => Placed'
    BY <2>1, <2>3, UnmovedSame DEF Placed
  <2>5. Passed' => Passed
    BY <2>1 DEF Passed
  <2>6. PassedMeansKept => PassedMeansKept'
    <3>1. PassedMeansKept <=> (Passed => Whole)
      BY DEF PassedMeansKept, Whole, Accounted
    <3>2. PassedMeansKept' <=> (Passed' => Whole')
      BY DEF PassedMeansKept, Whole, Accounted
    <3> QED
      BY <2>1, <2>5, <3>1, <3>2, UnmovedWhole
  <2> QED
    BY <2>1, <2>4, <2>6, UnmovedSame DEF KeptInv
<1> QED
  BY <1>1, <1>2, <1>3, KeptChecks, KeptAccounting, KeptSpendVerbatim, KeptCheckEntry,
     KeptConclude DEF VoiceNext

\* A passed verdict means that every paragraph is accounted for once, verbatim
\* ones byte for byte, and that every quote, citation, numeral and term of the
\* others has an occurrence of its own (SpendVerbatim, then CheckEntry).
THEOREM PassedMeans == VoiceSpec => []PassedMeansKept
<1>1. VoiceInit => KeptInv
  BY DEF VoiceInit, KeptInv, PassedMeansKept, Passed
<1>2. KeptInv => PassedMeansKept
  BY DEF KeptInv
<1> QED
  BY <1>1, <1>2, KeptStep, VoiceInvariant, PTL DEF VoiceSpec

-----------------------------------------------------------------------------
(* What a failed verdict means.  What a supply has lost to rewritten       *)
(* entries is no more than they claim of its unit (Balanced); so an item   *)
(* that is not found is one the entries claim more of than there is.       *)

\* The claims on d for x; the occurrences of x in d that verbatim copies leave.
On(C, cov, d, x) == {c \in C : Asked(cov, c) = x /\ d \in Range(NormalDests(cov[c[1]]))}
Spare(d, x, units) == IF d \in units THEN Spots(d, x) ELSE {}

Balanced(left, C, cov, units) ==
  /\ IsFiniteSet(C)
  /\ \A d \in DOMAIN left : \A x :
        Cardinality(Spare(d, x, units)) <= HowMany(left[d], x) + Cardinality(On(C, cov, d, x))

\* More is claimed of d than it has.
Overdrawn(C, cov, d, x, units) ==
  IsFiniteSet(C) /\ Cardinality(On(C, cov, d, x)) > Cardinality(Spare(d, x, units))

LEMMA SpareIn ==
  ASSUME NEW d, NEW x, NEW units, \A u \in units : u.hash \in Seq(TextLine)
  PROVE  IsFiniteSet(Spare(d, x, units)) /\ Cardinality(Spare(d, x, units)) \in Nat
<1>1. IsFiniteSet(Spare(d, x, units))
  BY SpotsMany, FS_EmptySet DEF Spare
<1> QED
  BY <1>1, FS_CardinalityType

LEMMA OnIn ==
  ASSUME NEW C, IsFiniteSet(C), NEW cov, NEW d, NEW x
  PROVE  IsFiniteSet(On(C, cov, d, x)) /\ Cardinality(On(C, cov, d, x)) \in Nat
<1>1. On(C, cov, d, x) \in SUBSET C
  BY DEF On
<1> QED
  BY <1>1, FS_Subset, FS_CardinalityType

LEMMA OnMore ==
  ASSUME NEW C, IsFiniteSet(C), NEW cov, NEW c, c \notin C
  PROVE  /\ IsFiniteSet(C \cup {c})
         /\ \A d, x : Cardinality(On(C \cup {c}, cov, d, x)) =
               IF x = Asked(cov, c) /\ d \in Range(NormalDests(cov[c[1]]))
               THEN Cardinality(On(C, cov, d, x)) + 1 ELSE Cardinality(On(C, cov, d, x))
<1>1. IsFiniteSet(C \cup {c})
  BY FS_AddElement
<1>2. ASSUME NEW d, NEW x, x = Asked(cov, c), d \in Range(NormalDests(cov[c[1]]))
      PROVE  Cardinality(On(C \cup {c}, cov, d, x)) = Cardinality(On(C, cov, d, x)) + 1
  <2> DEFINE S == On(C, cov, d, x)
  <2>1. On(C \cup {c}, cov, d, x) = S \cup {c} /\ c \notin S
    BY <1>2 DEF On
  <2>2. IsFiniteSet(S)
    BY OnIn
  <2> HIDE DEF S
  <2>3. Cardinality(S \cup {c}) = Cardinality(S) + 1
    BY <2>1, <2>2, FS_AddElement
  <2> QED
    BY <2>1, <2>3 DEF S
<1>3. ASSUME NEW d, NEW x, ~(x = Asked(cov, c) /\ d \in Range(NormalDests(cov[c[1]])))
      PROVE  On(C \cup {c}, cov, d, x) = On(C, cov, d, x)
  BY <1>3 DEF On
<1> QED
  BY <1>1, <1>2, <1>3

LEMMA StaysOverdrawn ==
  ASSUME NEW C, NEW B, IsFiniteSet(B), C \subseteq B, NEW cov, NEW d, NEW x, NEW units,
         \A u \in units : u.hash \in Seq(TextLine), Overdrawn(C, cov, d, x, units)
  PROVE  Overdrawn(B, cov, d, x, units)
<1>1. On(C, cov, d, x) \in SUBSET On(B, cov, d, x)
  BY DEF On
<1>2. IsFiniteSet(C)
  BY DEF Overdrawn
<1>3. Cardinality(On(C, cov, d, x)) <= Cardinality(On(B, cov, d, x))
  BY <1>1, OnIn, FS_Subset
<1>4. /\ Cardinality(On(C, cov, d, x)) \in Nat /\ Cardinality(On(B, cov, d, x)) \in Nat
      /\ Cardinality(Spare(d, x, units)) \in Nat
  BY <1>2, OnIn, SpareIn
<1> QED
  BY <1>3, <1>4 DEF Overdrawn

\* Whatever is missing is claimed more often than it is there.
Explained(missing, dests, C, cov, units) ==
  \A x \in missing : \A d \in Range(dests) : Overdrawn(C, cov, d, x, units)

LEMMA BalancedOneMore ==
  ASSUME NEW D, NEW was \in [left : [D -> Stock], missing : SUBSET Item],
         NEW now, NEW C, NEW cov, NEW units, \A u \in units : u.hash \in Seq(TextLine),
         NEW c, c \notin C, Asked(cov, c) \in Item,
         NEW dests, dests = NormalDests(cov[c[1]]), dests \in Seq(D),
         now = Discharge(dests, was, Asked(cov, c)),
         Balanced(was.left, C, cov, units), Explained(was.missing, dests, C, cov, units)
  PROVE  /\ Balanced(now.left, C \cup {c}, cov, units)
         /\ Explained(now.missing, dests, C \cup {c}, cov, units)
<1> DEFINE y == Asked(cov, c)
<1>1. IsFiniteSet(C) /\ IsFiniteSet(C \cup {c}) /\ Range(dests) \subseteq D
  <2>1. IsFiniteSet(C)
    BY DEF Balanced
  <2>2. IsFiniteSet(C \cup {c})
    BY <2>1, OnMore
  <2>3. Range(dests) \subseteq D
    BY DEF Range
  <2> QED
    BY <2>1, <2>2, <2>3
<1>2. \A d, x : Cardinality(On(C \cup {c}, cov, d, x)) =
               IF x = y /\ d \in Range(dests)
               THEN Cardinality(On(C, cov, d, x)) + 1 ELSE Cardinality(On(C, cov, d, x))
  BY <1>1, OnMore
<1>3. \A d, x : Cardinality(On(C, cov, d, x)) \in Nat /\ Cardinality(Spare(d, x, units)) \in Nat
  BY <1>1, OnIn, SpareIn
<1> HIDE DEF y
<1>9. ASSUME NEW d, NEW x
      PROVE  /\ Cardinality(On(C \cup {c}, cov, d, x)) >= Cardinality(On(C, cov, d, x))
             /\ Cardinality(On(C \cup {c}, cov, d, x)) \in Nat
  <2>1. Cardinality(On(C, cov, d, x)) \in Nat
    BY <1>3
  <2>2. Cardinality(On(C \cup {c}, cov, d, x)) \in
           {Cardinality(On(C, cov, d, x)), Cardinality(On(C, cov, d, x)) + 1}
    BY <1>2
  <2> QED
    BY <2>1, <2>2
<1>4. ASSUME NEW x \in was.missing, NEW d \in Range(dests)
      PROVE  Overdrawn(C \cup {c}, cov, d, x, units)
  <2>1. Overdrawn(C, cov, d, x, units)
    BY DEF Explained
  <2> QED
    BY <1>1, <2>1, StaysOverdrawn
<1>5. ASSUME NEW d \in D, NEW x
      PROVE  /\ HowMany(was.left[d], x) \in Nat
             /\ Cardinality(Spare(d, x, units))
                   <= HowMany(was.left[d], x) + Cardinality(On(C, cov, d, x))
  <2>1. was.left[d] \in Stock /\ d \in DOMAIN was.left
    OBVIOUS
  <2> QED
    BY <2>1, HowManyIn DEF Balanced
<1> DEFINE found(d) == BagIn(y, was.left[d]) /\ now.left = Taken(was.left, d, y)
<1>6. CASE now.missing = was.missing /\ \E d \in Range(dests) : found(d)
  <2>1. PICK to \in Range(dests) : found(to)
    BY <1>6
  <2>2. to \in D /\ BagIn(y, was.left[to]) /\ was.left[to] \in Stock
    BY <1>1, <2>1
  <2>3. DOMAIN now.left = D /\ now.left[to] = Less(was.left[to], y)
        /\ \A d \in D : d # to => now.left[d] = was.left[d]
    BY <2>1, <2>2 DEF Taken
  <2>4. ASSUME NEW d \in D, NEW x
        PROVE  Cardinality(Spare(d, x, units))
                  <= HowMany(now.left[d], x) + Cardinality(On(C \cup {c}, cov, d, x))
    <3>1. CASE d = to /\ x = y
      <4>1. HowMany(now.left[to], y) = HowMany(was.left[to], y) - 1
        BY <2>2, <2>3, LessIn
      <4>2. Cardinality(On(C \cup {c}, cov, to, y)) = Cardinality(On(C, cov, to, y)) + 1
        BY <1>2
      <4> QED
        BY <1>3, <1>5, <3>1, <4>1, <4>2
    <3>2. CASE ~(d = to /\ x = y)
      <4>1. HowMany(now.left[d], x) = HowMany(was.left[d], x)
        BY <2>2, <2>3, <3>2, LessIn
      <4>2. Cardinality(On(C \cup {c}, cov, d, x)) >= Cardinality(On(C, cov, d, x))
            /\ Cardinality(On(C \cup {c}, cov, d, x)) \in Nat
        BY <1>9
      <4> QED
        BY <1>3, <1>5, <4>1, <4>2
    <3> QED
      BY <3>1, <3>2
  <2>5. Balanced(now.left, C \cup {c}, cov, units)
    BY <1>1, <2>3, <2>4 DEF Balanced
  <2> QED
    BY <1>4, <1>6, <2>5 DEF Explained
<1>7. CASE /\ now.missing = was.missing \cup {y} /\ now.left = was.left
           /\ \A d \in Range(dests) : ~BagIn(y, was.left[d])
  <2>1. ASSUME NEW d \in D, NEW x
        PROVE  Cardinality(Spare(d, x, units))
                  <= HowMany(now.left[d], x) + Cardinality(On(C \cup {c}, cov, d, x))
    <3>1. Cardinality(On(C \cup {c}, cov, d, x)) >= Cardinality(On(C, cov, d, x))
          /\ Cardinality(On(C \cup {c}, cov, d, x)) \in Nat
      BY <1>9
    <3> QED
      BY <1>3, <1>5, <1>7, <3>1
  <2>2. Balanced(now.left, C \cup {c}, cov, units)
    <3>1. DOMAIN now.left = D
      BY <1>7
    <3> QED
      BY <1>1, <2>1, <3>1 DEF Balanced
  <2>3. ASSUME NEW d \in Range(dests)  PROVE Overdrawn(C \cup {c}, cov, d, y, units)
    <3>1. d \in D /\ was.left[d] \in Stock
      BY <1>1
    <3>2. HowMany(was.left[d], y) = 0
      BY <1>7, <3>1, HowManyIn
    <3>3. Cardinality(Spare(d, y, units)) <= HowMany(was.left[d], y) + Cardinality(On(C, cov, d, y))
      BY <1>5, <3>1
    <3>4. Cardinality(On(C \cup {c}, cov, d, y)) = Cardinality(On(C, cov, d, y)) + 1
      BY <1>2
    <3> QED
      BY <1>1, <1>3, <3>2, <3>3, <3>4 DEF Overdrawn
  <2> QED
    BY <1>4, <1>7, <2>2, <2>3 DEF Explained
<1>8. \/ now.missing = was.missing /\ \E d \in Range(dests) : found(d)
      \/ /\ now.missing = was.missing \cup {y} /\ now.left = was.left
         /\ \A d \in Range(dests) : ~BagIn(y, was.left[d])
  <2>1. y \in Item /\ now = Discharge(dests, was, y)
    BY DEF y
  <2> QED
    BY <2>1, DischargeLoses
<1> QED
  BY <1>6, <1>7, <1>8

LEMMA EntryBalances ==
  ASSUME NEW D, NEW sup \in [D -> Stock], NEW C, NEW cov, NEW units,
         \A u \in units : u.hash \in Seq(TextLine),
         NEW i, \A c \in C : c[1] # i,
         Payload(cov[i].unit.hash) \in Seq(Item), NormalDests(cov[i]) \in Seq(D),
         NEW spent, spent = SpendAcross(sup, NormalDests(cov[i]), Payload(cov[i].unit.hash)),
         Balanced(sup, C, cov, units)
  PROVE  /\ Balanced(spent.left, C \cup ClaimsOf(cov, i), cov, units)
         /\ Explained(spent.missing, NormalDests(cov[i]), C \cup ClaimsOf(cov, i), cov, units)
<1> DEFINE p == Payload(cov[i].unit.hash)
           dests == NormalDests(cov[i])
           A == [left : [D -> Stock], missing : SUBSET Item]
           first(k) == {<<i, n>> : n \in 1..k}
<1> HIDE DEF p, dests
<1>0. p \in Seq(Item) /\ Len(p) \in Nat /\ DOMAIN p = 1..Len(p)
  BY DEF p
<1>1. PICK v \in [0..Len(p) -> A] :
         /\ v[0] = [left |-> sup, missing |-> {}] /\ v[Len(p)] = SpendAcross(sup, dests, p)
         /\ \A n \in 1..Len(p) : v[n] = Discharge(dests, v[n - 1], p[n])
  BY ONLY <1>0, sup \in [D -> Stock], SpendAcrossSteps
<1> DEFINE Good(k) == /\ Balanced(v[k].left, C \cup first(k), cov, units)
                      /\ Explained(v[k].missing, dests, C \cup first(k), cov, units)
           good == {k \in 0..Len(p) : Good(k)}
<1>2. 0 \in good
  <2>1. C \cup first(0) = C
    OBVIOUS
  <2>2. v[0].left = sup /\ v[0].missing = {}
    BY <1>1
  <2> HIDE DEF first
  <2>3. Good(0)
    BY <2>1, <2>2 DEF Explained
  <2> HIDE DEF Good
  <2> QED
    BY <1>0, <2>3
<1>3. ASSUME NEW k \in 1..Len(p), k - 1 \in good  PROVE k \in good
  <2>1. k \in Nat /\ k - 1 \in 0..Len(p) /\ k \in 0..Len(p) /\ p[k] \in Item
    BY <1>0
  <2> DEFINE was == v[k - 1]
             now == v[k]
             c == <<i, k>>
             C1 == C \cup first(k - 1)
  <2>2. Good(k - 1)
    <3> HIDE DEF Good
    <3> QED
      BY <1>3
  <2>3. was \in A /\ now = Discharge(dests, was, p[k])
    BY <1>1, <2>1
  <2>4. Asked(cov, c) = p[k] /\ c[1] = i
    BY DEF Asked, p
  <2>5. c \notin C1 /\ C1 \cup {c} = C \cup first(k)
    <3>1. c \notin C
      BY <2>4
    <3>2. \A n \in 1..(k - 1) : <<i, n>> # c
      BY <2>1
    <3>3. \A n : n \in 1..k <=> n \in 1..(k - 1) \/ n = k
      BY <2>1
    <3> QED
      BY <3>1, <3>2, <3>3
  <2>6. Balanced(was.left, C1, cov, units) /\ Explained(was.missing, dests, C1, cov, units)
    BY <2>2
  <2> HIDE DEF was, now, c, C1, first
  <2>7. dests = NormalDests(cov[c[1]]) /\ Asked(cov, c) \in Item
        /\ now = Discharge(dests, was, Asked(cov, c)) /\ c \notin C1 /\ dests \in Seq(D)
    BY <2>1, <2>3, <2>4, <2>5 DEF dests
  <2>8. /\ Balanced(now.left, C1 \cup {c}, cov, units)
        /\ Explained(now.missing, dests, C1 \cup {c}, cov, units)
    <3>1. was \in [left : [D -> Stock], missing : SUBSET Item]
      BY <2>3
    <3>2. \A u \in units : u.hash \in Seq(TextLine)
      OBVIOUS
    <3>3. Balanced(was.left, C1, cov, units) /\ Explained(was.missing, dests, C1, cov, units)
      BY <2>6
    <3> QED
      BY ONLY <2>7, <3>1, <3>2, <3>3, BalancedOneMore
  <2>9. Good(k)
    BY <2>5, <2>8 DEF now
  <2> HIDE DEF Good
  <2> QED
    BY <2>1, <2>9
<1>4. Len(p) \in good
  <2>1. \A k \in 0..Len(p) : k \in good
    <3> HIDE DEF good
    <3> QED
      BY <1>0, <1>2, <1>3, Upwards
  <2>2. Len(p) \in 0..Len(p)
    BY <1>0
  <2> HIDE DEF good
  <2> QED
    BY <2>1, <2>2
<1>5. Good(Len(p))
  <2> HIDE DEF Good
  <2> QED
    BY <1>4
<1>6. first(Len(p)) = ClaimsOf(cov, i)
  BY <1>0 DEF ClaimsOf, p
<1> QED
  BY <1>1, <1>5, <1>6 DEF p, dests

\* A supply that no verbatim copy stands on is left as it was.
LEMMA CopiesSpare ==
  ASSUME NEW D, NEW sup \in [D -> Stock], NEW coverage \in Seq(Entry), NEW d \in D,
         \A i \in DOMAIN coverage : ~(Copies(coverage[i]) /\ d = Normal(coverage[i].dests[1]))
  PROVE  SpendCopies(sup, coverage)[d] = sup[d]
<1> DEFINE n == Len(coverage)
<1>0. n \in Nat /\ DOMAIN coverage = 1..n
  OBVIOUS
<1>1. PICK v \in [0..n -> [D -> Stock]] :
         /\ v[0] = sup /\ v[n] = SpendCopies(sup, coverage)
         /\ \A k \in 1..n : v[k] = SpendCopy(v[k - 1], coverage[k])
  BY SpendCopySteps
<1> HIDE DEF n
<1> DEFINE good == {k \in 0..n : v[k][d] = sup[d]}
<1>2. 0 \in good
  BY <1>0, <1>1
<1>3. ASSUME NEW k \in 1..n, k - 1 \in good  PROVE k \in good
  <2>1. k - 1 \in 0..n /\ k \in 0..n /\ k \in DOMAIN coverage
    BY <1>0
  <2> DEFINE e == coverage[k]
             to == Normal(e.dests[1])
  <2>2. v[k - 1] \in [D -> Stock] /\ v[k] = SpendCopy(v[k - 1], e) /\ ~(Copies(e) /\ d = to)
    BY <1>1, <2>1
  <2> HIDE DEF e
  <2>3. \/ v[k] = v[k - 1]
        \/ (d # to /\ v[k] = [v[k - 1] EXCEPT ![to] = Spend(@, Payload(e.unit.hash)).left])
    BY <2>2 DEF SpendCopy
  <2>4. v[k][d] = v[k - 1][d]
    BY <2>2, <2>3
  <2> QED
    BY <1>3, <2>1, <2>4
<1>4. n \in good
  <2>1. \A k \in 0..n : k \in good
    <3> HIDE DEF good
    <3> QED
      BY <1>0, <1>2, <1>3, Upwards
  <2>2. n \in 0..n
    BY <1>0
  <2> HIDE DEF good
  <2> QED
    BY <2>1, <2>2
<1> QED
  BY <1>1, <1>4

LEMMA StartBalanced ==
  ASSUME FilesOK, edition # None, edition.head # None
  PROVE  Balanced(SpendCopies(Supplies, Coverage), {}, Coverage, Unspent)
<1> DEFINE D == (UNION {Range(NormalDests(Coverage[i])) : i \in Kept}) \cap Range(EditionUnits)
<1>1. Coverage \in Seq(Entry) /\ \A d \in Range(EditionUnits) : d.hash \in Seq(TextLine)
  BY CoverageIn, UnitsIn
<1>2. Supplies = [d \in D |-> PayloadBag(d.hash)]
  BY Zenon DEF Supplies
<1>3. \A d \in D : d \in Range(EditionUnits) /\ d.hash \in Seq(TextLine)
  BY <1>1
<1> HIDE DEF D
<1>4. Supplies \in [D -> Stock] /\ \A d \in D : Supplies[d] = PayloadBag(d.hash)
  <2>1. \A d \in D : PayloadBag(d.hash) \in Stock
    BY <1>3, PayloadBagIn
  <2> QED
    BY <1>2, <2>1
<1> DEFINE left == SpendCopies(Supplies, Coverage)
<1>5. left \in [D -> Stock]
  BY <1>1, <1>4, SpendCopyIn
<1>6. \A d \in Unspent : d.hash \in Seq(TextLine)
  BY <1>1 DEF Unspent
<1>7. ASSUME NEW d \in D, NEW x
      PROVE  Cardinality(Spare(d, x, Unspent))
                <= HowMany(left[d], x) + Cardinality(On({}, Coverage, d, x))
  <2>1. HowMany(left[d], x) \in Nat
    <3>1. left[d] \in Stock
      BY <1>5
    <3> HIDE DEF left
    <3> QED
      BY <3>1, HowManyIn
  <2>2. Cardinality(On({}, Coverage, d, x)) = 0
    <3>1. On({}, Coverage, d, x) = {}
      BY DEF On
    <3> QED
      BY <3>1, FS_EmptySet
  <2>3. CASE d \in Unspent
    <3>1. \A i \in DOMAIN Coverage : ~(Copies(Coverage[i]) /\ d = Normal(Coverage[i].dests[1]))
      BY <2>3 DEF Unspent, Verbatim, Copies
    <3>2. left[d] = Supplies[d]
      BY <1>1, <1>4, <3>1, CopiesSpare
    <3>3. HowMany(PayloadBag(d.hash), x) = Cardinality(Spare(d, x, Unspent))
      BY <1>3, <2>3, PayloadBagIn, SpotsMany DEF Spare
    <3> HIDE DEF left
    <3> QED
      BY <1>4, <2>1, <2>2, <3>2, <3>3
  <2>4. CASE d \notin Unspent
    <3>1. Cardinality(Spare(d, x, Unspent)) = 0
      BY <2>4, FS_EmptySet DEF Spare
    <3> HIDE DEF left
    <3> QED
      BY <2>1, <2>2, <3>1
  <2> QED
    BY <2>3, <2>4
<1>8. DOMAIN left = D
  BY <1>5
<1> HIDE DEF left
<1> QED
  BY <1>7, <1>8, FS_EmptySet DEF Balanced, left

-----------------------------------------------------------------------------
(* The invariant behind FailedMeansLost.                                   *)

Single == \A i \in Rewritten : Cardinality(Range(NormalDests(Coverage[i]))) = 1
PayloadKinds == {"quote", "citation", "numeric", "lexicon"}
OfPayload == \A f \in failures : f.kind \in PayloadKinds
Lost == \E d, x : Overdrawn(Claims(Past), Coverage, d, x, Unspent)

\* As long as nothing but payload is wrong, the books balance, and a failure
\* stands for a unit that is overdrawn.
LostInv ==
  /\ stage = "entries" /\ OfPayload =>
       /\ Balanced(supply, Claims(Past), Coverage, Unspent)
       /\ Single /\ failures # {} => Lost
  /\ FailedMeansLost

LEMMA FewDests ==
  ASSUME NEW e \in Entry
  PROVE  IsFiniteSet(Range(NormalDests(e)))
<1> DEFINE ds == NormalDests(e)
<1>1. e.dests \in Seq(EntryRef)
  BY DEF Entry
<1>2. DOMAIN ds = 1..Len(e.dests) /\ Len(e.dests) \in Nat /\ ds = [i \in DOMAIN ds |-> ds[i]]
  BY <1>1 DEF NormalDests
<1> HIDE DEF ds
<1>3. IsFiniteSet(DOMAIN ds)
  <2> DEFINE n == Len(e.dests)
  <2>1. n \in Nat /\ DOMAIN ds = 1..n
    BY <1>2
  <2> HIDE DEF n
  <2>2. IsFiniteSet(1..n)
    BY <2>1, FS_Interval
  <2> QED
    BY <2>1, <2>2
<1>4. ds \in Surjection(DOMAIN ds, Range(ds))
  BY <1>2 DEF Surjection, Range
<1> QED
  BY <1>3, <1>4, FS_Surjection DEF ds

\* When a unit is claimed more often than it has, and no entry could turn to
\* another unit, no assignment meets the claims.
LEMMA OverdrawnFails ==
  ASSUME Single, NEW d, NEW x, Overdrawn(Claims(Rewritten), Coverage, d, x, Unspent),
         \A u \in Unspent : u.hash \in Seq(TextLine),
         \A i \in DOMAIN Coverage : Coverage[i] \in Entry
  PROVE  ~Met(Claims(Rewritten), Slots(Unspent))
<1> DEFINE C == Claims(Rewritten)
           S == On(C, Coverage, d, x)
           T == Spare(d, x, Unspent)
<1>1. IsFiniteSet(C) /\ Cardinality(S) > Cardinality(T)
  BY DEF Overdrawn
<1>2. IsFiniteSet(S) /\ IsFiniteSet(T) /\ Cardinality(S) \in Nat /\ Cardinality(T) \in Nat
  BY <1>1, OnIn, SpareIn
<1>3. \A c \in C : Asked(Coverage, c) = Claimed(c) /\ c[1] \in Rewritten
  BY DEF Asked, Claimed, Claims
<1>4. \A c \in S : c \in C /\ Claimed(c) = x /\ d \in Range(NormalDests(Coverage[c[1]]))
  BY <1>3 DEF On
<1> HIDE DEF C, S, T
<1>5. S # {}
  <2>1. Cardinality(S) # 0
    BY <1>1, <1>2
  <2> QED
    BY <1>2, <2>1, FS_EmptySet
<1>6. ASSUME NEW c \in S, NEW e \in Range(NormalDests(Coverage[c[1]]))  PROVE e = d
  <2> DEFINE R == Range(NormalDests(Coverage[c[1]]))
  <2>1. Cardinality(R) = 1 /\ d \in R /\ e \in R
    BY <1>3, <1>4 DEF Single
  <2>2. IsFiniteSet(R)
    <3>1. Coverage[c[1]] \in Entry
      BY <1>3, <1>4 DEF Rewritten
    <3> QED
      BY <3>1, FewDests
  <2> HIDE DEF R
  <2>3. PICK y : R = {y}
    BY <2>1, <2>2, FS_Singleton
  <2> QED
    BY <2>1, <2>3
<1>7. SUFFICES ASSUME Met(C, Slots(Unspent))  PROVE FALSE
  BY DEF C
<1>8. x \in {Claimed(c) : c \in C}
  BY <1>4, <1>5
<1>9. PICK f \in [{c \in C : Claimed(c) = x} -> {s \in Slots(Unspent) : Offered(s) = x}] :
         /\ IsInjective(f)
         /\ \A c \in DOMAIN f : f[c][1] \in Range(NormalDests(Coverage[c[1]]))
  BY <1>7, <1>8 DEF Met
<1>10. ASSUME NEW c \in S  PROVE c \in DOMAIN f /\ f[c] \in T
  <2>1. c \in DOMAIN f /\ f[c] \in Slots(Unspent) /\ Offered(f[c]) = x
    BY <1>4, <1>9
  <2>2. f[c][1] = d
    BY <1>6, <1>9, <2>1
  <2>0. PICK u \in Unspent : f[c] \in {<<u, n>> : n \in DOMAIN Payload(u.hash)}
    BY <2>1 DEF Slots
  <2>3. PICK n \in DOMAIN Payload(u.hash) : f[c] = <<u, n>>
    BY <2>0
  <2>4. u = d /\ Payload(d.hash)[n] = x
    BY <2>1, <2>2, <2>3 DEF Offered
  <2>5. f[c] \in Spots(d, x)
    BY <2>3, <2>4 DEF Spots, Places
  <2> QED
    BY <2>1, <2>3, <2>4, <2>5 DEF T, Spare
<1> DEFINE g == [c \in S |-> f[c]]
<1>11. g \in [S -> T]
  BY <1>10
<1>12. PICK a, b \in S : a # b /\ g[a] = g[b]
  <2> HIDE DEF g
  <2> QED
    BY <1>1, <1>2, <1>11, FS_PigeonHole
<1>13. f[a] = f[b]
  BY <1>12
<1> QED
  BY <1>9, <1>10, <1>12, <1>13 DEF IsInjective

\* Failures of the checks that come first are of no payload.
LEMMA LostEarly ==
  ASSUME \/ stage' \notin {"entries", "decided"}
         \/ stage' = "decided" /\ \E f \in failures' : f.kind \notin PayloadKinds
  PROVE  LostInv'
BY DEF LostInv, FailedMeansLost, PayloadKinds

LEMMA LostChecks ==
  ASSUME CheckSourceHash \/ CheckLedgerStructure \/ CheckUnitAccounting
  PROVE  LostInv'
<1>1. \/ stage' \in {"structure", "accounting", "verbatim"}
      \/ /\ stage' = "decided"
         /\ \E k \in {"source_hash", "ledger_structure", "unit_accounting"} :
               failures' = {[kind |-> k, entry |-> 0]}
  BY DEF CheckSourceHash, CheckLedgerStructure, CheckUnitAccounting, Pass, Abort
<1>2. CASE stage' \in {"structure", "accounting", "verbatim"}
  BY <1>2, LostEarly
<1>3. CASE stage' = "decided" /\ \E k \in {"source_hash", "ledger_structure", "unit_accounting"} :
               failures' = {[kind |-> k, entry |-> 0]}
  <2>1. \E f \in failures' : f.kind \notin PayloadKinds
    BY <1>3 DEF PayloadKinds
  <2> QED
    BY <1>3, <2>1, LostEarly
<1> QED
  BY <1>1, <1>2, <1>3

LEMMA LostSpendVerbatim ==
  ASSUME VoiceInv, SpendVerbatim
  PROVE  LostInv'
<1>1. stage = "verbatim" /\ stage' = "entries" /\ at' = 1 /\ Unmoved
      /\ supply' = SpendCopies(Supplies, Coverage) /\ failures' = failures
  BY DEF SpendVerbatim, Unmoved, SpendCopies
<1>2. FilesOK /\ edition # None /\ edition.head # None /\ failures = {}
  BY <1>1 DEF VoiceInv, FilesOK, ReportOK, Checked
<1>3. Balanced(supply', {}, Coverage, Unspent)
  BY <1>1, <1>2, StartBalanced
<1>4. \A i \in DOMAIN Coverage : ~(i < 1)
  BY <1>2, CoverageIn
<1>5. Claims(Past)' = {}
  <2>1. Past' = {}
    BY <1>1, <1>4, UnmovedSame DEF Past, Rewritten
  <2> QED
    BY <1>1, <2>1, UnmovedSame DEF Claims
<1> QED
  BY <1>1, <1>2, <1>3, <1>5, UnmovedSame DEF LostInv, FailedMeansLost

LEMMA UnmovedLost ==
  ASSUME Unmoved
  PROVE  /\ Single' <=> Single
         /\ Met(Claims(Rewritten), Slots(Unspent))' <=> Met(Claims(Rewritten), Slots(Unspent))
<1>1. \A c : Claimed(c)' = Claimed(c)
  BY UnmovedSame DEF Claimed
<1>2. Claims(Rewritten)' = Claims(Rewritten)
  BY UnmovedSame DEF Claims
<1>3. Single' <=> Single
  BY UnmovedSame DEF Single
<1>4. \A C, S : Met(C, S)' <=> Met(C, S)
  BY <1>1, UnmovedSame DEF Met
<1> QED
  BY <1>2, <1>3, <1>4, UnmovedSame

LEMMA LostConclude ==
  ASSUME VoiceInv, LostInv, Conclude
  PROVE  LostInv'
<1>1. stage = "entries" /\ stage' = "decided" /\ at > Len(Coverage) /\ Unmoved
      /\ failures' = failures \cup
            (IF ForgesNothing THEN {} ELSE {[kind |-> "forged", entry |-> 0]})
  BY DEF Conclude, Unmoved
<1>2. CASE ~ForgesNothing
  <2>1. [kind |-> "forged", entry |-> 0] \in failures'
    BY <1>1, <1>2
  <2>2. \E f \in failures' : f.kind \notin PayloadKinds
    BY <2>1 DEF PayloadKinds
  <2> QED
    BY <1>1, <2>2, LostEarly
<1>3. CASE ForgesNothing
  <2>1. failures' = failures
    BY <1>1, <1>3
  <2>2. SUFFICES ASSUME OfPayload, failures # {}, Single
                 PROVE  ~Met(Claims(Rewritten), Slots(Unspent))
    BY <1>1, <2>1, UnmovedLost, UnmovedSame
       DEF LostInv, FailedMeansLost, OfPayload, PayloadKinds, Single
  <2>3. FilesOK /\ edition # None /\ edition.head # None /\ at \in Nat
    BY <1>1 DEF VoiceInv, FilesOK, Checked
  <2>4. Coverage \in Seq(Entry) /\ \A u \in Unspent : u.hash \in Seq(TextLine)
    BY <2>3, CoverageIn, UnitsIn DEF Unspent
  <2>5. Past = Rewritten
    <3>1. \A i \in DOMAIN Coverage : i < at
      BY <1>1, <2>3, <2>4
    <3> QED
      BY <3>1 DEF Past, Rewritten
  <2>6. PICK d, x : Overdrawn(Claims(Rewritten), Coverage, d, x, Unspent)
    BY <1>1, <2>2, <2>5 DEF LostInv, Lost
  <2> QED
    BY <2>2, <2>4, <2>6, OverdrawnFails
<1> QED
  BY <1>2, <1>3

LEMMA LostCheckEntry ==
  ASSUME VoiceInv, KeptInv, LostInv, CheckEntry
  PROVE  LostInv'
<1> DEFINE e == Coverage[at]
           D == DOMAIN supply
           B == Claims(Past)'
           dests == NormalDests(e)
<1>1. stage = "entries" /\ stage' = "entries" /\ Unmoved
  BY DEF CheckEntry, Unmoved
<1>2. CASE ~OfPayload'
  BY <1>1, <1>2 DEF LostInv, FailedMeansLost
<1>3. CASE OfPayload'
  <2>1. OfPayload /\ failures \subseteq failures'
    BY <1>3, EntryFailures DEF OfPayload
  <2>2. Balanced(supply, Claims(Past), Coverage, Unspent)
        /\ (Single /\ failures # {} => Lost)
    BY <1>1, <2>1 DEF LostInv
  <2>3. Reworded(e) => Missing(e) = {}
    <3>1. ~\E f \in failures' : f.kind = "destination"
      BY <1>3 DEF OfPayload, PayloadKinds
    <3> QED
      BY <3>1, EntryFailures DEF Reworded
  <2>4. \A u \in Unspent : u.hash \in Seq(TextLine)
    BY EntryClaims
  <2>5. /\ Balanced(supply', B, Coverage, Unspent) /\ Claims(Past) \subseteq B
        /\ Reworded(e) => Explained(Spent.missing, dests, B, Coverage, Unspent)
    <3>1. CASE Reworded(e)
      <4> DEFINE C == Claims(Past)
      <4>1. /\ supply \in [D -> Stock] /\ Payload(e.unit.hash) \in Seq(Item)
            /\ NormalDests(e) \in Seq(D) /\ \A c \in C : c[1] # at
        BY <2>3, <3>1, EntryClaims
      <4>2. B = C \cup ClaimsOf(Coverage, at) /\ supply' = Spent.left
        BY <2>3, <3>1, EntryClaims, EntryFailures
      <4>3. Spent = SpendAcross(supply, NormalDests(e), Payload(e.unit.hash))
        BY DEF Spent
      <4>4. Balanced(supply, C, Coverage, Unspent)
        BY <2>2
      <4> HIDE DEF B, C, D
      <4>5. /\ Balanced(Spent.left, C \cup ClaimsOf(Coverage, at), Coverage, Unspent)
            /\ Explained(Spent.missing, NormalDests(e), C \cup ClaimsOf(Coverage, at),
                         Coverage, Unspent)
        BY ONLY <2>4, <4>1, <4>3, <4>4, EntryBalances
      <4> QED
        BY <4>2, <4>5 DEF C
    <3>2. CASE ~Reworded(e)
      <4>1. B = Claims(Past) /\ supply' = supply
        BY <3>2, EntryClaims, EntryFailures
      <4> QED
        BY <2>2, <3>2, <4>1
    <3> QED
      BY <3>1, <3>2
  <2>6. IsFiniteSet(B)
    BY <2>5 DEF Balanced
  <2> HIDE DEF B
  <2>7. ASSUME Single, failures' # {}
        PROVE  \E d, x : Overdrawn(B, Coverage, d, x, Unspent)
    <3>1. CASE failures # {}
      <4>1. PICK d, x : Overdrawn(Claims(Past), Coverage, d, x, Unspent)
        BY <2>2, <2>7, <3>1 DEF Lost
      <4>2. Overdrawn(B, Coverage, d, x, Unspent)
        BY <2>4, <2>5, <2>6, <4>1, StaysOverdrawn
      <4> QED
        BY <4>2
    <3>2. CASE failures = {}
      <4>1. PICK f \in failures' : f \notin failures
        BY <2>7, <3>2
      <4>2. f.kind \notin {"destination", "verbatim", "structural"}
        BY <1>3 DEF OfPayload, PayloadKinds
      <4>3. Reworded(e) /\ Spent.missing # {}
        BY <4>1, <4>2, EntryFailures
      <4>4. PICK x \in Spent.missing : TRUE
        BY <4>3
      <4>5. PICK d \in Range(dests) : TRUE
        <5>1. at \in Rewritten
          BY <4>3, EntryClaims DEF Rewritten, Reworded
        <5>2. Cardinality(Range(dests)) = 1
          BY <2>7, <5>1 DEF Single
        <5>3. Range(dests) # {}
          BY <5>2, FS_EmptySet
        <5> QED
          BY <5>3
      <4>6. Overdrawn(B, Coverage, d, x, Unspent)
        BY <2>5, <4>3, <4>4, <4>5 DEF Explained
      <4> QED
        BY <4>6
    <3> QED
      BY <3>1, <3>2
  <2>8. Single' /\ failures' # {} => Lost'
    BY <1>1, <2>7, UnmovedLost, UnmovedSame DEF Lost, B
  <2>9. Balanced(supply', B, Coverage', Unspent')
    BY <1>1, <2>5, UnmovedSame
  <2> QED
    BY <1>1, <2>8, <2>9 DEF LostInv, FailedMeansLost, B
<1> QED
  BY <1>2, <1>3

LEMMA LostStep == VoiceInv /\ KeptInv /\ LostInv /\ [VoiceNext]_vars => LostInv'
<1> SUFFICES ASSUME VoiceInv, KeptInv, LostInv, [VoiceNext]_vars  PROVE LostInv'
  OBVIOUS
<1>1. CASE ReadRequest \/ ModelFails \/ Revise \/ ReadLedger
  <2>1. stage' \in {"asked", "refused", "emitted", "hash", "undecided"}
    BY <1>1 DEF ReadRequest, ModelFails, Revise, ReadLedger
  <2> QED
    BY <2>1, LostEarly
<1>2. CASE EditSource \/ EditBody \/ DropHead \/ EditLedger
  <2>1. stage' \in {"requested", "asked", "emitted"}
    BY <1>2 DEF EditSource, EditBody, DropHead, EditLedger, ByHand
  <2> QED
    BY <2>1, LostEarly
<1>3. CASE UNCHANGED vars
  <2>1. Unmoved /\ UNCHANGED <<stage, checks, failures, supply, at>>
    BY <1>3 DEF vars, Unmoved
  <2>2. Past' = Past
    BY <2>1, UnmovedSame DEF Past
  <2>3. Claims(Past)' = Claims(Past) /\ (OfPayload' <=> OfPayload)
    BY <2>1, <2>2, UnmovedSame DEF Claims, OfPayload
  <2>4. Lost' <=> Lost
    BY <2>1, <2>3, UnmovedSame DEF Lost
  <2>5. FailedMeansLost => FailedMeansLost'
    BY <2>1, UnmovedLost, UnmovedSame DEF FailedMeansLost, Single
  <2> QED
    BY <2>1, <2>3, <2>4, <2>5, UnmovedLost, UnmovedSame DEF LostInv
<1> QED
  BY <1>1, <1>2, <1>3, LostChecks, LostSpendVerbatim, LostCheckEntry, LostConclude
     DEF VoiceNext

\* A rewritten entry with one destination is refused for a lost item only when
\* no assignment of occurrences to claims would have met it: the order in which
\* supplies are spent costs nothing (SpendVerbatim, then CheckEntry).
THEOREM FailedMeans == VoiceSpec => []FailedMeansLost
<1>1. VoiceInit => KeptInv /\ LostInv
  BY DEF VoiceInit, KeptInv, PassedMeansKept, Passed, LostInv, FailedMeansLost
<1>2. LostInv => FailedMeansLost
  BY DEF LostInv
<1> QED
  BY <1>1, <1>2, KeptStep, LostStep, VoiceInvariant, PTL DEF VoiceSpec
=============================================================================
