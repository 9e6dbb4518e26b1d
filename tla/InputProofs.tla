----------------------------- MODULE InputProofs -----------------------------
(***************************************************************************)
(* The slugs of links, for paths of any length over any segments.           *)
(*                                                                          *)
(* slugFromUrl looks at the last two telling segments of a path.  That they *)
(* exist is the least-number principle (LastThere); the rest is what a step *)
(* of the path does to their positions.                                     *)
(***************************************************************************)
EXTENDS ProblemInput, WellFoundedInduction, SequenceTheorems, TLAPS

CONSTANT Words

\* A segment of a path: what slugify keeps of it, whether it is the name of a
\* view, and whether it is at most two characters long.
Segment == [words : Seq(Words), noise : BOOLEAN, short : BOOLEAN]

\* A link, and a slug or a text, as a learner types them.
Link(p) == [form |-> "url", forced |-> "auto", host |-> "public", words |-> <<>>, path |-> p]
Typed(form, words) ==
    [form |-> form, forced |-> "auto", host |-> "public", words |-> words, path |-> <<>>]

\* The path p with the segment s put in at k.
Inserted(p, k, s) ==
    [i \in 1 .. Len(p) + 1 |-> IF i < k THEN p[i] ELSE IF i = k THEN s ELSE p[i - 1]]

\* Sequences of words, with the one that stands for none.
Said == Seq(Words \cup {"problem"})

-----------------------------------------------------------------------------
(* Positions. *)

LEMMA NatsAreWellFounded == IsWellFoundedOn({ss \in Nat \X Nat : ss[1] < ss[2]}, Nat)
  BY NatLessThanWellFounded, Zenon DEF OpToRel

LEMMA LastThere ==
    ASSUME NEW n \in Nat, NEW S, S \subseteq 1 .. n, S # {}
    PROVE  \E i \in S : \A j \in S : j <= i
  <1> DEFINE R == {ss \in Nat \X Nat : ss[1] < ss[2]}
             T == {n - i : i \in S}
  <1>1. T \subseteq Nat /\ T # {}
    <2>1. \A i \in S : n - i \in Nat
      OBVIOUS
    <2> QED BY <2>1
  <1>2. PICK x \in T : \A y \in T : <<y, x>> \notin R
    BY <1>1, NatsAreWellFounded, WFMin
  <1>3. PICK i \in S : x = n - i
    OBVIOUS
  <1>4. ASSUME NEW j \in S PROVE j <= i
    <2>1. n - j \in T /\ n - j \in Nat /\ n - i \in Nat
      BY <1>1, <1>3
    <2>2. ~(n - j < n - i)
      BY <1>2, <1>3, <2>1
    <2> QED BY <2>1, <2>2
  <1> QED BY <1>4

\* The last of some positions, and how to know it.
LEMMA LastOfIs ==
    ASSUME NEW n \in Nat, NEW S, S \subseteq 1 .. n, NEW i \in S, \A j \in S : j <= i
    PROVE  LastOf(S) = i
  <1>1. LastOf(S) \in S /\ \A j \in S : j <= LastOf(S)
    BY DEF LastOf
  <1>2. LastOf(S) \in 1 .. n /\ i \in 1 .. n
    BY <1>1
  <1> QED BY <1>1, <1>2

LEMMA LastOfThere ==
    ASSUME NEW n \in Nat, NEW S, S \subseteq 1 .. n, S # {}
    PROVE  LastOf(S) \in S /\ \A j \in S : j <= LastOf(S)
  BY LastThere DEF LastOf

LEMMA TellingType ==
    ASSUME NEW p \in Seq(Segment)
    PROVE  Telling(p) \subseteq 1 .. Len(p)
  BY DEF Telling

-----------------------------------------------------------------------------
(* Slugs. *)

LEMMA SlugifyType ==
    ASSUME NEW W, "problem" \in W, NEW words \in Seq(W)
    PROVE  /\ Slugify(words) \in Seq(W)
           /\ Len(Slugify(words)) \in 1 .. MaxWords
           /\ Slugify(Slugify(words)) = Slugify(words)
           /\ words # <<>> /\ Len(words) <= MaxWords => Slugify(words) = words
  <1> DEFINE Kept(w) == IF Len(w) < MaxWords THEN Len(w) ELSE MaxWords
  <1>1. ASSUME NEW w \in Seq(W), w # <<>>, Len(w) <= MaxWords
        PROVE  Slugify(w) = w
    <2>1. Kept(w) = Len(w)
      BY <1>1, SlugsHaveRoom
    <2> QED BY <1>1, <2>1, SubSeqFull DEF Slugify
  <1>2. CASE words = <<>>
    <2>1. Slugify(words) = <<"problem">>
      BY <1>2 DEF Slugify
    <2>2. <<"problem">> \in Seq(W) /\ Len(<<"problem">>) = 1 /\ <<"problem">> # <<>>
      OBVIOUS
    <2>3. 1 <= MaxWords /\ 1 \in 1 .. MaxWords
      BY SlugsHaveRoom
    <2>4. Slugify(<<"problem">>) = <<"problem">>
      BY <1>1, <2>2, <2>3
    <2> QED BY <1>2, <2>1, <2>2, <2>3, <2>4
  <1>3. CASE words # <<>>
    <2> DEFINE n == Kept(words)
               cut == SubSeq(words, 1, n)
    <2>1. Len(words) \in Nat \ {0} /\ n \in 1 .. Len(words) /\ n \in 1 .. MaxWords
      BY <1>3, SlugsHaveRoom, EmptySeq
    <2>2. cut \in Seq(W) /\ Len(cut) = n
      BY <2>1, SubSeqProperties
    <2>3. Slugify(words) = cut
      BY <1>3 DEF Slugify
    <2> HIDE DEF cut, n
    <2>4. cut # <<>>
      BY <2>1, <2>2
    <2>5. Slugify(cut) = cut
      BY <1>1, <2>1, <2>2, <2>4
    <2> QED BY <1>1, <2>1, <2>2, <2>3, <2>5
  <1> QED BY <1>2, <1>3

\* The words a path names its problem by, before they are made a slug.
Before(p, last) == {i \in Telling(p) : i < last}

Names(p) ==
    LET last == LastOf(Telling(p))
    IN  IF p[last].short /\ Before(p, last) # {}
        THEN p[LastOf(Before(p, last))].words \o p[last].words
        ELSE p[last].words

LEMMA SlugIsOfNames ==
    ASSUME NEW p
    PROVE  SlugFromUrl(p) = Slugify(Names(p))
  BY DEF SlugFromUrl, Names, Before

LEMMA SegmentAt ==
    ASSUME NEW p \in Seq(Segment), NEW i \in Telling(p)
    PROVE  p[i] \in Segment /\ p[i].words \in Said
  <1>1. p[i] \in Segment
    BY TellingType, ElementOfSeq
  <1> QED BY <1>1, SeqMonotonic DEF Segment, Said

LEMMA NamesType ==
    ASSUME NEW p \in Seq(Segment), Telling(p) # {}
    PROVE  Names(p) \in Said
  <1> DEFINE last == LastOf(Telling(p))
             rest == Before(p, last)
  <1>1. Len(p) \in Nat /\ Telling(p) \subseteq 1 .. Len(p)
    BY TellingType, LenProperties
  <1>2. last \in Telling(p)
    BY <1>1, LastOfThere
  <1>3. rest \subseteq Telling(p)
    BY DEF Before
  <1>4. rest # {} => LastOf(rest) \in Telling(p)
    BY <1>1, <1>3, LastOfThere
  <1>5. p[last].words \in Said /\ (rest # {} => p[LastOf(rest)].words \in Said)
    BY <1>2, <1>4, SegmentAt
  <1> HIDE DEF last, rest
  <1>6. rest # {} => p[LastOf(rest)].words \o p[last].words \in Said
    BY <1>5, ConcatProperties DEF Said
  <1> QED BY <1>5, <1>6 DEF Names, last, rest

\* The slug of a link is that of what it names, or of the whole of it.
LEMMA SlugOfLink ==
    ASSUME NEW p
    PROVE  SlugOfInput(Link(p)) =
               IF Telling(p) # {} THEN Slugify(Names(p))
               ELSE Slugify(<<[host |-> "public", path |-> p]>>)
  BY SlugIsOfNames DEF SlugOfInput, SourceOfInput, DetectProblemSource, RawWords, Link

LEMMA SlugOfTyped ==
    ASSUME NEW form \in {"token", "prose"}, NEW words
    PROVE  SlugOfInput(Typed(form, words)) = Slugify(words)
  BY DEF SlugOfInput, SourceOfInput, DetectProblemSource, RawWords, Typed

-----------------------------------------------------------------------------
(* Paths. *)

LEMMA InsertedIs ==
    ASSUME NEW p \in Seq(Segment), NEW k \in 1 .. Len(p) + 1, NEW s \in Segment
    PROVE  LET q == Inserted(p, k, s)
           IN  q \in Seq(Segment) /\ Len(q) = Len(p) + 1 /\ DOMAIN q = 1 .. Len(p) + 1
  <1> DEFINE q == Inserted(p, k, s)
  <1>1. Len(p) \in Nat /\ Len(p) + 1 \in Nat
    BY LenProperties
  <1>2. \A i \in 1 .. Len(p) + 1 :
            q[i] = IF i < k THEN p[i] ELSE IF i = k THEN s ELSE p[i - 1]
    BY DEF Inserted
  <1>3. \A i \in 1 .. Len(p) : p[i] \in Segment
    BY ElementOfSeq
  <1>4. \A i \in 1 .. Len(p) + 1 : q[i] \in Segment
    BY <1>1, <1>2, <1>3
  <1>5. q \in [1 .. Len(p) + 1 -> Segment]
    BY <1>4 DEF Inserted
  <1>6. q \in Seq(Segment)
    BY <1>1, <1>5, SeqDef
  <1> QED BY <1>1, <1>2, <1>5, <1>6, LenProperties

\* Where a position is once a segment was put in at k.
Shift(k, i) == IF i < k THEN i ELSE i + 1
Shifted(k, S) == {Shift(k, i) : i \in S}

LEMMA LastShifts ==
    ASSUME NEW n \in Nat, NEW k \in Nat, NEW S, S \subseteq 1 .. n, S # {}
    PROVE  LastOf(Shifted(k, S)) = Shift(k, LastOf(S))
  <1> DEFINE m == LastOf(S)
  <1>1. m \in S /\ m \in 1 .. n /\ \A j \in S : j <= m
    BY LastOfThere
  <1> HIDE DEF m
  <1>2. Shifted(k, S) \subseteq 1 .. n + 1 /\ Shift(k, m) \in Shifted(k, S)
    BY <1>1 DEF Shifted, Shift
  <1>3. \A j \in Shifted(k, S) : j <= Shift(k, m)
    BY <1>1 DEF Shifted, Shift
  <1>4. n + 1 \in Nat
    OBVIOUS
  <1>5. LastOf(Shifted(k, S)) = Shift(k, m)
    BY <1>2, <1>3, <1>4, LastOfIs
  <1> QED BY <1>5 DEF m

\* The name of a view moves what a path tells, and adds nothing to it.
LEMMA ViewsTellNothing ==
    ASSUME NEW p \in Seq(Segment), Telling(p) # {}, NEW k \in 1 .. Len(p) + 1,
           NEW s \in Segment, s.noise, NEW q, q = Inserted(p, k, s)
    PROVE  Telling(q) # {} /\ Names(q) = Names(p)
  <1>1. /\ Len(p) \in Nat /\ DOMAIN p = 1 .. Len(p) /\ Telling(p) \subseteq 1 .. Len(p)
        /\ k \in Nat
    BY TellingType, LenProperties
  <1>2. /\ q \in Seq(Segment) /\ DOMAIN q = 1 .. Len(p) + 1
        /\ \A i \in 1 .. Len(p) + 1 :
              q[i] = IF i < k THEN p[i] ELSE IF i = k THEN s ELSE p[i - 1]
    <2>1. q \in Seq(Segment)
      BY InsertedIs
    <2>2. DOMAIN q = 1 .. Len(p) + 1
      BY InsertedIs
    <2>3. \A i \in 1 .. Len(p) + 1 :
              q[i] = IF i < k THEN p[i] ELSE IF i = k THEN s ELSE p[i - 1]
      BY DEF Inserted
    <2> QED BY <2>1, <2>2, <2>3
  <1>3. \A i \in 1 .. Len(p) : Shift(k, i) \in 1 .. Len(p) + 1 /\ q[Shift(k, i)] = p[i]
    BY <1>1, <1>2 DEF Shift
  <1>4. Telling(q) = Shifted(k, Telling(p))
    <2>1. ASSUME NEW i \in Telling(p) PROVE Shift(k, i) \in Telling(q)
      BY <1>1, <1>2, <1>3 DEF Telling
    <2>2. ASSUME NEW j \in Telling(q) PROVE \E i \in Telling(p) : j = Shift(k, i)
      <3>1. j \in 1 .. Len(p) + 1 /\ j # k /\ ~q[j].noise
        BY <1>1, <1>2 DEF Telling
      <3>2. CASE j < k
        <4>1. j \in 1 .. Len(p) /\ q[j] = p[j]
          BY <1>1, <1>2, <3>1, <3>2
        <4> QED BY <1>1, <3>1, <3>2, <4>1 DEF Telling, Shift
      <3>3. CASE j > k
        <4>1. j - 1 \in 1 .. Len(p) /\ q[j] = p[j - 1] /\ j = Shift(k, j - 1)
          BY <1>1, <1>2, <3>1, <3>3 DEF Shift
        <4> QED BY <1>1, <3>1, <4>1 DEF Telling
      <3> QED BY <1>1, <3>1, <3>2, <3>3
    <2> QED BY <2>1, <2>2 DEF Shifted
  <1> DEFINE l == LastOf(Telling(p))
             b == Before(p, l)
  <1>5. l \in Telling(p) /\ l \in 1 .. Len(p) /\ LastOf(Telling(q)) = Shift(k, l)
    BY <1>1, <1>4, LastOfThere, LastShifts
  <1> HIDE DEF l
  <1>6. Before(q, Shift(k, l)) = Shifted(k, b)
    <2>1. \A i \in Telling(p) : Shift(k, i) < Shift(k, l) <=> i < l
      BY <1>1, <1>5 DEF Shift
    <2> QED BY <1>4, <2>1 DEF Before, Shifted
  <1>7. b \subseteq 1 .. Len(p) /\ (Shifted(k, b) # {} <=> b # {})
    BY <1>1 DEF Before, Shifted
  <1>8. b # {} => /\ LastOf(Shifted(k, b)) = Shift(k, LastOf(b))
                  /\ LastOf(b) \in 1 .. Len(p)
    BY <1>1, <1>7, LastOfThere, LastShifts
  <1> HIDE DEF b
  <1>9. /\ q[Shift(k, l)] = p[l]
        /\ b # {} => q[LastOf(Shifted(k, b))] = p[LastOf(b)]
    BY <1>3, <1>5, <1>8
  <1>10. Names(q) = IF p[l].short /\ b # {} THEN p[LastOf(b)].words \o p[l].words ELSE p[l].words
    BY <1>5, <1>6, <1>7, <1>9 DEF Names
  <1>11. Names(q) = Names(p)
    BY <1>10 DEF Names, l, b
  <1>12. Telling(q) # {}
    BY <1>4 DEF Shifted
  <1> QED BY <1>11, <1>12

\* An index and the segment before it are what a path names.
LEMMA IndexedNames ==
    ASSUME NEW p \in Seq(Segment), NEW c \in Telling(p), NEW l \in Telling(p), c < l,
           p[l].short, \A i \in Telling(p) : i = l \/ i <= c
    PROVE  Names(p) = p[c].words \o p[l].words
  <1>1. Len(p) \in Nat /\ Telling(p) \subseteq 1 .. Len(p)
    BY TellingType, LenProperties
  <1>2. LastOf(Telling(p)) = l
    <2>1. \A i \in Telling(p) : i <= l
      BY <1>1
    <2> QED BY <1>1, <2>1, LastOfIs
  <1>3. Before(p, l) \subseteq 1 .. Len(p) /\ c \in Before(p, l) /\ \A i \in Before(p, l) : i <= c
    BY <1>1 DEF Before
  <1>4. LastOf(Before(p, l)) = c
    BY <1>1, <1>3, LastOfIs
  <1> QED BY <1>2, <1>3, <1>4 DEF Names

-----------------------------------------------------------------------------
(* What the slugs are worth. *)

\* Every link has a slug of at least one word, whatever survives of it, and none
\* outgrows the limit (slugify, problemInput.ts:30).
THEOREM SlugsFit ==
    ASSUME NEW path \in Seq(Segment)
    PROVE  Len(SlugOfInput(Link(path))) \in 1 .. MaxWords
  <1>1. CASE Telling(path) # {}
    <2>1. Names(path) \in Said
      BY <1>1, NamesType
    <2> QED BY <1>1, <2>1, SlugOfLink, SlugifyType DEF Said
  <1>2. CASE Telling(path) = {}
    <2> DEFINE raw == [host |-> "public", path |-> path]
    <2>1. <<raw>> \in Seq({raw, "problem"})
      OBVIOUS
    <2> HIDE DEF raw
    <2>2. Len(Slugify(<<raw>>)) \in 1 .. MaxWords
      BY <2>1, SlugifyType
    <2> QED BY <1>2, <2>2, SlugOfLink DEF raw
  <1> QED BY <1>1, <1>2

\* A learner who types what the slug of a link says, as a slug or as the first
\* line of a text, names the problem of the link: the hypothesis under which a
\* deck holds a problem once, in whatever form it was added
\* (deriveProblemIdentity, problemInput.ts:104).
THEOREM FormsAgree ==
    ASSUME NEW path \in Seq(Segment), Telling(path) # {}, NEW form \in {"token", "prose"}
    PROVE  SlugOfInput(Typed(form, SlugOfInput(Link(path)))) = SlugOfInput(Link(path))
  <1>1. Names(path) \in Said
    BY NamesType
  <1>2. Slugify(Slugify(Names(path))) = Slugify(Names(path))
    BY <1>1, SlugifyType DEF Said
  <1> QED BY <1>2, SlugOfLink, SlugOfTyped

\* Problem A of one contest is not problem A of another: whatever views are
\* named in between, changing the contest changes the slug, if it holds both
\* (slugFromUrl, problemInput.ts:59).
THEOREM ContestsAreKeptApart ==
    ASSUME NEW path \in Seq(Segment), NEW c \in Telling(path), NEW l \in Telling(path),
           NEW s \in Segment, c < l, path[l].short, path[l].words # <<>>,
           \A i \in Telling(path) : i = l \/ i <= c,
           ~s.noise, s.words # path[c].words,
           \A w \in {s.words, path[c].words} : Len(w) + Len(path[l].words) <= MaxWords
    PROVE  SlugOfInput(Link([path EXCEPT ![c] = s])) # SlugOfInput(Link(path))
  <1> DEFINE other == [path EXCEPT ![c] = s]
             index == path[l].words
  <1>1. /\ c \in 1 .. Len(path) /\ l \in 1 .. Len(path) /\ Len(path) \in Nat
    BY TellingType, LenProperties
  <1>2. /\ other \in Seq(Segment) /\ Len(other) = Len(path)
        /\ \A j \in 1 .. Len(path) : other[j] = IF j = c THEN s ELSE path[j]
    BY <1>1, ExceptSeq
  <1> HIDE DEF other
  <1>3. Telling(other) = Telling(path)
    <2>1. DOMAIN other = 1 .. Len(path) /\ DOMAIN path = 1 .. Len(path)
      BY <1>1, <1>2, LenProperties
    <2>2. ~path[c].noise
      BY DEF Telling
    <2> QED BY <1>2, <2>1, <2>2 DEF Telling
  <1>4. other[l] = path[l] /\ other[c] = s
    BY <1>1, <1>2
  <1>5. Names(path) = path[c].words \o index /\ Names(other) = s.words \o index
    <2>1. Names(path) = path[c].words \o index
      BY IndexedNames
    <2>2. /\ c \in Telling(other) /\ l \in Telling(other) /\ other[l].short
          /\ \A i \in Telling(other) : i = l \/ i <= c
      BY <1>3, <1>4
    <2>3. Names(other) = other[c].words \o other[l].words
      BY <1>2, <2>2, IndexedNames
    <2> QED BY <1>4, <2>1, <2>3
  <1>6. path[c].words \in Said /\ index \in Said /\ s.words \in Said
    BY SegmentAt, SeqMonotonic DEF Segment, Said
  <1>7. Names(path) # Names(other)
    BY <1>5, <1>6, ConcatSimplifications DEF Said
  <1>8. ASSUME NEW w \in {s.words, path[c].words} PROVE Slugify(w \o index) = w \o index
    <2>1. /\ w \o index \in Said /\ Len(w \o index) = Len(w) + Len(index)
          /\ w \o index # <<>>
      BY <1>6, ConcatProperties, ConcatEqualIffEmpty DEF Said
    <2>2. Len(w \o index) <= MaxWords
      BY <2>1
    <2> QED BY <2>1, <2>2, SlugifyType DEF Said
  <1>9. Slugify(Names(path)) = Names(path) /\ Slugify(Names(other)) = Names(other)
    BY <1>5, <1>8
  <1>10. Telling(path) # {} /\ Telling(other) # {}
    BY <1>3
  <1> QED BY <1>7, <1>9, <1>10, SlugOfLink DEF other

\* A view of a problem is that problem: the name of a view, put in anywhere,
\* leaves the slug of a link what it was (NOISE_SEGMENTS, problemInput.ts:11).
THEOREM ViewsLeaveTheSlug ==
    ASSUME NEW path \in Seq(Segment), Telling(path) # {}, NEW k \in 1 .. Len(path) + 1,
           NEW s \in Segment, s.noise
    PROVE  SlugOfInput(Link(Inserted(path, k, s))) = SlugOfInput(Link(path))
  <1> DEFINE view == Inserted(path, k, s)
  <1>1. Telling(view) # {} /\ Names(view) = Names(path)
    BY ViewsTellNothing
  <1> HIDE DEF view
  <1>2. SlugOfInput(Link(view)) = SlugOfInput(Link(path))
    BY <1>1, SlugOfLink
  <1> QED BY <1>2 DEF view

=============================================================================
