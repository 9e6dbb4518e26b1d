------------------------------- MODULE MCBank -------------------------------
(* Instance of the bank for TLC: two learners, three categories, two fixtures *)
(* and two problems of a contest as inputs, one in all three forms, which      *)
(* ProblemInput reads.                                                        *)
EXTENDS Bank, ProblemInput, TLC

CONSTANTS u1, u2, r1, r2, d1, d2, d3, n1, n2, p, q, a, b, contest, tab,
          link, slug, text, other, t1, t2, page, mine, V1, V2, V3

\* Two names with one slug, which is also that of a category.
MCDeckSlugOf == (n1 :> d1 @@ n2 :> d1)
MCFirstDecks == {[owner |-> u, slug |-> d2] : u \in {u1, u2}}

\* Three ways to say problem a of a contest: a view of its page, its slug, and
\* a text that starts with its name; and the page of problem b.
Given == {link, slug, text, other}
PathTo(index) == <<[words |-> <<contest>>, noise |-> FALSE, short |-> FALSE],
                   [words |-> <<index>>, noise |-> FALSE, short |-> TRUE],
                   [words |-> <<tab>>, noise |-> TRUE, short |-> FALSE]>>
Url(path) == [form |-> "url", forced |-> "auto", host |-> "public", words |-> <<>>, path |-> path]
Words(form) == [form |-> form, forced |-> "auto", host |-> "public", words |-> <<contest, a>>,
                path |-> <<>>]
Typed == (link :> Url(PathTo(a)) @@ other :> Url(PathTo(b))
             @@ slug :> Words("token") @@ text :> Words("prose"))

MCFetchable == {i \in Given : FetchableUrl(Typed[i])}
MCSourceOf == [i \in Given |-> SourceOfInput(Typed[i])]
MCSlugOf == [i \in Given |-> SlugOfInput(Typed[i])]
MCAbout == [i \in Given |-> IF i = other THEN b ELSE a]
MCTextOf == (link :> page @@ other :> page @@ slug :> mine @@ text :> mine)

x == <<contest, a>>
y == <<contest, b>>
MCSlugs == {x, y} \cup {MCSlugOf[i] : i \in Given}

\* V2 moves x to another category and V3 drops it; the pattern p changes
\* category with each.  The category of d3 is in every release and without
\* fixtures.
MCDecksOf == (V1 :> {d1, d2, d3} @@ V2 :> {d2, d3} @@ V3 :> {d1, d3})
MCFixturesOf == (V1 :> {x} @@ V2 :> {x, y} @@ V3 :> {y})
Of(atX, atY) == [s \in MCSlugs |-> IF s = x THEN atX ELSE atY]
MCPatternOf == (V1 :> Of(p, q) @@ V2 :> Of(q, q) @@ V3 :> Of(p, q))
MCAlsoAccepted == (V1 :> Of({q}, {}) @@ V2 :> Of({}, {p}) @@ V3 :> Of({}, {}))
MCHomeOf == (V1 :> (p :> d1 @@ q :> d2) @@ V2 :> (p :> d2 @@ q :> d2) @@ V3 :> (p :> d1 @@ q :> d1))
MCStatementOf == (V1 :> Of(t1, t1) @@ V2 :> Of(t2, t1) @@ V3 :> Of(t2, t1))

\* Adds and attempts next to releases; the tell script next to attempts and
\* releases; decks created and opened next to releases.
MCMixes == {{"add", "again"}, {"tells", "again"}, {"create", "open"}}

MCSymmetry == Permutations({u1, u2}) \cup Permutations({r1, r2})

=============================================================================
