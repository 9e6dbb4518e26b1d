---------------------------- MODULE ProblemInput ----------------------------
(***************************************************************************)
(* What a learner types is a link, a slug or a text (problemInput.ts), and   *)
(* the slug it normalises to is the identity of the problem in its deck.     *)
(* A string is modelled by its words: what slugify joins with hyphens once   *)
(* it dropped everything else.                                              *)
(***************************************************************************)
EXTENDS Naturals, Sequences

CONSTANT MaxWords   \* the hundred characters a slug keeps, in words

ASSUME SlugsHaveRoom == MaxWords \in Nat \ {0}

\* An input: form is what it looks like ("url", "token", "prose"), forced the
\* source the client insists on or "auto".  words are those of a token or of the
\* first line of a text; a url has a host ("public", "internal", "private") and
\* a path instead, whose segments may be the name of a view (noise) and at most
\* two characters long (short).

\* A string none of whose characters survives still has a slug.
Slugify(words) ==
    IF words = <<>> THEN <<"problem">>
    ELSE SubSeq(words, 1, IF Len(words) < MaxWords THEN Len(words) ELSE MaxWords)

\* The words of the raw string: a url loses its separators and is one word.
RawWords(x) == IF x.form = "url" THEN <<[host |-> x.host, path |-> x.path]>> ELSE x.words

\* Mutant: the name of a view is taken for the problem's.
TellingAll(path) == DOMAIN path

\* Segments that name a view of a problem say nothing of which problem it is.
Telling(path) == {i \in DOMAIN path : ~path[i].noise}

LastOf(positions) == CHOOSE i \in positions : \A j \in positions : j <= i

\* The last telling segment; an index means nothing without its contest.
SlugFromUrl(path) ==
    LET last == LastOf(Telling(path))
        before == {i \in Telling(path) : i < last}
    IN  IF path[last].short /\ before # {}
        THEN Slugify(path[LastOf(before)].words \o path[last].words)
        ELSE Slugify(path[last].words)

DetectProblemSource(x) ==
    CASE x.form = "url"   -> "link"
      [] x.form = "token" -> "slug"
      [] x.form = "prose" -> "text"

SourceOfInput(x) == IF x.forced = "auto" THEN DetectProblemSource(x) ELSE x.forced

SlugOfInput(x) ==
    IF SourceOfInput(x) = "link" /\ x.form = "url" /\ Telling(x.path) # {}
    THEN SlugFromUrl(x.path)
    ELSE Slugify(RawWords(x))

\* assertFetchableUrl: what does not parse or is not reachable from outside is
\* refused before it is fetched.
FetchableUrl(x) == x.form = "url" /\ x.host = "public"

=============================================================================
