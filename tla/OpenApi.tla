---------------------------------- MODULE OpenApi ----------------------------------
(***************************************************************************)
(* What an OpenAPI document says of the security of a request              *)
(* (core/openapi.py, and _openapi_methods of agent/protected_resource.py). *)
(* A path is a sequence of segments.  In a template, a literal segment is  *)
(* a value, and a segment with expressions is the set of values that its   *)
(* pattern matches; of a pattern with stray braces, that set is empty.     *)
(***************************************************************************)
EXTENDS Naturals, FiniteSets, Sequences, SequencesExt, NoValue

CONSTANTS
  Values,  \* the segments of paths
  Empty,   \* the segment after a trailing slash
  Schemes

ASSUME OpenApiAssumption == Empty \in Values /\ None \notin Values /\ None \notin Seq(SUBSET Schemes)

Templates == Seq(Values \cup SUBSET Values)

\* The path of a document's template, or of a request, in segments.
Segments(path, slash) ==
  IF slash = "equivalent" /\ Len(path) > 1 /\ Last(path) = Empty THEN Front(path) ELSE path

Literal(segment) == segment \in Values
MatchSegment(segment, value) ==
  IF Literal(segment) THEN segment = value ELSE value # Empty /\ value \in segment

Matches(template, path, slash) ==
  LET expected == Segments(template, slash)  actual == Segments(path, slash) IN
  /\ Len(expected) = Len(actual)
  /\ \A n \in 1..Len(actual) : MatchSegment(expected[n], actual[n])

\* The score of a template compares segment by segment: a literal beats an expression.
Score(template, slash) ==
  LET expected == Segments(template, slash)
  IN [n \in 1..Len(expected) |-> IF Literal(expected[n]) THEN 1 ELSE 0]
Higher(s, r) == \E n \in DOMAIN s : s[n] > r[n] /\ \A m \in 1..(n - 1) : s[m] = r[m]

\* The template with the highest score; none when nothing matches, or two score the same.
MatchPath(templates, path, slash) ==
  LET matches == {t \in templates : Matches(t, path, slash)}
      best == {t \in matches :
                 \A u \in matches : ~Higher(Score(u, slash), Score(t, slash))}
  IN IF \E t \in best : best = {t} THEN CHOOSE t \in best : TRUE ELSE None
-----------------------------------------------------------------------------
\* A security value is a sequence of requirements, and a requirement a set of schemes.
Effective(root, operation) ==
  IF operation # None THEN operation ELSE IF root # None THEN root ELSE <<>>

\* The positions of the requirements that the supported schemes satisfy.
Satisfiable(requirements, supported) ==
  {n \in 1..Len(requirements) : requirements[n] \subseteq supported}

Disposition(requirements, supported) ==
  IF requirements = <<>> THEN "public"
  ELSE IF {} \in ToSet(requirements) THEN "optional-anonymous"
  ELSE IF Satisfiable(requirements, supported) = {} THEN "fallback-live-challenge"
  ELSE IF Len(requirements) > 1 THEN "alternatives"
  ELSE IF Cardinality(requirements[1]) > 1 THEN "all-required"
  ELSE "required"

\* Mutant: a compound requirement is taken for its members.
ReducedAlternatives(requirements, supported) ==
  FlattenSeq([n \in 1..Len(requirements) |->
                SetToSeq(requirements[n] \cap supported)])

\* The k-th smallest number of a set.
Nth(numbers, k) ==
  CHOOSE n \in numbers : Cardinality({m \in numbers : m < n}) = k - 1

\* The schemes that satisfy the operation each on its own, in the document's order.
Alternatives(requirements, supported) ==
  LET single == {n \in Satisfiable(requirements, supported) :
                   \E scheme \in Schemes : requirements[n] = {scheme}}
  IN [k \in 1..Cardinality(single) |->
        CHOOSE scheme \in Schemes : requirements[Nth(single, k)] = {scheme}]

\* The methods a document allows a request: <<>> when it needs none, and None when the
\* document does not tell.  document.method says which method a scheme stands for.
PolicyMethods(document, path, slash, advertised) ==
  LET template == MatchPath(DOMAIN document.security, path, slash)
      requirements == Effective(document.root, document.security[template])
      supported == {s \in Schemes : document.method[s] \in advertised}
      disposition == Disposition(requirements, supported)
      alternatives == Alternatives(requirements, supported)
  IN IF template = None THEN None
     ELSE IF disposition \in {"public", "optional-anonymous"} THEN <<>>
     ELSE IF disposition \in {"all-required", "fallback-live-challenge"} THEN None
     ELSE IF alternatives = <<>> THEN None
     ELSE [n \in 1..Len(alternatives) |-> document.method[alternatives[n]]]
=============================================================================
