---------------------------- MODULE RoutePatterns ----------------------------
(***************************************************************************)
(* Database names and the patterns of routes: how proxy/router.go          *)
(* classifies and matches a pattern, how config/config.go looks for        *)
(* patterns that conflict, and what a pattern stands for.  A name is a     *)
(* sequence of words and underscores; "*" is the star of a pattern.        *)
(***************************************************************************)
EXTENDS Naturals, Sequences, FiniteSets

Star == "*"

Stars(p) == {i \in DOMAIN p : p[i] = Star}

\* Words in capitals and what they are in lower case
Capitals == [APP |-> "app", DB |-> "db"]

NormalizeDatabaseName(p) ==
  [i \in DOMAIN p |-> IF p[i] \in DOMAIN Capitals THEN Capitals[p[i]] ELSE p[i]]

\* What a pattern stands for: each star for any sequence, also an empty one.
\* end[s]: the part of the name that the star at s stands for ends there.
\* upto(i): how much of the name the first i elements of the pattern stand for.
Glob(p, n) ==
  \E end \in [Stars(p) -> 0 .. Len(n)] :
    LET upto(i) == LET stars == {s \in Stars(p) : s <= i}
                       last == CHOOSE s \in stars : \A k \in stars : k <= s
                   IN IF stars = {} THEN i ELSE end[last] + (i - last)
    IN /\ upto(Len(p)) = Len(n)
       /\ \A i \in DOMAIN p : IF p[i] = Star THEN upto(i - 1) <= upto(i)
                              ELSE upto(i) \in DOMAIN n /\ n[upto(i)] = p[i]

\* regexp.MatchString of a pattern whose stars became .*, between ^ and $
RegexpMatches(p, n) == Glob(p, n)

\* strings.Trim(p, "*")
TrimStars(p) ==
  LET kept == DOMAIN p \ Stars(p)
  IN IF kept = {} THEN <<>>
     ELSE SubSeq(p, CHOOSE i \in kept : \A k \in kept : i <= k,
                    CHOOSE i \in kept : \A k \in kept : k <= i)

\* The PatternRoute that AddRoute makes of a normalised pattern with a star
Classify(p) ==
  LET first == p[1] = Star
      last == p[Len(p)] = Star
  IN IF first /\ last THEN [type |-> "contains", pattern |-> TrimStars(p)]
     ELSE IF first THEN [type |-> "suffix", pattern |-> Tail(p)]
     ELSE IF last THEN [type |-> "prefix", pattern |-> SubSeq(p, 1, Len(p) - 1)]
     ELSE [type |-> "wildcard", pattern |-> p]

\* strings.HasPrefix, strings.HasSuffix
HasPrefix(n, p) == Len(p) <= Len(n) /\ SubSeq(n, 1, Len(p)) = p
HasSuffix(n, p) == Len(p) <= Len(n) /\ SubSeq(n, Len(n) - Len(p) + 1, Len(n)) = p

MutMatchesPattern(n, pr) ==
  CASE pr.type = "prefix" -> HasPrefix(n, pr.pattern)
    [] pr.type = "suffix" -> HasSuffix(n, pr.pattern)
    [] pr.type = "contains" -> HasPrefix(n, pr.pattern) \/ HasSuffix(n, pr.pattern)
    [] pr.type = "wildcard" -> RegexpMatches(pr.pattern, n)

matchesPattern(n, pr) ==
  CASE pr.type = "prefix" -> HasPrefix(n, pr.pattern)
    [] pr.type = "suffix" -> HasSuffix(n, pr.pattern)
    [] pr.type = "contains" ->
         \E i \in 0 .. Len(n) - Len(pr.pattern) :
           SubSeq(n, i + 1, i + Len(pr.pattern)) = pr.pattern
    [] pr.type = "wildcard" -> RegexpMatches(pr.pattern, n)

\* The names patternsConflict tries patterns on
TestNames ==
  UNION {{<<e>>, <<e, "_", "db">>, <<"app", "_", e>>, <<e, "_", "app">>,
          <<"my", "app", "_", e>>} : e \in {"test", "prod", "staging", "dev"}}

TestMatches(p) == Cardinality({n \in TestNames : RegexpMatches(p, n)})

patternsConflict(p, q) == TestMatches(p) > 0 /\ TestMatches(p) = TestMatches(q)

\* validateDatabaseNames: the configured names, in whatever order they come
Valid(names) ==
  /\ names # {}
  /\ \A p, q \in names :
       p # q =>
         LET a == NormalizeDatabaseName(p)
             b == NormalizeDatabaseName(q)
         IN /\ ~ (Stars(a) = {} /\ a = b)
            /\ ~ (/\ Stars(a) # {} /\ a # <<Star>> /\ Stars(b) # {} /\ b # <<Star>>
                  /\ patternsConflict(a, b))
=============================================================================
