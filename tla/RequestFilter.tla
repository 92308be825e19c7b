--------------------------- MODULE RequestFilter ---------------------------
(***************************************************************************)
(* How a job request selects databases, schemas and tables: globs are      *)
(* checked and matched against database names by path.Match, but become    *)
(* regular expressions for schemas and tables.                             *)
(*                                                                         *)
(* A name is a sequence of characters, numbers in their order.  A glob is  *)
(* a sequence of tokens: a literal, an escaped character, a class such as  *)
(* [a-b], [!a-b] or [^a-b] (lo = 0 when nothing follows the mark), a       *)
(* bracket that is never closed, and the wildcards.                        *)
(***************************************************************************)
EXTENDS Integers, Sequences, FiniteSets

CONSTANTS Bang, Wide, Slash  \* the characters '!' and '/', and one beyond ASCII

Star == [t |-> "star"]
One == [t |-> "one"]
Lit(c) == [t |-> "lit", c |-> c]
Esc(c) == [t |-> "esc", c |-> c]
Class(mark, lo, hi) == [t |-> "class", mark |-> mark, lo |-> lo, hi |-> hi]
Unclosed == [t |-> "unclosed"]
Token == {Star, One, Unclosed} \cup [t : {"lit", "esc"}, c : Nat]
            \cup [t : {"class"}, mark : {"", "!", "^"}, lo : Nat, hi : Nat]
Glob == Seq(Token)

InRange(token, c) == token.lo <= c /\ c <= token.hi

\* What a token accepts.  For path.Match '!' is an ordinary member of a class;
\* regular expressions have neither escapes nor that mark.
Accepts(token, c) ==
    CASE token.t = "one" -> TRUE
      [] token.t \in {"lit", "esc"} -> c = token.c
      [] token.t = "class" /\ token.mark = "" -> InRange(token, c)
      [] token.t = "class" /\ token.mark = "!" -> c = Bang \/ InRange(token, c)
      [] token.t = "class" /\ token.mark = "^" -> ~InRange(token, c)

\* The first i tokens match the first cut[i] characters: a star takes any number
\* of them, every other token one that it accepts.  The wildcards, but not the
\* classes, stop at a separator.
Matched(pattern, name, separators) ==
    \E cut \in [0..Len(pattern) -> 0..Len(name)] :
        /\ cut[0] = 0 /\ cut[Len(pattern)] = Len(name)
        /\ \A i \in 1..Len(pattern) :
              LET taken == cut[i - 1] + 1 .. cut[i]
              IN  /\ cut[i - 1] <= cut[i]
                  /\ pattern[i].t # "star" => /\ cut[i] = cut[i - 1] + 1
                                              /\ Accepts(pattern[i], name[cut[i]])
                  /\ pattern[i].t \in {"star", "one"} =>
                        \A k \in taken : name[k] \notin separators

----------------------------------------------------------------------------
(* path.Match.                                                             *)

BadPattern(glob) ==
    \E i \in DOMAIN glob :
        \/ glob[i].t = "unclosed"
        \/ glob[i].t = "class" /\ glob[i].lo = 0 /\ glob[i].mark # "!"

PathMatch(glob, name) == Matched(glob, name, {Slash})

----------------------------------------------------------------------------
(* globToRegex.                                                            *)

\* A literal that no name contains: a quoted backslash, or the bytes of a
\* character beyond ASCII, each turned into a character of its own.
Nowhere == 0

GlobFails(glob) ==
    \E i \in DOMAIN glob :
        \/ glob[i].t = "unclosed"
        \/ glob[i].t = "class" /\ glob[i].lo = 0 /\ glob[i].mark # "^"

\* The token of the regular expression.
TokenToRegex(token) ==
    CASE token.t = "esc" \/ (token.t = "lit" /\ token.c = Wide) -> Lit(Nowhere)
      [] token.t = "class" /\ token.mark = "!" -> [token EXCEPT !.mark = "^"]
      [] OTHER -> token

GlobToRegex(glob) == [i \in DOMAIN glob |-> TokenToRegex(glob[i])]

\* regexp.CompilePOSIX: no empty class, no range that runs backwards.
RegexCompiles(regex) ==
    \A i \in DOMAIN regex : regex[i].t = "class" => regex[i].lo \in 1..regex[i].hi

\* filterConfigFromGlobs and the compilation in FilterResult: whether there is
\* a filter, and what one of its two alternations selects.
FilterOk(globs) ==
    \A g \in globs : ~GlobFails(g) /\ RegexCompiles(GlobToRegex(g))
Selects(globs, name) ==
    \E g \in globs : Matched(GlobToRegex(g), name, {})

----------------------------------------------------------------------------
(* The JSON of a request.                                                  *)

\* What stands in a request where globs, databases and the whole are expected.
Expression == [form : {"null", "strings", "other"}, globs : SUBSET Glob]
DatabaseEntry ==
    [form : {"string", "object", "other"}, match : Glob, schema : Expression, table : Expression]
DatabaseValue == [form : {"null", "list", "other"}, items : Seq(DatabaseEntry)]
JobRequest ==
    [body : {"json", "request_body_too_large", "unknown_field", "multiple_documents",
             "invalid_json"},
     schema : Expression, table : Expression, databases : DatabaseValue]

\* matchExpression.UnmarshalJSON: a string or an array of strings.
ExpressionFails(e) == e.form = "other"
Globs(e) == IF e.form = "null" THEN {} ELSE e.globs

\* databaseRequestValue.UnmarshalJSON: a string, an object or an array of both;
\* fields of an object that the service does not know are ignored.
DatabasesFail(v) ==
    \/ v.form = "other"
    \/ \E i \in DOMAIN v.items :
          \/ v.items[i].form = "other"
          \/ v.items[i].form = "object" /\ (\/ ExpressionFails(v.items[i].schema)
                                            \/ ExpressionFails(v.items[i].table))
DatabaseItem(item) ==
    [match  |-> item.match,
     schema |-> IF item.form = "string" THEN {} ELSE Globs(item.schema),
     table  |-> IF item.form = "string" THEN {} ELSE Globs(item.table)]
Databases(v) ==
    IF v.form = "null" THEN << >> ELSE [i \in DOMAIN v.items |-> DatabaseItem(v.items[i])]

\* defaultGlobs.
DefaultGlobs(globs) == IF globs = {} THEN {<<Star>>} ELSE globs

\* The schemas of one selection replace the defaults, its tables do not.
SelectionKeepingDefaults(item, schemas, tables) ==
    [match |-> item.match,
     schemas |-> IF item.schema = {} THEN schemas ELSE item.schema,
     tables |-> tables]

SelectionOf(item, schemas, tables) ==
    [match |-> item.match,
     schemas |-> IF item.schema = {} THEN schemas ELSE item.schema,
     tables |-> IF item.table = {} THEN tables ELSE item.table]

\* JobRequest.Compile: the code of the first error, or the selections.
Compile(r) ==
    LET schemas == DefaultGlobs(Globs(r.schema))
        tables == DefaultGlobs(Globs(r.table))
        items == IF Databases(r.databases) = << >>
                 THEN <<[match |-> <<Star>>, schema |-> {}, table |-> {}]>>
                 ELSE Databases(r.databases)
        selections == [i \in DOMAIN items |-> SelectionOf(items[i], schemas, tables)]
        bad(i) == \/ items[i].match = << >>
                  \/ \E g \in {items[i].match} \cup selections[i].schemas \cup selections[i].tables :
                        BadPattern(g)
        bads == {i \in DOMAIN items : bad(i)}
    IN  IF \E g \in schemas \cup tables : BadPattern(g)
        THEN [code |-> "invalid_glob", selections |-> << >>]
        ELSE IF bads = {} THEN [code |-> "ok", selections |-> selections]
        ELSE LET first == CHOOSE i \in bads : \A j \in bads : i <= j
             IN  [code |-> IF items[first].match = << >> THEN "invalid_database_selection"
                           ELSE "invalid_glob",
                  selections |-> << >>]

\* NormalizedJobRequest.Resolve for one database: the globs of all selections
\* that match its name, together.
MatchingSelections(selections, name) ==
    {selections[i] : i \in {i \in DOMAIN selections : PathMatch(selections[i].match, name)}}
DatabasePlan(selections, pair) ==
    LET mine == MatchingSelections(selections, pair.name)
        schemas == UNION {s.schemas : s \in mine}
        literal == \A g \in schemas : \A i \in DOMAIN g : g[i].t \in {"lit", "esc"}
    IN  [database |-> pair, schemas |-> schemas, tables |-> UNION {s.tables : s \in mine},
         initial |-> IF literal THEN schemas ELSE {}]
============================================================================
