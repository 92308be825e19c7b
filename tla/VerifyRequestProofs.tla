------------------------ MODULE VerifyRequestProofs ------------------------
(***************************************************************************)
(* Theorems about VerifyRequest, for every configuration, request,         *)
(* environment and set of secret files.                                    *)
(*                                                                         *)
(* The inductive invariant says of the call at hand which reads it rests   *)
(* on: each credential it has read is what its source held in a state of   *)
(* the files that the call lived through (ReadOk), and its answer was made *)
(* from nothing else (AnswerOk).  Of the process it says that it serves a  *)
(* configuration all of whose credentials were read successfully before    *)
(* (ProcessOk).  The properties follow from it state by state.             *)
(***************************************************************************)
EXTENDS VerifyRequest, TLAPS, FiniteSetTheorems

----------------------------------------------------------------------------
(* Credentials.                                                            *)

\* The value a credential stands for, 0 if it is not declared.
Meant(c, fs) ==
    CASE ~c.declared -> 0
      [] c.declared /\ c.sources = {"secret_file"} -> fs[c.ref].text
      [] c.declared /\ c.sources = {"env_ref"} -> Env[c.ref]
      [] OTHER -> c.ref

\* A set of sources with one member is one of the three.
LEMMA OneSource ==
    ASSUME NEW S \in SUBSET {"value", "env_ref", "secret_file"}, Cardinality(S) = 1
    PROVE  S \in {{"value"}, {"env_ref"}, {"secret_file"}}
<1>1. IsFiniteSet({"value", "env_ref", "secret_file"})
  <2>1. IsFiniteSet({"value"})
    BY FS_Singleton
  <2>2. IsFiniteSet({"value"} \cup {"env_ref"})
    BY <2>1, FS_AddElement
  <2>3. IsFiniteSet(({"value"} \cup {"env_ref"}) \cup {"secret_file"})
    BY <2>2, FS_AddElement
  <2>4. ({"value"} \cup {"env_ref"}) \cup {"secret_file"} = {"value", "env_ref", "secret_file"}
    OBVIOUS
  <2> QED
    BY <2>3, <2>4
<1>2. IsFiniteSet(S)
  BY <1>1, FS_Subset
<1>3. \E x : S = {x}
  BY <1>2, FS_Singleton
<1> QED
  BY <1>3

\* A credential that resolves is declared and resolves to what it stands for.
LEMMA ResolvedCredential ==
    ASSUME NEW c \in Credential, NEW fs, ResolveCredential(c, fs) # Unset
    PROVE  c.declared /\ ResolveCredential(c, fs) = Meant(c, fs)
<1>1. Cardinality(c.sources) = 1 /\ c.ref # 0
  BY DEF ResolveCredential
<1>2. c.sources \in {{"value"}, {"env_ref"}, {"secret_file"}}
  BY <1>1, OneSource DEF Credential
<1>3. c.declared
  BY <1>2 DEF Credential
<1>4. /\ {"value"} # {"env_ref"} /\ {"value"} # {"secret_file"} /\ {"env_ref"} # {"secret_file"}
  OBVIOUS
<1>5. CASE c.sources = {"value"}
  BY <1>1, <1>3, <1>4, <1>5 DEF ResolveCredential, Meant
<1>6. CASE c.sources = {"env_ref"}
  BY <1>1, <1>3, <1>4, <1>6 DEF ResolveCredential, Meant
<1>7. CASE c.sources = {"secret_file"}
  BY <1>1, <1>3, <1>4, <1>7 DEF ResolveCredential, Meant, Trimmed
<1> QED
  BY <1>2, <1>3, <1>5, <1>6, <1>7

\* A credential that was read has the value its connection is configured with.
LEMMA ReadValue ==
    ASSUME NEW c \in Config, NEW i \in DOMAIN c.databases, NEW side \in Sides,
           NEW field \in {"user", "pass"}, NEW fs,
           ResolveAt(c, <<i, side, field>>, fs) # Unset
    PROVE  ResolveAt(c, <<i, side, field>>, fs) = Expected(c, c.databases[i], side, field, fs)
<1> DEFINE own == c.databases[i][side][field]
           default == c[side][field]
           credential == IF own.declared THEN own ELSE default
           value == ResolveAt(c, <<i, side, field>>, fs)
<1>1. own \in Credential /\ default \in Credential
  <2>1. c.databases[i] \in DatabaseMapping
    BY DEF Config
  <2>2. c.databases[i][side] \in Connection /\ c[side] \in Connection
    BY <2>1 DEF Config, DatabaseMapping, Sides
  <2> QED
    BY <2>2 DEF Connection
<1>2. Expected(c, c.databases[i], side, field, fs) = Meant(credential, fs)
  BY DEF Expected, Meant
<1>3. /\ field = "user" => value = ResolveCredential(credential, fs)
      /\ field = "pass" => value = ResolveOptional(credential, fs)
  BY DEF ResolveAt, InForce, MergeCredential
<1>4. credential \in Credential
  BY <1>1
<1> HIDE DEF own, default, credential, value
<1>5. CASE field = "user"
  BY <1>2, <1>3, <1>4, <1>5, ResolvedCredential DEF value
<1>6. CASE field = "pass" /\ credential.declared
  BY <1>2, <1>3, <1>4, <1>6, ResolvedCredential DEF ResolveOptional, value
<1>7. CASE field = "pass" /\ ~credential.declared
  BY <1>2, <1>3, <1>7 DEF ResolveOptional, Meant, value
<1> QED
  BY <1>4, <1>5, <1>6, <1>7 DEF Credential

----------------------------------------------------------------------------
(* Globs.                                                                  *)

\* A star alone matches every name without a separator.
LEMMA StarMatches ==
    ASSUME NEW w \in Seq(Nat), NEW separators, \A k \in DOMAIN w : w[k] \notin separators
    PROVE  Matched(<<Star>>, w, separators)
<1> DEFINE p == <<Star>>
           cut == [i \in 0..1 |-> IF i = 0 THEN 0 ELSE Len(w)]
<1>1. Len(p) = 1 /\ p[1].t = "star"
  BY DEF Star
<1>2. Len(w) \in Nat /\ DOMAIN w = 1..Len(w)
  OBVIOUS
<1>3. cut \in [0..1 -> 0..Len(w)] /\ cut[0] = 0 /\ cut[1] = Len(w)
  BY <1>2
<1> HIDE DEF p, cut
<1>4. ASSUME NEW i \in 1..1
      PROVE  /\ cut[i - 1] <= cut[i] /\ p[i].t = "star"
             /\ \A k \in cut[i - 1] + 1 .. cut[i] : w[k] \notin separators
  <2>1. i = 1 /\ i - 1 = 0
    OBVIOUS
  <2>2. cut[i - 1] = 0 /\ cut[i] = Len(w) /\ p[i].t = "star"
    BY <1>1, <1>3, <2>1
  <2>3. 0 <= Len(w) /\ 0 + 1 .. Len(w) = DOMAIN w
    BY <1>2
  <2> QED
    BY <2>2, <2>3
<1> QED
  BY <1>1, <1>3, <1>4 DEF Matched, p

\* A separator only takes matches away, and only from names that contain it.
LEMMA SeparatorsMatter ==
    ASSUME NEW g \in Glob, NEW w \in Seq(Nat)
    PROVE  /\ PathMatch(g, w) => Matched(g, w, {})
           /\ SlashFree(w) => (Matched(g, w, {}) => PathMatch(g, w))
<1> DEFINE Takes(cut, i, separators) ==
              /\ cut[i - 1] <= cut[i]
              /\ g[i].t # "star" => cut[i] = cut[i - 1] + 1 /\ Accepts(g[i], w[cut[i]])
              /\ g[i].t \in {"star", "one"} =>
                    \A k \in cut[i - 1] + 1 .. cut[i] : w[k] \notin separators
           Cuts(cut) == cut[0] = 0 /\ cut[Len(g)] = Len(w)
           Cut == [0..Len(g) -> 0..Len(w)]
<1>1. \A separators : Matched(g, w, separators) <=>
        \E cut \in Cut : Cuts(cut) /\ \A i \in 1..Len(g) : Takes(cut, i, separators)
  BY DEF Matched
<1>2. ASSUME NEW cut \in Cut, NEW i \in 1..Len(g), Takes(cut, i, {Slash})
      PROVE  Takes(cut, i, {})
  BY <1>2
<1>3. ASSUME SlashFree(w), NEW cut \in Cut, NEW i \in 1..Len(g), Takes(cut, i, {})
      PROVE  Takes(cut, i, {Slash})
  <2>1. Len(g) \in Nat /\ Len(w) \in Nat /\ DOMAIN w = 1..Len(w)
    BY DEF Glob
  <2>2. i - 1 \in 0..Len(g) /\ i \in 0..Len(g)
    BY <2>1
  <2>3. cut[i - 1] \in 0..Len(w) /\ cut[i] \in 0..Len(w)
    BY <2>2
  <2>4. \A k \in cut[i - 1] + 1 .. cut[i] : w[k] \notin {Slash}
    <3> DEFINE lo == cut[i - 1]
               hi == cut[i]
               n == Len(w)
    <3>1. lo \in 0..n /\ hi \in 0..n /\ n \in Nat /\ DOMAIN w = 1..n
      BY <2>1, <2>3
    <3> HIDE DEF lo, hi, n
    <3>2. \A k \in lo + 1 .. hi : k \in DOMAIN w
      BY <3>1
    <3>3. \A k \in lo + 1 .. hi : w[k] \notin {Slash}
      BY <1>3, <3>2 DEF SlashFree
    <3> QED
      BY <3>3 DEF lo, hi
  <2> QED
    BY <1>3, <2>4
<1> HIDE DEF Takes, Cuts, Cut
<1> QED
  BY <1>1, <1>2, <1>3 DEF PathMatch

\* A plain glob is its own regular expression, and one that path.Match takes
\* compiles.
LEMMA PlainRegex ==
    ASSUME NEW g \in Glob, PlainGlob(g)
    PROVE  /\ GlobToRegex(g) = g
           /\ ~BadPattern(g) => ~GlobFails(g) /\ RegexCompiles(GlobToRegex(g))
<1>1. ASSUME NEW i \in DOMAIN g
      PROVE  TokenToRegex(g[i]) = g[i]
  BY DEF TokenToRegex, PlainGlob
<1>2. g = [i \in DOMAIN g |-> g[i]]
  BY DEF Glob
<1>3. GlobToRegex(g) = g
  BY <1>1, <1>2 DEF GlobToRegex
<1>4. ASSUME NEW i \in DOMAIN g, g[i].t = "class"
      PROVE  g[i].mark \in {"", "^"} /\ g[i].lo \in Nat /\ g[i].hi \in Nat /\ g[i].lo <= g[i].hi
  <2>1. g[i] \in Token
    BY DEF Glob
  <2>2. g[i] \in [t : {"class"}, mark : {"", "!", "^"}, lo : Nat, hi : Nat]
    <3> DEFINE x == g[i]
    <3>1. x \in Token /\ x.t = "class"
      BY <1>4, <2>1
    <3> HIDE DEF x
    <3>2. x # Star /\ x # One /\ x # Unclosed
      BY <3>1 DEF Star, One, Unclosed
    <3>3. x \notin [t : {"lit", "esc"}, c : Nat]
      BY <3>1
    <3>4. x \in [t : {"class"}, mark : {"", "!", "^"}, lo : Nat, hi : Nat]
      BY <3>1, <3>2, <3>3 DEF Token
    <3> QED
      BY <3>4 DEF x
  <2> QED
    BY <1>4, <2>2 DEF PlainGlob
<1>5. ASSUME ~BadPattern(g)
      PROVE  ~GlobFails(g) /\ RegexCompiles(g)
  <2>1. \A i \in DOMAIN g : g[i].t # "unclosed" /\ (g[i].t = "class" => g[i].lo # 0)
    BY <1>4, <1>5 DEF BadPattern
  <2>2. ASSUME NEW i \in DOMAIN g, g[i].t = "class"
        PROVE  g[i].lo \in 1..g[i].hi
    <3> DEFINE lo == g[i].lo
               hi == g[i].hi
    <3>1. lo \in Nat /\ hi \in Nat /\ lo <= hi /\ lo # 0
      BY <1>4, <2>1, <2>2
    <3> HIDE DEF lo, hi
    <3>2. lo \in 1..hi
      BY <3>1
    <3> QED
      BY <3>2 DEF lo, hi
  <2> QED
    BY <2>1, <2>2 DEF GlobFails, RegexCompiles
<1> QED
  BY <1>3, <1>5

\* What Compile leaves of the databases of a request.
LEMMA CompiledSelections ==
    ASSUME NEW r \in JobRequest, Compile(r).code = "ok"
    PROVE  LET sels == Compile(r).selections
               items == Requested(r)
           IN  /\ DOMAIN sels = DOMAIN items /\ IsFiniteSet(DOMAIN items)
               /\ \A i \in DOMAIN items :
                     /\ sels[i] = SelectionOf(items[i], DefaultGlobs(Globs(r.schema)),
                                              DefaultGlobs(Globs(r.table)))
                     /\ sels[i].match = items[i].match
                     /\ sels[i].schemas \subseteq Glob /\ sels[i].tables \subseteq Glob
                     /\ \A g \in sels[i].schemas \cup sels[i].tables : ~BadPattern(g)
<1> DEFINE items == Requested(r)
           schemas == DefaultGlobs(Globs(r.schema))
           tables == DefaultGlobs(Globs(r.table))
           selections == [i \in DOMAIN items |-> SelectionOf(items[i], schemas, tables)]
           bad(i) == \/ items[i].match = << >>
                     \/ \E g \in {items[i].match} \cup selections[i].schemas \cup selections[i].tables :
                           BadPattern(g)
           bads == {i \in DOMAIN items : bad(i)}
<1>1. items = IF Databases(r.databases) = << >>
              THEN <<[match |-> <<Star>>, schema |-> {}, table |-> {}]>>
              ELSE Databases(r.databases)
  BY DEF Requested
<1>2. bads = {} /\ Compile(r).selections = selections
  BY <1>1 DEF Compile
<1>3. <<Star>> \in Glob
  <2>1. Star \in Token
    BY DEF Token
  <2> QED
    BY <2>1 DEF Glob
<1>4. \A e \in Expression : Globs(e) \subseteq Glob
  BY DEF Expression, Globs
<1>5. schemas \subseteq Glob /\ tables \subseteq Glob
  BY <1>3, <1>4 DEF JobRequest, DefaultGlobs
<1>6. /\ DOMAIN items \in {1..Len(items)} /\ Len(items) \in Nat
      /\ \A i \in DOMAIN items : items[i].schema \subseteq Glob /\ items[i].table \subseteq Glob
  <2>1. CASE Databases(r.databases) = << >>
    <3> DEFINE only == [match |-> <<Star>>, schema |-> {}, table |-> {}]
    <3>1. items = <<only>>
      BY <1>1, <2>1
    <3>2. only.schema = {} /\ only.table = {}
      OBVIOUS
    <3> HIDE DEF only, items
    <3> QED
      BY <3>1, <3>2
  <2>2. CASE Databases(r.databases) # << >>
    <3> DEFINE v == r.databases.items
    <3>1. v \in Seq(DatabaseEntry)
      BY DEF JobRequest, DatabaseValue
    <3>2. items = [i \in DOMAIN v |-> DatabaseItem(v[i])]
      BY <1>1, <2>2 DEF Databases
    <3>3. ASSUME NEW i \in DOMAIN v
          PROVE  DatabaseItem(v[i]).schema \subseteq Glob /\ DatabaseItem(v[i]).table \subseteq Glob
      <4> DEFINE x == v[i]
      <4>1. x.schema \in Expression /\ x.table \in Expression
        <5> HIDE DEF v, items
        <5>1. x \in DatabaseEntry
          BY <3>1
        <5> QED
          BY <5>1 DEF DatabaseEntry
      <4> HIDE DEF x
      <4>2. Globs(x.schema) \subseteq Glob /\ Globs(x.table) \subseteq Glob
        BY <1>4, <4>1
      <4>3. DatabaseItem(x).schema \subseteq Glob /\ DatabaseItem(x).table \subseteq Glob
        BY <4>2 DEF DatabaseItem
      <4> QED
        BY <4>3 DEF x
    <3> HIDE DEF v, items
    <3>4. Len(v) \in Nat /\ DOMAIN v = 1..Len(v)
      BY <3>1
    <3>5. DOMAIN items = 1..Len(v) /\ Len(items) = Len(v)
      BY <3>2, <3>4
    <3> QED
      BY <3>2, <3>3, <3>4, <3>5
  <2> QED
    BY <2>1, <2>2
<1>7. IsFiniteSet(DOMAIN items)
  BY <1>6, FS_Interval
<1> HIDE DEF items, schemas, tables
<1>8. ASSUME NEW i \in DOMAIN items
      PROVE  /\ selections[i] = SelectionOf(items[i], schemas, tables)
             /\ selections[i].match = items[i].match
             /\ selections[i].schemas \subseteq Glob /\ selections[i].tables \subseteq Glob
             /\ \A g \in selections[i].schemas \cup selections[i].tables : ~BadPattern(g)
  <2>1. selections[i] = SelectionOf(items[i], schemas, tables)
    OBVIOUS
  <2>2. ~bad(i)
    BY <1>2
  <2>3. \A g \in selections[i].schemas \cup selections[i].tables : ~BadPattern(g)
    BY <2>2
  <2> QED
    BY <2>1, <2>3, <1>5, <1>6 DEF SelectionOf
<1> QED
  BY <1>2, <1>7, <1>8 DEF items, schemas, tables

\* The globs of a selection match what its item, or the defaults, match.
LEMMA SelectedGlobs ==
    ASSUME NEW own, NEW default, NEW w \in Seq(Nat),
           (IF own = {} THEN DefaultGlobs(default) ELSE own) \subseteq Glob
    PROVE  LET asked == IF own # {} THEN \E g \in own : PathMatch(g, w)
                        ELSE default = {} \/ \E g \in default : PathMatch(g, w)
               matched == \E g \in (IF own = {} THEN DefaultGlobs(default) ELSE own) :
                             Matched(g, w, {})
           IN  (asked => matched) /\ (SlashFree(w) => (matched => asked))
<1>1. CASE own # {}
  BY <1>1, SeparatorsMatter
<1>2. CASE own = {} /\ default # {}
  BY <1>2, SeparatorsMatter DEF DefaultGlobs
<1>3. CASE own = {} /\ default = {}
  <2>1. Matched(<<Star>>, w, {})
    BY StarMatches
  <2> QED
    BY <1>3, <2>1 DEF DefaultGlobs
<1> QED
  BY <1>1, <1>2, <1>3

\* The plan of a matched database follows the request, on all names there are.
LEMMA PlanFollows ==
    ASSUME NEW r \in JobRequest, Compile(r).code = "ok", NEW pair,
           MatchingSelections(Compile(r).selections, pair.name) # {}
    PROVE  Follows(DatabasePlan(Compile(r).selections, pair), r, Seq(Nat))
<1> DEFINE sels == Compile(r).selections
           items == Requested(r)
           name == pair.name
           hits == {k \in DOMAIN items : PathMatch(items[k].match, name)}
           p == DatabasePlan(sels, pair)
<1>1. /\ DOMAIN sels = DOMAIN items /\ IsFiniteSet(DOMAIN items)
      /\ \A i \in DOMAIN items :
            /\ sels[i] = SelectionOf(items[i], DefaultGlobs(Globs(r.schema)),
                                     DefaultGlobs(Globs(r.table)))
            /\ sels[i].match = items[i].match
            /\ sels[i].schemas \subseteq Glob /\ sels[i].tables \subseteq Glob
            /\ \A g \in sels[i].schemas \cup sels[i].tables : ~BadPattern(g)
  BY CompiledSelections
<1>2. p.database = pair
  BY DEF DatabasePlan
<1>3. MatchingSelections(sels, name) # {}
  OBVIOUS
<1>4. /\ p.schemas = UNION {x.schemas : x \in MatchingSelections(sels, name)}
      /\ p.tables = UNION {x.tables : x \in MatchingSelections(sels, name)}
  BY DEF DatabasePlan
<1> HIDE DEF sels, items, name, p
<1>5. \A x : x \in MatchingSelections(sels, name) <=> \E k \in hits : x = sels[k]
  BY <1>1 DEF MatchingSelections
<1>6. hits # {} /\ hits \subseteq DOMAIN items
  BY <1>3, <1>5
<1> HIDE DEF hits
<1>7. /\ \A g : g \in p.schemas <=> \E k \in hits : g \in sels[k].schemas
      /\ \A g : g \in p.tables <=> \E k \in hits : g \in sels[k].tables
  BY <1>4, <1>5
<1>8. ASSUME \A g \in p.schemas \cup p.tables : PlainGlob(g)
      PROVE  /\ FilterOk(p.schemas) /\ FilterOk(p.tables)
             /\ \A w : Selects(p.schemas, w) <=> \E k \in hits : \E g \in sels[k].schemas : Matched(g, w, {})
             /\ \A w : Selects(p.tables, w) <=> \E k \in hits : \E g \in sels[k].tables : Matched(g, w, {})
  <2>1. \A g \in p.schemas \cup p.tables : g \in Glob /\ ~BadPattern(g)
    BY <1>1, <1>6, <1>7
  <2>2. \A g \in p.schemas \cup p.tables :
          GlobToRegex(g) = g /\ ~GlobFails(g) /\ RegexCompiles(GlobToRegex(g))
    BY <1>8, <2>1, PlainRegex
  <2>3. FilterOk(p.schemas) /\ FilterOk(p.tables)
    BY <2>2 DEF FilterOk
  <2>4. \A w : /\ Selects(p.schemas, w) <=> \E g \in p.schemas : Matched(g, w, {})
               /\ Selects(p.tables, w) <=> \E g \in p.tables : Matched(g, w, {})
    BY <2>2 DEF Selects
  <2> QED
    BY <1>7, <2>3, <2>4
<1>9. ASSUME NEW s \in Seq(Nat), NEW t \in Seq(Nat), NEW k
      PROVE  LET selected == /\ k \in hits
                             /\ \E g \in sels[k].schemas : Matched(g, s, {})
                             /\ \E g \in sels[k].tables : Matched(g, t, {})
             IN  /\ k \in Asks(r, name, s, t) => selected
                 /\ (SlashFree(s) /\ SlashFree(t)) => (selected => k \in Asks(r, name, s, t))
  <2> DEFINE A(own, default, w) == IF own # {} THEN \E g \in own : PathMatch(g, w)
                                   ELSE default = {} \/ \E g \in default : PathMatch(g, w)
             S == \E g \in sels[k].schemas : Matched(g, s, {})
             T == \E g \in sels[k].tables : Matched(g, t, {})
  <2>1. k \in Asks(r, name, s, t) <=>
          /\ k \in DOMAIN items /\ PathMatch(items[k].match, name)
          /\ A(items[k].schema, Globs(r.schema), s) /\ A(items[k].table, Globs(r.table), t)
    BY DEF Asks, items
  <2>2. ASSUME k \in DOMAIN items
        PROVE  /\ sels[k].schemas = IF items[k].schema = {} THEN DefaultGlobs(Globs(r.schema))
                                    ELSE items[k].schema
               /\ sels[k].tables = IF items[k].table = {} THEN DefaultGlobs(Globs(r.table))
                                   ELSE items[k].table
               /\ sels[k].schemas \in SUBSET Glob /\ sels[k].tables \in SUBSET Glob
    BY <1>1, <2>2 DEF SelectionOf
  <2>3. ASSUME k \in DOMAIN items
        PROVE  /\ A(items[k].schema, Globs(r.schema), s) => S
               /\ SlashFree(s) => (S => A(items[k].schema, Globs(r.schema), s))
    <3> DEFINE own == items[k].schema
               default == Globs(r.schema)
               chosen == sels[k].schemas
    <3>1. chosen \in SUBSET Glob /\ chosen = IF own = {} THEN DefaultGlobs(default) ELSE own
      BY <2>2, <2>3
    <3> HIDE DEF own, default, chosen
    <3>2. /\ A(own, default, s) => \E g \in (IF own = {} THEN DefaultGlobs(default) ELSE own) :
                                        Matched(g, s, {})
          /\ SlashFree(s) => ((\E g \in (IF own = {} THEN DefaultGlobs(default) ELSE own) :
                                  Matched(g, s, {})) => A(own, default, s))
      BY <3>1, SelectedGlobs
    <3>3. /\ A(own, default, s) => \E g \in chosen : Matched(g, s, {})
          /\ SlashFree(s) => ((\E g \in chosen : Matched(g, s, {})) => A(own, default, s))
      BY <3>1, <3>2
    <3> QED
      BY <3>3 DEF own, default, chosen
  <2>4. ASSUME k \in DOMAIN items
        PROVE  /\ A(items[k].table, Globs(r.table), t) => T
               /\ SlashFree(t) => (T => A(items[k].table, Globs(r.table), t))
    <3> DEFINE own == items[k].table
               default == Globs(r.table)
               chosen == sels[k].tables
    <3>1. chosen \in SUBSET Glob /\ chosen = IF own = {} THEN DefaultGlobs(default) ELSE own
      BY <2>2, <2>4
    <3> HIDE DEF own, default, chosen
    <3>2. /\ A(own, default, t) => \E g \in (IF own = {} THEN DefaultGlobs(default) ELSE own) :
                                        Matched(g, t, {})
          /\ SlashFree(t) => ((\E g \in (IF own = {} THEN DefaultGlobs(default) ELSE own) :
                                  Matched(g, t, {})) => A(own, default, t))
      BY <3>1, SelectedGlobs
    <3>3. /\ A(own, default, t) => \E g \in chosen : Matched(g, t, {})
          /\ SlashFree(t) => ((\E g \in chosen : Matched(g, t, {})) => A(own, default, t))
      BY <3>1, <3>2
    <3> QED
      BY <3>3 DEF own, default, chosen
  <2> HIDE DEF A, S, T
  <2>5. /\ k \in Asks(r, name, s, t) => k \in hits /\ S /\ T
        /\ (SlashFree(s) /\ SlashFree(t)) => (k \in hits /\ S /\ T => k \in Asks(r, name, s, t))
    BY <1>6, <2>1, <2>3, <2>4 DEF hits
  <2> QED
    BY <2>5 DEF S, T
<1>10. ASSUME Cardinality(hits) = 1
       PROVE  \E k : hits = {k}
  <2>1. IsFiniteSet(hits)
    BY <1>1, <1>6, FS_Subset
  <2> QED
    BY <1>10, <2>1, FS_Singleton
<1>11. ASSUME NEW s \in Seq(Nat), NEW t \in Seq(Nat),
              \A g \in p.schemas \cup p.tables : PlainGlob(g)
       PROVE  LET chosen == Selects(p.schemas, s) /\ Selects(p.tables, t)
              IN  /\ Asks(r, name, s, t) # {} => chosen
                  /\ (Cardinality(hits) = 1 /\ SlashFree(s) /\ SlashFree(t)) =>
                        (chosen => Asks(r, name, s, t) # {})
  <2>1. /\ Selects(p.schemas, s) <=> \E k \in hits : \E g \in sels[k].schemas : Matched(g, s, {})
        /\ Selects(p.tables, t) <=> \E k \in hits : \E g \in sels[k].tables : Matched(g, t, {})
    BY <1>8, <1>11
  <2>2. ASSUME NEW k \in Asks(r, name, s, t)
        PROVE  Selects(p.schemas, s) /\ Selects(p.tables, t)
    BY <1>9, <2>1, <2>2
  <2>3. ASSUME Cardinality(hits) = 1, SlashFree(s), SlashFree(t),
               Selects(p.schemas, s), Selects(p.tables, t)
        PROVE  Asks(r, name, s, t) # {}
    <3>1. PICK k : hits = {k}
      BY <1>10, <2>3
    <3>2. k \in Asks(r, name, s, t)
      BY <1>9, <2>1, <2>3, <3>1
    <3> QED
      BY <3>2
  <2> QED
    BY <2>2, <2>3
<1>12. p.database.name = name
  BY <1>2 DEF name
<1>13. hits = {k \in DOMAIN Requested(r) : PathMatch(Requested(r)[k].match, p.database.name)}
  BY <1>12 DEF hits, items
<1>14. Follows(p, r, Seq(Nat))
  BY <1>6, <1>8, <1>11, <1>12, <1>13 DEF Follows
<1> QED
  BY <1>14 DEF p, sels

----------------------------------------------------------------------------
(* The inductive invariant.                                                *)

\* A call has the fields of Nothing.
IsCall(a) ==
    DOMAIN a = {"path", "status", "code", "request", "plan", "conn", "read", "seen"}

\* What a call has read, and that its sources held it while it was in flight.
ReadOk(c, a) ==
    /\ DOMAIN a.read \subseteq Slots(c, a)
    /\ \A s \in DOMAIN a.read : \E fs \in a.seen : a.read[s] = ResolveAt(c, s, fs)

\* A call that is not answered, an accepted job, a raw table that was read, and
\* anything that was refused.
Asked(c, a) ==
    /\ a.path = "jobs" => \E r \in JobRequests : a.request = <<r>> /\ Compile(r).code = "ok"
    /\ a.path = "raw" => \E r : a.request = <<r>> /\ RawFound(c, r)
Open(c, a) == a.status = 0 /\ a.code = "ok" /\ DOMAIN a.plan = {} /\ Asked(c, a)
Planned(c, a) ==
    /\ a.path = "jobs" /\ a.status = 202 /\ a.code = "ok" /\ Resolved(c, a)
    /\ Asked(c, a)
    /\ LET made == Plan(Compile(a.request[1]).selections, Pairs(c, a))
       IN  made.code = "ok" /\ a.plan = made.plan
RawAnswered(c, a) ==
    /\ a.path = "raw" /\ a.status = 200 /\ DOMAIN a.plan = {} /\ Resolved(c, a)
    /\ Asked(c, a) /\ a.conn = RawConn(c, a)
Refused(c, a) ==
    /\ a.status \in {1, 400, 403, 413, 500} /\ DOMAIN a.plan = {}
    /\ (a.path = "jobs" /\ a.code \in {"invalid_config", "plain"}) => Fails(c, a)
AnswerOk(c, a) == Open(c, a) \/ Planned(c, a) \/ RawAnswered(c, a) \/ Refused(c, a)

\* With these files every connection of the configuration resolves.
Holds(c, fs) ==
    \A s \in SlotsOf(DOMAIN c.databases) :
        /\ ResolveAt(c, s, fs) # Unset
        /\ s[3] = "pass" => Complete(FieldsOf(c, s[1], s[2]))

\* The process: what it is doing, and what it checked before it served.
ProcessOk(ph, c, a, st) ==
    /\ ph = "starting" => a.path = "startup" /\ a.status = 0
    /\ a.path \in {"jobs", "raw"} => ph = "serving"
    /\ ph # "down" => WellFormed(c)
    /\ ph = "serving" => \A fs : st = {fs} => Holds(c, fs)

Types ==
    /\ phase \in {"down", "starting", "serving"}
    /\ cfg \in Configs
    /\ files \in FileStates /\ started \subseteq FileStates
    /\ changes \in 0..MaxChanges

IInv ==
    /\ Types
    /\ IsCall(call) /\ call.seen \subseteq FileStates /\ (InFlight => files \in call.seen)
    /\ ReadOk(cfg, call) /\ AnswerOk(cfg, call)
    /\ ProcessOk(phase, cfg, call, started)

----------------------------------------------------------------------------
(* What the properties follow from.                                        *)

\* Each credential is what the configuration expects, for some state of the files
\* that the call saw.
Traced(c, a) ==
    \A i \in Todo(c, a) : \A side \in Sides : \A field \in {"user", "pass"} :
       \E fs \in a.seen :
          a.read[<<i, side, field>>] = Expected(c, c.databases[i], side, field, fs)

\* So it is once all of them were read.
LEMMA ResolvedReads ==
    ASSUME NEW c \in Config, NEW a, ReadOk(c, a), Resolved(c, a),
           Todo(c, a) \subseteq DOMAIN c.databases
    PROVE  Traced(c, a)
<1> SUFFICES ASSUME NEW i \in Todo(c, a), NEW side \in Sides, NEW field \in {"user", "pass"}
             PROVE  \E fs \in a.seen :
                 a.read[<<i, side, field>>] = Expected(c, c.databases[i], side, field, fs)
  BY DEF Traced
<1> DEFINE s == <<i, side, field>>
<1>1. s \in Slots(c, a) /\ s \in DOMAIN a.read
  BY DEF Slots, SlotsOf, Resolved
<1>2. a.read[s] # Unset
  BY <1>1 DEF Resolved, Fails, CredentialFails
<1>3. PICK fs \in a.seen : a.read[s] = ResolveAt(c, s, fs)
  BY <1>1 DEF ReadOk
<1>4. ResolveAt(c, s, fs) = Expected(c, c.databases[i], side, field, fs)
  BY <1>2, <1>3, ReadValue
<1> QED
  BY <1>3, <1>4

\* The plan of an accepted job, database by database.
LEMMA PlanFacts ==
    ASSUME NEW c, NEW a, Planned(c, a)
    PROVE  /\ DOMAIN a.plan # {} /\ DOMAIN a.plan \subseteq DOMAIN c.databases
           /\ \E r \in JobRequests :
                 /\ a.request = <<r>> /\ Compile(r).code = "ok"
                 /\ \A i \in DOMAIN a.plan :
                       /\ a.plan[i] = DatabasePlan(Compile(r).selections, Pairs(c, a)[i])
                       /\ a.plan[i].database = Pairs(c, a)[i]
                       /\ Pairs(c, a)[i].name = c.databases[i].name
                       /\ \A side \in Sides : \A field \in {"user", "pass"} :
                             Pairs(c, a)[i][side][field] = a.read[<<i, side, field>>]
                       /\ MatchingSelections(Compile(r).selections, c.databases[i].name) # {}
<1>1. PICK r \in JobRequests :
          /\ a.request = <<r>> /\ Compile(r).code = "ok"
          /\ Plan(Compile(r).selections, Pairs(c, a)).code = "ok"
          /\ a.plan = Plan(Compile(r).selections, Pairs(c, a)).plan
  <2>1. PICK r \in JobRequests : a.request = <<r>> /\ Compile(r).code = "ok"
    BY DEF Planned, Asked
  <2>2. a.request[1] = r
    BY <2>1
  <2> QED
    BY <2>1, <2>2 DEF Planned
<1> DEFINE pairs == Pairs(c, a)
           sels == Compile(r).selections
           matched == {i \in DOMAIN pairs : MatchingSelections(sels, pairs[i].name) # {}}
<1>2. Todo(c, a) = DOMAIN c.databases
  BY DEF Planned, Todo
<1>3. DOMAIN pairs = DOMAIN c.databases
  BY <1>2 DEF Pairs
<1>4. ASSUME NEW i \in DOMAIN pairs
      PROVE  /\ pairs[i].name = c.databases[i].name
             /\ \A side \in Sides : \A field \in {"user", "pass"} :
                   pairs[i][side][field] = a.read[<<i, side, field>>]
  <2>1. pairs[i] = [name |-> c.databases[i].name, source |-> ResolvedSide(c, a, i, "source"),
                    destination |-> ResolvedSide(c, a, i, "destination")]
    BY <1>2, <1>3, <1>4 DEF Pairs
  <2>2. /\ pairs[i].name = c.databases[i].name
        /\ pairs[i].source = ResolvedSide(c, a, i, "source")
        /\ pairs[i].destination = ResolvedSide(c, a, i, "destination")
    BY <2>1
  <2>3. \A side \in Sides : \A field \in {"user", "pass"} :
           ResolvedSide(c, a, i, side)[field] = a.read[<<i, side, field>>]
    BY DEF ResolvedSide
  <2> HIDE DEF pairs
  <2> QED
    BY <2>2, <2>3 DEF Sides
<1> HIDE DEF pairs, sels
<1>5. a.plan = [i \in matched |-> DatabasePlan(sels, pairs[i])] /\ matched # {}
  BY <1>1 DEF Plan, pairs, sels
<1>6. ASSUME NEW i \in matched
      PROVE  a.plan[i] = DatabasePlan(sels, pairs[i]) /\ a.plan[i].database = pairs[i]
  <2>1. a.plan[i] = DatabasePlan(sels, pairs[i])
    BY <1>5
  <2> QED
    BY <2>1 DEF DatabasePlan
<1>7. DOMAIN a.plan = matched
  BY <1>5
<1> HIDE DEF matched
<1>8. /\ matched \subseteq DOMAIN pairs
      /\ \A i \in matched : MatchingSelections(sels, pairs[i].name) # {}
  BY DEF matched
<1>9. ASSUME NEW i \in DOMAIN a.plan
      PROVE  /\ a.plan[i] = DatabasePlan(sels, pairs[i])
             /\ a.plan[i].database = pairs[i]
             /\ pairs[i].name = c.databases[i].name
             /\ \A side \in Sides : \A field \in {"user", "pass"} :
                   pairs[i][side][field] = a.read[<<i, side, field>>]
             /\ MatchingSelections(sels, c.databases[i].name) # {}
  BY <1>4, <1>6, <1>7, <1>8
<1>10. DOMAIN a.plan # {} /\ DOMAIN a.plan \subseteq DOMAIN c.databases
  BY <1>3, <1>5, <1>7, <1>8
<1> QED
  BY <1>1, <1>9, <1>10 DEF pairs, sels

\* A response with a plan comes from an accepted job, with each database once.
LEMMA InvTypes == IInv => TypeOK
<1> SUFFICES ASSUME IInv
             PROVE  TypeOK
  OBVIOUS
<1>1. Types /\ call.seen \subseteq FileStates /\ AnswerOk(cfg, call)
      /\ ProcessOk(phase, cfg, call, started)
  BY DEF IInv
<1> DEFINE Shape ==
              /\ call.status \in {0, 1, 200, 202, 400, 403, 413, 500}
              /\ call.status = 202 <=> DOMAIN call.plan # {}
              /\ \A i, j \in DOMAIN call.plan :
                    call.plan[i].database.name = call.plan[j].database.name => i = j
<1>2. ASSUME Open(cfg, call) \/ RawAnswered(cfg, call) \/ Refused(cfg, call)
      PROVE  Shape
  <2>1. /\ call.status \in {0, 1, 200, 400, 403, 413, 500} /\ call.status # 202
        /\ DOMAIN call.plan = {}
    <3>1. CASE Open(cfg, call)
      BY <3>1 DEF Open
    <3>2. CASE RawAnswered(cfg, call)
      BY <3>2 DEF RawAnswered
    <3>3. CASE Refused(cfg, call)
      BY <3>3 DEF Refused
    <3> QED
      BY <1>2, <3>1, <3>2, <3>3
  <2> QED
    BY <2>1
<1>3. ASSUME Planned(cfg, call)
      PROVE  Shape
  <2>1. call.status = 202 /\ call.path = "jobs"
    BY <1>3 DEF Planned
  <2>2. /\ DOMAIN call.plan # {} /\ DOMAIN call.plan \subseteq DOMAIN cfg.databases
        /\ \A i \in DOMAIN call.plan : call.plan[i].database.name = cfg.databases[i].name
    BY <1>3, PlanFacts
  <2>3. \A i, j \in DOMAIN cfg.databases : cfg.databases[i].name = cfg.databases[j].name => i = j
    BY <1>1, <2>1 DEF ProcessOk, WellFormed
  <2> QED
    BY <2>1, <2>2, <2>3
<1>4. Shape
  BY <1>1, <1>2, <1>3 DEF AnswerOk
<1> HIDE DEF Shape
<1> QED
  BY <1>1, <1>4 DEF TypeOK, Types, Shape

\* Plans follow their requests.
LEMMA InvFollows == IInv => PlansFollow(Seq(Nat))
<1> SUFFICES ASSUME IInv
             PROVE  PlansFollow(Seq(Nat))
  OBVIOUS
<1>1. CASE Open(cfg, call) \/ RawAnswered(cfg, call) \/ Refused(cfg, call)
  <2>1. DOMAIN call.plan = {}
    BY <1>1 DEF Open, RawAnswered, Refused
  <2> QED
    BY <2>1 DEF PlansFollow
<1>2. CASE Planned(cfg, call)
  <2>1. PICK r \in JobRequests :
           /\ call.request = <<r>> /\ Compile(r).code = "ok"
           /\ \A i \in DOMAIN call.plan :
                 /\ call.plan[i] = DatabasePlan(Compile(r).selections, Pairs(cfg, call)[i])
                 /\ Pairs(cfg, call)[i].name = cfg.databases[i].name
                 /\ MatchingSelections(Compile(r).selections, cfg.databases[i].name) # {}
    BY <1>2, PlanFacts
  <2>2. r \in JobRequest /\ call.request[1] = r
    BY <2>1, RequestAssumption
  <2>3. ASSUME NEW i \in DOMAIN call.plan
        PROVE  Follows(call.plan[i], r, Seq(Nat))
    <3> DEFINE pair == Pairs(cfg, call)[i]
    <3>1. /\ MatchingSelections(Compile(r).selections, pair.name) # {}
          /\ call.plan[i] = DatabasePlan(Compile(r).selections, pair)
      BY <2>1
    <3> HIDE DEF pair
    <3> QED
      BY <2>1, <2>2, <3>1, PlanFollows
  <2> QED
    BY <2>2, <2>3 DEF PlansFollow
<1> QED
  BY <1>1, <1>2 DEF IInv, AnswerOk

\* Whatever is connected with was read while the request was handled.
LEMMA InvFresh == IInv => FreshCredentials
<1> SUFFICES ASSUME IInv
             PROVE  CredentialsFrom(cfg, call, call.seen)
  BY DEF FreshCredentials
<1>1. cfg \in Config /\ ReadOk(cfg, call)
  BY RequestAssumption DEF IInv, Types
<1>2. CASE Open(cfg, call) \/ Refused(cfg, call)
  <2>1. DOMAIN call.plan = {} /\ call.status # 200
    <3>1. CASE Open(cfg, call)
      BY <3>1 DEF Open
    <3>2. CASE Refused(cfg, call)
      BY <3>2 DEF Refused
    <3> QED
      BY <1>2, <3>1, <3>2
  <2> QED
    BY <2>1 DEF CredentialsFrom
<1>3. CASE Planned(cfg, call)
  <2>1. call.path = "jobs" /\ Resolved(cfg, call) /\ Todo(cfg, call) = DOMAIN cfg.databases
    BY <1>3 DEF Planned, Todo
  <2>2. ASSUME NEW i \in DOMAIN call.plan
        PROVE  /\ i \in Configured(cfg, call.plan[i].database.name)
               /\ \A side \in Sides : \A field \in {"user", "pass"} : \E fs \in call.seen :
                     call.plan[i].database[side][field] =
                        Expected(cfg, cfg.databases[i], side, field, fs)
    <3>1. /\ i \in DOMAIN cfg.databases
          /\ call.plan[i].database.name = cfg.databases[i].name
          /\ \A side \in Sides : \A field \in {"user", "pass"} :
                call.plan[i].database[side][field] = call.read[<<i, side, field>>]
      BY <1>3, PlanFacts
    <3>2. ASSUME NEW side \in Sides, NEW field \in {"user", "pass"}
          PROVE  \E fs \in call.seen : call.read[<<i, side, field>>] =
                        Expected(cfg, cfg.databases[i], side, field, fs)
      <4>1. Resolved(cfg, call)
        BY <2>1
      <4>2. i \in Todo(cfg, call) /\ Todo(cfg, call) \subseteq DOMAIN cfg.databases
        BY <2>1, <3>1
      <4>3. Traced(cfg, call)
        BY <1>1, <4>1, <4>2, ResolvedReads
      <4> QED
        BY <4>2, <4>3 DEF Traced
    <3> QED
      BY <3>1, <3>2 DEF Configured
  <2> QED
    BY <2>1, <2>2 DEF CredentialsFrom
<1>4. CASE RawAnswered(cfg, call)
  <2>1. PICK r : call.request = <<r>> /\ RawFound(cfg, r)
    BY <1>4 DEF RawAnswered, Asked
  <2> DEFINE k == CHOOSE i \in Configured(cfg, r.database) : TRUE
             read(field) == call.read[<<k, r.side, field>>]
  <2>2. /\ call.request[1] = r /\ r.side \in Sides
        /\ k \in Configured(cfg, r.database) /\ k \in DOMAIN cfg.databases
    BY <2>1 DEF RawFound, RawValid, Configured
  <2>3. /\ call.path = "raw" /\ DOMAIN call.plan = {} /\ Resolved(cfg, call)
        /\ call.conn = ConnectionString(ResolvedSide(cfg, call, k, r.side))
    BY <1>4, <2>2 DEF RawAnswered, RawConn
  <2>4. Todo(cfg, call) = Configured(cfg, r.database)
    BY <2>2, <2>3 DEF Todo
  <2>5. Todo(cfg, call) \subseteq DOMAIN cfg.databases
    BY <2>4 DEF Configured
  <2> HIDE DEF k
  <2>6. ASSUME NEW field \in {"user", "pass"}
        PROVE  \E fs \in call.seen :
                  read(field) = Expected(cfg, cfg.databases[k], r.side, field, fs)
    <3>1. Resolved(cfg, call) /\ k \in Todo(cfg, call) /\ r.side \in Sides
      BY <2>2, <2>3, <2>4
    <3>2. Traced(cfg, call)
      BY <1>1, <2>5, <3>1, ResolvedReads
    <3> QED
      BY <3>1, <3>2 DEF Traced
  <2>7. /\ <<"user", read("user")>> \in call.conn
        /\ read("pass") = 0 \/ <<"password", read("pass")>> \in call.conn
    <3> DEFINE conn == ResolvedSide(cfg, call, k, r.side)
    <3>1. conn.user = read("user") /\ conn.pass = read("pass")
      BY DEF ResolvedSide
    <3>2. call.conn = ConnectionString(conn)
      BY <2>3
    <3> HIDE DEF conn, read
    <3> QED
      BY <3>1, <3>2 DEF ConnectionString
  <2> HIDE DEF read
  <2> QED
    BY <2>2, <2>3, <2>6, <2>7 DEF CredentialsFrom
<1> QED
  BY <1>2, <1>3, <1>4 DEF IInv, AnswerOk

\* What resolved at startup resolves while the files are the same.
LEMMA InvStartup == IInv => StartupCheckHolds
<1> SUFFICES ASSUME IInv, NEW fs \in started, call.path = "jobs", started = {fs},
                    call.seen = {fs}, call.code \in {"invalid_config", "plain"}
             PROVE  FALSE
  BY DEF StartupCheckHolds
<1>1. Fails(cfg, call)
  BY DEF IInv, AnswerOk, Open, Planned, RawAnswered, Refused
<1>2. Holds(cfg, fs)
  BY DEF IInv, ProcessOk
<1>3. \A s \in DOMAIN call.read : /\ s \in SlotsOf(DOMAIN cfg.databases)
                                  /\ call.read[s] = ResolveAt(cfg, s, fs)
  <2>1. Slots(cfg, call) = SlotsOf(DOMAIN cfg.databases)
    BY DEF Slots, Todo
  <2> QED
    BY <2>1 DEF IInv, ReadOk
<1> QED
  BY <1>1, <1>2, <1>3 DEF Fails, CredentialFails, ConnectionFails, Holds

----------------------------------------------------------------------------
(* The steps.                                                              *)

\* Only the path, the request and what was read decide how a call resolves.
LEMMA SameReads ==
    ASSUME NEW c, NEW a, NEW b, b.path = a.path, b.request = a.request, b.read = a.read
    PROVE  /\ Slots(c, b) = Slots(c, a)
           /\ Fails(c, b) <=> Fails(c, a)
           /\ Resolved(c, b) <=> Resolved(c, a)
           /\ Pairs(c, b) = Pairs(c, a)
           /\ RawConn(c, b) = RawConn(c, a)
<1>1. Todo(c, b) = Todo(c, a)
  BY DEF Todo
<1>2. Slots(c, b) = Slots(c, a)
  BY <1>1 DEF Slots
<1>3. Fails(c, b) <=> Fails(c, a)
  BY DEF Fails, CredentialFails, ConnectionFails
<1>4. \A i, side : ResolvedSide(c, b, i, side) = ResolvedSide(c, a, i, side)
  BY DEF ResolvedSide
<1> QED
  BY <1>1, <1>2, <1>3, <1>4 DEF Resolved, Pairs, RawConn

\* The answer to a call leaves what it has read alone.
AnswerTo(a, status, code, plan, conn) ==
    [a EXCEPT !.status = status, !.code = code, !.plan = plan, !.conn = conn]

\* Its fields.
LEMMA AnswerFields ==
    ASSUME NEW a, IsCall(a), NEW status, NEW code, NEW plan, NEW conn
    PROVE  LET b == AnswerTo(a, status, code, plan, conn)
           IN  /\ IsCall(b) /\ b.path = a.path /\ b.request = a.request
               /\ b.read = a.read /\ b.seen = a.seen
               /\ b.status = status /\ b.code = code /\ b.plan = plan /\ b.conn = conn
BY DEF AnswerTo, IsCall

\* A call in flight has not been answered.
LEMMA FlightIsOpen ==
    ASSUME IInv, InFlight
    PROVE  IsCall(call) /\ Open(cfg, call) /\ call.status = 0
<1>1. call.status = 0 /\ IsCall(call)
  BY DEF IInv, InFlight
<1>2. ~Planned(cfg, call)
  BY <1>1 DEF Planned
<1>3. ~RawAnswered(cfg, call)
  BY <1>1 DEF RawAnswered
<1>4. ~Refused(cfg, call)
  BY <1>1 DEF Refused
<1> QED
  BY <1>1, <1>2, <1>3, <1>4 DEF IInv, AnswerOk

\* An answer keeps the invariant if it is one of the three kinds.
LEMMA AnswerStep ==
    ASSUME IInv, UNCHANGED <<phase, cfg, files, started, changes>>,
           IsCall(call'), call'.path = call.path, call'.request = call.request,
           call'.read = call.read, call'.seen = call.seen, call'.status # 0, InFlight,
           phase # "starting",
           Planned(cfg, call') \/ RawAnswered(cfg, call') \/ Refused(cfg, call')
    PROVE  IInv'
<1>2. ReadOk(cfg, call') /\ AnswerOk(cfg, call')
  <2>1. Slots(cfg, call') = Slots(cfg, call)
    BY SameReads
  <2> QED
    BY <2>1 DEF IInv, ReadOk, AnswerOk
<1>3. ProcessOk(phase, cfg, call', started)
  BY DEF IInv, ProcessOk
<1> QED
  BY <1>2, <1>3 DEF IInv, Types, InFlight

\* Calls that begin, or are refused at once: nothing was read yet.
Call(path, request, seen, status, code) ==
    [Nothing EXCEPT !.path = path, !.request = request, !.seen = seen,
                    !.status = status, !.code = code]

\* Their fields.
LEMMA CallFields ==
    ASSUME NEW path, NEW status, NEW code, NEW request, NEW seen
    PROVE  LET a == Call(path, request, seen, status, code)
           IN  /\ IsCall(a) /\ a.path = path /\ a.request = request /\ a.seen = seen
               /\ a.status = status /\ a.code = code /\ DOMAIN a.plan = {}
               /\ \A c : ReadOk(c, a)
<1> DEFINE a == Call(path, request, seen, status, code)
           none == << >>
<1>1. /\ a.path = path /\ a.request = request /\ a.seen = seen
      /\ a.status = status /\ a.code = code
  BY DEF Nothing, Call
<1>2. a.plan = none /\ a.read = none /\ DOMAIN none = {}
  BY DEF Nothing, Call
<1>3. IsCall(a)
  BY DEF Nothing, Call, IsCall
<1> HIDE DEF a, none
<1>4. \A c : ReadOk(c, a)
  BY <1>2 DEF ReadOk
<1> QED
  BY <1>1, <1>2, <1>3, <1>4 DEF a

\* The start of the process.
LEMMA StartStep ==
    ASSUME IInv, NEW c \in Configs, Start(c) \/ StartRefused(c)
    PROVE  IInv'
<1>1. CASE Start(c)
  <2> DEFINE none == << >>
  <2>1. /\ IsCall(call') /\ call'.path = "startup" /\ call'.seen = {files} /\ call'.status = 0
        /\ call'.code = "ok" /\ call'.plan = none /\ call'.read = none /\ DOMAIN none = {}
    BY <1>1 DEF Start, Nothing, IsCall
  <2> HIDE DEF none
  <2>2. DOMAIN call'.plan = {} /\ ReadOk(c, call')
    BY <2>1 DEF ReadOk
  <2>3. AnswerOk(c, call')
    BY <2>1, <2>2 DEF AnswerOk, Open, Asked
  <2>4. /\ phase' = "starting" /\ cfg' = c /\ WellFormed(c)
        /\ UNCHANGED <<files, started, changes>>
    BY <1>1 DEF Start
  <2>5. ProcessOk(phase', c, call', started)
    BY <2>1, <2>2, <2>4 DEF ProcessOk
  <2> QED
    BY <2>1, <2>2, <2>3, <2>4, <2>5 DEF IInv, Types, InFlight
<1>2. CASE StartRefused(c)
  <2> DEFINE none == << >>
  <2>1. /\ IsCall(call') /\ call'.path = "startup" /\ call'.seen = {} /\ call'.status = 1
        /\ call'.plan = none /\ call'.read = none /\ DOMAIN none = {}
    BY <1>2 DEF StartRefused, Nothing, IsCall
  <2> HIDE DEF none
  <2>2. DOMAIN call'.plan = {} /\ ReadOk(cfg, call')
    BY <2>1 DEF ReadOk
  <2>3. AnswerOk(cfg, call')
    BY <2>1, <2>2 DEF AnswerOk, Refused
  <2>4. phase = "down" /\ UNCHANGED <<phase, cfg, files, started, changes>>
    BY <1>2 DEF StartRefused
  <2>5. ProcessOk(phase, cfg, call', started)
    BY <2>1, <2>2, <2>4 DEF ProcessOk
  <2> QED
    BY <2>1, <2>2, <2>3, <2>4, <2>5 DEF IInv, Types, InFlight
<1> QED
  BY <1>1, <1>2

\* The end of the check at startup: everything was read, or the process exits.
LEMMA CheckStep ==
    ASSUME IInv, StartFails \/ Started
    PROVE  IInv'
<1>1. phase = "starting" /\ call.path = "startup"
  BY DEF IInv, ProcessOk, StartFails, Started
<1>2. CASE StartFails
  <2>1. IsCall(call) /\ call' = [call EXCEPT !.status = 1, !.code = "invalid_config"]
    BY <1>2 DEF StartFails, IInv
  <2>2. /\ call'.path = "startup" /\ call'.status = 1 /\ call'.request = call.request
        /\ call'.plan = call.plan /\ call'.read = call.read /\ call'.seen = call.seen
    BY <1>1, <2>1 DEF IsCall
  <2>3. IsCall(call')
    BY <2>1 DEF IsCall
  <2>4. Slots(cfg, call') = Slots(cfg, call)
    BY <1>1, <2>2, SameReads
  <2>5. ReadOk(cfg, call')
    BY <2>2, <2>4 DEF IInv, ReadOk
  <2>6. DOMAIN call.plan = {}
    BY <1>1 DEF IInv, AnswerOk, Open, Planned, RawAnswered, Refused
  <2>7. AnswerOk(cfg, call')
    BY <2>2, <2>6 DEF AnswerOk, Refused
  <2>8. phase' = "down" /\ UNCHANGED <<cfg, files, started, changes>>
    BY <1>2 DEF StartFails
  <2>9. ProcessOk(phase', cfg, call', started)
    BY <2>2, <2>8 DEF ProcessOk
  <2> QED
    BY <2>2, <2>3, <2>5, <2>7, <2>8, <2>9 DEF IInv, Types, InFlight
<1>3. CASE Started
  <2>1. /\ phase' = "serving" /\ started' = call.seen /\ call' = Nothing /\ Resolved(cfg, call)
        /\ UNCHANGED <<cfg, files, changes>>
    BY <1>3 DEF Started
  <2>2. /\ IsCall(Nothing) /\ Nothing.path = "none" /\ Nothing.seen = {} /\ Nothing.status = 0
        /\ Nothing.code = "ok" /\ DOMAIN Nothing.plan = {} /\ DOMAIN Nothing.read = {}
    BY DEF Nothing, IsCall
  <2>3. ReadOk(cfg, Nothing) /\ AnswerOk(cfg, Nothing)
    BY <2>2 DEF ReadOk, AnswerOk, Open, Asked
  <2>4. ASSUME NEW fs, call.seen = {fs}
        PROVE  Holds(cfg, fs)
    <3>1. DOMAIN call.read = SlotsOf(DOMAIN cfg.databases)
      BY <1>1, <2>1 DEF Resolved, Slots, Todo
    <3>2. \A s \in DOMAIN call.read : call.read[s] = ResolveAt(cfg, s, fs)
      BY <2>4 DEF IInv, ReadOk
    <3>3. ~Fails(cfg, call)
      BY <2>1 DEF Resolved
    <3> QED
      BY <3>1, <3>2, <3>3 DEF Holds, Fails, CredentialFails, ConnectionFails
  <2>5. WellFormed(cfg)
    BY <1>1 DEF IInv, ProcessOk
  <2>6. ProcessOk(phase', cfg, Nothing, call.seen)
    BY <2>1, <2>2, <2>4, <2>5 DEF ProcessOk
  <2> QED
    BY <2>1, <2>2, <2>3, <2>6 DEF IInv, Types, InFlight
<1> QED
  BY <1>2, <1>3

\* Nothing is at hand any more.
LEMMA IdleStep ==
    ASSUME IInv, Shutdown \/ Written
    PROVE  IInv'
<1>1. /\ IsCall(Nothing) /\ Nothing.path = "none" /\ Nothing.seen = {} /\ Nothing.status = 0
      /\ Nothing.code = "ok" /\ DOMAIN Nothing.plan = {} /\ DOMAIN Nothing.read = {}
  BY DEF Nothing, IsCall
<1>2. ReadOk(cfg, Nothing) /\ AnswerOk(cfg, Nothing)
  BY <1>1 DEF ReadOk, AnswerOk, Open, Asked
<1>3. CASE Shutdown
  <2>1. /\ phase' = "down" /\ call = Nothing /\ call' = Nothing
        /\ UNCHANGED <<cfg, files, started, changes>>
    BY <1>3 DEF Shutdown
  <2>2. ProcessOk(phase', cfg, Nothing, started)
    BY <1>1, <2>1 DEF ProcessOk
  <2> QED
    BY <1>1, <1>2, <2>1, <2>2 DEF IInv, Types, InFlight
<1>4. CASE Written
  <2>1. /\ call.status # 0 /\ call' = Nothing
        /\ UNCHANGED <<phase, cfg, files, started, changes>>
    BY <1>4 DEF Written
  <2>2. phase # "starting"
    BY <2>1 DEF IInv, ProcessOk
  <2>3. ProcessOk(phase, cfg, Nothing, started)
    BY <1>1, <2>2 DEF IInv, ProcessOk
  <2> QED
    BY <1>1, <1>2, <2>1, <2>3 DEF IInv, Types, InFlight
<1> QED
  BY <1>3, <1>4

\* A file changes: a call in flight has seen one more state.
LEMMA FileStep ==
    ASSUME IInv, NEW f \in Files, NEW content \in Contents \cup {NoFile}, ChangeFile(f, content)
    PROVE  IInv'
<1>1. /\ UNCHANGED <<phase, cfg, started>>
      /\ files' \in FileStates /\ changes' \in 0..MaxChanges
  <2>1. UNCHANGED <<phase, cfg, started>>
    BY DEF ChangeFile
  <2>2. files' \in FileStates
    BY DEF ChangeFile, IInv, Types, FileStates
  <2>3. changes' \in 0..MaxChanges
    BY RequestAssumption DEF ChangeFile, IInv, Types
  <2> QED
    BY <2>1, <2>2, <2>3
<1>2. CASE ~InFlight
  <2>1. call' = call
    BY <1>2 DEF ChangeFile
  <2> QED
    BY <1>1, <1>2, <2>1 DEF IInv, Types, InFlight
<1>3. CASE InFlight
  <2>1. call' = [call EXCEPT !.seen = call.seen \cup {files'}]
    BY <1>3 DEF ChangeFile
  <2>2. IsCall(call)
    BY DEF IInv
  <2>3. /\ call'.path = call.path /\ call'.status = call.status /\ call'.code = call.code
        /\ call'.request = call.request /\ call'.plan = call.plan /\ call'.read = call.read
        /\ call'.seen = call.seen \cup {files'}
    BY <2>1, <2>2 DEF IsCall
  <2>4. IsCall(call')
    BY <2>1, <2>2 DEF IsCall
  <2>5. Slots(cfg, call') = Slots(cfg, call)
    BY <2>3, SameReads
  <2>6. ReadOk(cfg, call')
    BY <2>3, <2>5 DEF IInv, ReadOk
  <2>7. Open(cfg, call)
    BY <1>3, FlightIsOpen
  <2>8. AnswerOk(cfg, call')
    BY <2>3, <2>7 DEF AnswerOk, Open, Asked
  <2>9. ProcessOk(phase, cfg, call', started)
    BY <2>3 DEF IInv, ProcessOk
  <2>10. call'.seen \subseteq FileStates /\ files' \in call'.seen
    BY <1>1, <2>3 DEF IInv
  <2> QED
    BY <1>1, <2>4, <2>6, <2>8, <2>9, <2>10 DEF IInv, Types
<1> QED
  BY <1>2, <1>3

\* A credential is read.
LEMMA ReadStep ==
    ASSUME IInv, NEW s \in Slots(cfg, call), ReadCredential(s)
    PROVE  IInv'
<1> DEFINE read == [t \in DOMAIN call.read \cup {s} |->
                      IF t = s THEN ResolveAt(cfg, s, files) ELSE call.read[t]]
<1>1. /\ InFlight /\ call' = [call EXCEPT !.read = read]
      /\ UNCHANGED <<phase, cfg, files, started, changes>>
  BY DEF ReadCredential, ReadAt
<1>2. /\ DOMAIN read = DOMAIN call.read \cup {s}
      /\ \A t \in DOMAIN read : read[t] = IF t = s THEN ResolveAt(cfg, s, files) ELSE call.read[t]
  OBVIOUS
<1> HIDE DEF read
<1>3. IsCall(call)
  BY DEF IInv
<1>4. /\ call'.path = call.path /\ call'.status = call.status /\ call'.code = call.code
      /\ call'.request = call.request /\ call'.plan = call.plan /\ call'.read = read
      /\ call'.seen = call.seen
  BY <1>1, <1>3 DEF IsCall
<1>5. IsCall(call')
  BY <1>1, <1>3 DEF IsCall
<1>6. Slots(cfg, call') = Slots(cfg, call)
  BY <1>4 DEF Slots, Todo
<1>7. files \in call.seen
  BY <1>1 DEF IInv
<1>8. ReadOk(cfg, call')
  <2>1. /\ DOMAIN call.read \subseteq Slots(cfg, call)
        /\ \A t \in DOMAIN call.read : \E fs \in call.seen : call.read[t] = ResolveAt(cfg, t, fs)
    BY DEF IInv, ReadOk
  <2>2. ASSUME NEW t \in DOMAIN read
        PROVE  \E fs \in call.seen : read[t] = ResolveAt(cfg, t, fs)
    <3>1. CASE t = s
      BY <1>2, <1>7, <3>1
    <3>2. CASE t # s
      BY <1>2, <2>1, <3>2
    <3> QED
      BY <3>1, <3>2
  <2> QED
    BY <1>2, <1>4, <1>6, <2>1, <2>2 DEF ReadOk
<1>9. Open(cfg, call)
  BY <1>1, FlightIsOpen
<1>10. AnswerOk(cfg, call')
  BY <1>4, <1>9 DEF AnswerOk, Open, Asked
<1>11. ProcessOk(phase, cfg, call', started)
  BY <1>4 DEF IInv, ProcessOk
<1> QED
  BY <1>1, <1>4, <1>5, <1>7, <1>8, <1>10, <1>11 DEF IInv, Types

\* A request that arrives, or is refused before anything is read.
LEMMA ArriveStep ==
    ASSUME IInv, NEW path \in {"jobs", "raw"}, NEW r, NEW status, NEW code,
           \/ /\ Arrive(path, r) /\ status = 0 /\ code = "ok"
              /\ path = "jobs" => r \in JobRequests /\ Compile(r).code = "ok"
              /\ path = "raw" => RawFound(cfg, r)
           \/ /\ Refuse(path, r, status, code) /\ status \in {400, 403, 413}
              /\ path = "jobs" => code \notin {"invalid_config", "plain"}
    PROVE  IInv'
<1>1. /\ phase = "serving" /\ UNCHANGED <<phase, cfg, files, started, changes>>
  BY DEF Arrive, Refuse
<1>2. call' = Call(path, <<r>>, {files}, status, code)
  BY DEF Arrive, Refuse, Nothing, Call
<1>3. /\ IsCall(call') /\ call'.path = path /\ call'.request = <<r>> /\ call'.seen = {files}
      /\ call'.status = status /\ call'.code = code /\ DOMAIN call'.plan = {}
      /\ ReadOk(cfg, call')
  BY <1>2, CallFields
<1>4. AnswerOk(cfg, call')
  <2>1. CASE status = 0
    <3>1. Open(cfg, call')
      BY <1>3, <2>1 DEF Open, Asked
    <3> QED
      BY <3>1 DEF AnswerOk
  <2>2. CASE status # 0
    <3>1. Refused(cfg, call')
      BY <1>3, <2>2 DEF Refused
    <3> QED
      BY <3>1 DEF AnswerOk
  <2> QED
    BY <2>1, <2>2
<1>5. ProcessOk(phase, cfg, call', started)
  BY <1>1, <1>3 DEF IInv, ProcessOk
<1>6. call'.seen \subseteq FileStates /\ files \in call'.seen
  BY <1>3 DEF IInv, Types
<1> QED
  BY <1>1, <1>3, <1>4, <1>5, <1>6 DEF IInv, Types

\* POST /jobs, until its credentials are read.
LEMMA JobArrives ==
    ASSUME IInv, NEW r \in JobRequests, PostJobsRefused(r) \/ PostJobs(r)
    PROVE  IInv'
<1>1. r.body \in {"json", "request_body_too_large", "unknown_field", "multiple_documents",
                  "invalid_json"}
  BY RequestAssumption DEF JobRequest
<1>2. CASE PostJobs(r)
  <2>1. Arrive("jobs", r) /\ Compile(r).code = "ok"
    BY <1>2 DEF PostJobs
  <2> QED
    BY <2>1, ArriveStep
<1>3. CASE DecodeCode(r) # "json" /\ Refuse("jobs", r, DecodeStatus(DecodeCode(r)), DecodeCode(r))
  <2>1. DecodeCode(r) \notin {"invalid_config", "plain"}
    BY <1>1 DEF DecodeCode, Decodes
  <2>2. DecodeStatus(DecodeCode(r)) \in {400, 403, 413}
    BY DEF DecodeStatus
  <2> QED
    BY <1>3, <2>1, <2>2, ArriveStep
<1>4. CASE Compile(r).code # "ok" /\ Refuse("jobs", r, 400, Compile(r).code)
  <2>1. Compile(r).code \in {"invalid_glob", "invalid_database_selection"}
    BY <1>4 DEF Compile
  <2> QED
    BY <1>4, <2>1, ArriveStep
<1> QED
  BY <1>2, <1>3, <1>4 DEF PostJobsRefused

\* POST /tables/raw, until its credentials are read.
LEMMA RawArrives ==
    ASSUME IInv, NEW r \in RawRequests, PostTablesRawRefused(r) \/ PostTablesRaw(r)
    PROVE  IInv'
<1>1. CASE PostTablesRaw(r)
  <2>1. Arrive("raw", r) /\ RawFound(cfg, r)
    BY <1>1 DEF PostTablesRaw
  <2> QED
    BY <2>1, ArriveStep
<1>2. ASSUME NEW status \in {400, 403, 413}, NEW code, Refuse("raw", r, status, code)
      PROVE  IInv'
  BY <1>2, ArriveStep
<1>3. DecodeStatus(r.body) \in {400, 403, 413}
  BY DEF DecodeStatus
<1> QED
  BY <1>1, <1>2, <1>3 DEF PostTablesRawRefused

\* The answers of both handlers, once their credentials are read.
LEMMA HandlerAnswers ==
    ASSUME IInv, JobsUnresolved \/ JobsPlanned \/ RawUnresolved \/ RawRead \/ RawFails
    PROVE  IInv'
<1>1. /\ InFlight /\ call.path \in {"jobs", "raw"}
      /\ UNCHANGED <<phase, cfg, files, started, changes>>
  BY DEF JobsUnresolved, JobsPlanned, RawUnresolved, RawRead, RawFails, Answer
<1>2. IsCall(call) /\ Open(cfg, call)
  BY <1>1, FlightIsOpen
<1>3. phase # "starting"
  BY <1>1 DEF IInv, ProcessOk
<1>4. ASSUME NEW status, NEW code, NEW plan, NEW conn, status # 0,
             call' = AnswerTo(call, status, code, plan, conn)
      PROVE  /\ IsCall(call') /\ call'.path = call.path /\ call'.request = call.request
             /\ call'.read = call.read /\ call'.seen = call.seen
             /\ call'.status = status /\ call'.code = code /\ call'.plan = plan /\ call'.conn = conn
             /\ (Planned(cfg, call') \/ RawAnswered(cfg, call') \/ Refused(cfg, call')) => IInv'
  <2>1. /\ IsCall(call') /\ call'.path = call.path /\ call'.request = call.request
        /\ call'.read = call.read /\ call'.seen = call.seen
        /\ call'.status = status /\ call'.code = code /\ call'.plan = plan /\ call'.conn = conn
    BY <1>2, <1>4, AnswerFields
  <2> QED
    BY <1>1, <1>3, <1>4, <2>1, AnswerStep
<1>5. CASE JobsUnresolved
  <2>1. PICK code : Fails(cfg, call) /\ call' = AnswerTo(call, 400, code, << >>, {})
    BY <1>5 DEF JobsUnresolved, Answer, AnswerTo
  <2>2. /\ call'.path = call.path /\ call'.request = call.request /\ call'.read = call.read
        /\ call'.status = 400 /\ call'.plan = << >>
    BY <1>4, <2>1
  <2>3. Fails(cfg, call') /\ DOMAIN call'.plan = {}
    BY <2>1, <2>2, SameReads
  <2>4. Refused(cfg, call')
    BY <2>2, <2>3 DEF Refused
  <2> QED
    BY <1>4, <2>1, <2>4
<1>6. CASE JobsPlanned
  <2>1. call.path = "jobs" /\ Resolved(cfg, call)
    BY <1>6 DEF JobsPlanned
  <2>2. PICK r \in JobRequests : call.request = <<r>> /\ Compile(r).code = "ok"
    BY <1>2, <2>1 DEF Open, Asked
  <2> DEFINE made == Plan(Compile(r).selections, Pairs(cfg, call))
  <2>3. call.request[1] = r
    BY <2>2
  <2>4. \/ made.code = "ok" /\ call' = AnswerTo(call, 202, "ok", made.plan, {})
        \/ made.code # "ok" /\ call' = AnswerTo(call, 400, made.code, << >>, {})
    BY <1>6, <2>3 DEF JobsPlanned, Answer, AnswerTo
  <2>5. made.code \in {"ok", "invalid_database_selection"}
    BY DEF Plan
  <2>6. made = Plan(Compile(r).selections, Pairs(cfg, call))
    OBVIOUS
  <2> HIDE DEF made
  <2>7. CASE made.code = "ok" /\ call' = AnswerTo(call, 202, "ok", made.plan, {})
    <3>1. /\ call'.path = call.path /\ call'.request = call.request /\ call'.read = call.read
          /\ call'.status = 202 /\ call'.code = "ok" /\ call'.plan = made.plan
      BY <1>4, <2>7
    <3>2. Resolved(cfg, call') /\ Pairs(cfg, call') = Pairs(cfg, call)
      BY <2>1, <3>1, SameReads
    <3>3. Asked(cfg, call') /\ call'.request[1] = r
      BY <1>2, <2>1, <2>3, <3>1 DEF Open, Asked
    <3>4. Planned(cfg, call')
      BY <2>1, <2>6, <2>7, <3>1, <3>2, <3>3 DEF Planned
    <3> QED
      BY <1>4, <2>7, <3>4
  <2>8. CASE made.code # "ok" /\ call' = AnswerTo(call, 400, made.code, << >>, {})
    <3>1. call'.status = 400 /\ call'.plan = << >> /\ call'.code = made.code
      BY <1>4, <2>8
    <3>2. call'.code \notin {"invalid_config", "plain"} /\ DOMAIN call'.plan = {}
      BY <2>5, <2>8, <3>1
    <3>3. Refused(cfg, call')
      BY <3>1, <3>2 DEF Refused
    <3> QED
      BY <1>4, <2>8, <3>3
  <2> QED
    BY <2>4, <2>7, <2>8
<1>7. CASE RawRead
  <2>1. /\ call.path = "raw" /\ Resolved(cfg, call)
        /\ call' = AnswerTo(call, 200, "ok", << >>, RawConn(cfg, call))
    BY <1>7 DEF RawRead, Answer, AnswerTo
  <2>2. /\ call'.path = call.path /\ call'.request = call.request /\ call'.read = call.read
        /\ call'.status = 200 /\ call'.plan = << >> /\ call'.conn = RawConn(cfg, call)
    BY <1>4, <2>1
  <2>3. Resolved(cfg, call') /\ RawConn(cfg, call') = RawConn(cfg, call)
    BY <2>1, <2>2, SameReads
  <2>4. DOMAIN call'.plan = {}
    BY <2>2
  <2>5. Asked(cfg, call')
    BY <1>2, <2>1, <2>2 DEF Open, Asked
  <2>6. RawAnswered(cfg, call')
    BY <2>1, <2>2, <2>3, <2>4, <2>5 DEF RawAnswered
  <2> QED
    BY <1>4, <2>1, <2>6
<1>8. CASE RawUnresolved \/ RawFails
  <2>1. call.path = "raw"
    BY <1>8 DEF RawUnresolved, RawFails, Answer
  <2>2. PICK status \in {400, 500} : call' = AnswerTo(call, status, "plain", << >>, {})
    BY <1>8 DEF RawUnresolved, RawFails, Answer, AnswerTo
  <2>3. call'.path = "raw" /\ call'.status = status /\ call'.plan = << >>
    BY <1>4, <2>1, <2>2
  <2>4. DOMAIN call'.plan = {}
    BY <2>3
  <2>5. Refused(cfg, call')
    BY <2>3, <2>4 DEF Refused
  <2> QED
    BY <1>4, <2>2, <2>5
<1> QED
  BY <1>5, <1>6, <1>7, <1>8

----------------------------------------------------------------------------
(* The theorems.                                                           *)

\* The invariant is inductive.
LEMMA Inductive == Spec => []IInv
<1>1. Init => IInv
  <2> SUFFICES ASSUME Init
               PROVE  IInv
    OBVIOUS
  <2>1. /\ IsCall(Nothing) /\ Nothing.path = "none" /\ Nothing.seen = {} /\ Nothing.status = 0
        /\ Nothing.code = "ok" /\ DOMAIN Nothing.plan = {} /\ DOMAIN Nothing.read = {}
    BY DEF Nothing, IsCall
  <2>2. call = Nothing /\ phase = "down"
    BY DEF Init
  <2>3. ReadOk(cfg, call) /\ AnswerOk(cfg, call) /\ ProcessOk(phase, cfg, call, started)
    BY <2>1, <2>2 DEF ReadOk, AnswerOk, Open, Asked, ProcessOk
  <2>4. Types
    BY RequestAssumption DEF Init, Types
  <2> QED
    BY <2>1, <2>2, <2>3, <2>4 DEF IInv, InFlight
<1>2. ASSUME IInv, [Next]_vars
      PROVE  IInv'
  <2>1. CASE UNCHANGED vars
    BY <1>2, <2>1 DEF vars, IInv, Types, InFlight
  <2> QED
    BY <1>2, <2>1, StartStep, CheckStep, IdleStep, FileStep, ReadStep, JobArrives, RawArrives,
       HandlerAnswers DEF Next
<1> QED
  BY <1>1, <1>2, PTL DEF Spec

\* Every variable keeps its type; an accepted job, and nothing else, has a plan,
\* with each configured database at most once (TypeOK).
THEOREM TypeCorrect == Spec => []TypeOK
BY Inductive, InvTypes, PTL

\* The plan of a job selects what its request asks for, for schemas and tables of
\* any name.
THEOREM PlansFollowGlobs == Spec => []PlansFollow(Seq(Nat))
BY Inductive, InvFollows, PTL

\* In particular for the names the model checker tries (SelectionFollowsGlobs).
THEOREM SelectionsFollowGlobs == Spec => []SelectionFollowsGlobs
<1>1. ASSUME NEW w \in Words
      PROVE  w \in Seq(Nat)
  <2>1. \A a, b \in {1, 2, Slash} : <<a>> \in Seq(Nat) /\ <<a, b>> \in Seq(Nat)
    BY RequestAssumption
  <2>2. (\E a \in {1, 2, Slash} : w = <<a>>) \/ (\E a, b \in {1, 2, Slash} : w = <<a, b>>)
    BY DEF Words, Alphabet
  <2> QED
    BY <2>1, <2>2
<1>2. PlansFollow(Seq(Nat)) => SelectionFollowsGlobs
  BY <1>1 DEF PlansFollow, SelectionFollowsGlobs, Follows
<1> QED
  BY <1>2, PlansFollowGlobs, PTL

\* Each credential of a job, and of a raw read, is what its own source held at some
\* moment between the arrival of the request and its answer (FreshCredentials).
THEOREM CredentialsAreFresh == Spec => []FreshCredentials
BY Inductive, InvFresh, PTL

\* As long as the secret files hold what they held during the check at startup, no
\* job is refused because of the configuration (StartupCheckHolds).
THEOREM StartupCheckIsEnough == Spec => []StartupCheckHolds
BY Inductive, InvStartup, PTL
============================================================================
