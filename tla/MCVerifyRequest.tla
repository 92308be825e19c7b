-------------------------- MODULE MCVerifyRequest --------------------------
(* Small instances of VerifyRequest: names over the letters 1 and 2, two    *)
(* databases, one secret file that is rotated or removed.  An emptied one    *)
(* resolves like a removed one.                                             *)
EXTENDS VerifyRequest

A == 1
B == 2
MCEnv == [v \in {1, 2} |-> IF v = 1 THEN 11 ELSE 0]
MCContents == {[text |-> 21, newline |-> TRUE], [text |-> 22, newline |-> FALSE]}

----------------------------------------------------------------------------
(* Configurations.                                                         *)

From(sources, ref) == [declared |-> TRUE, sources |-> sources, ref |-> ref]
Literal(v) == From({"value"}, v)
Variable(v) == From({"env_ref"}, v)
File(f) == From({"secret_file"}, f)
Server(user, pass, mode) ==
    [fields |-> [f \in Fields |-> CASE f = "sslmode" -> mode [] f \in {"host", "port"} -> 1
                                    [] OTHER -> 0],
     user |-> user, pass |-> pass]
With(conn, f, v) == [conn EXCEPT !.fields[f] = v]
Mapping(name, s, d) == [name |-> name, source |-> s, destination |-> d,
                        sourceDatabase |-> 5, destinationDatabase |-> 6]
Own(user, pass) == [NoConn EXCEPT !.user = user, !.pass = pass]

Good ==
    [readable |-> TRUE, listener |-> [bind |-> TRUE, tls |-> "none"], rawTableOutput |-> TRUE,
     source |-> Server(File(1), NoCredential, 1),
     destination |-> Server(Variable(1), Literal(31), 1),
     databases |-> <<Mapping(<<A>>, NoConn, Own(NoCredential, File(1))),
                     Mapping(<<A, B>>, Own(Literal(32), NoCredential), NoConn)>>]
Certified ==
    [Good EXCEPT !.rawTableOutput = FALSE, !.listener.tls = "complete",
                 !.source = With(Server(Literal(33), NoCredential, VerifyFull), "ca", 1),
                 !.databases = <<Mapping(<<B>>, NoConn,
                        With(With(With(Own(File(1), NoCredential), "cert", 1), "key", 2),
                             "database", 7))>>]
Slashed == [Good EXCEPT !.databases[2].name = <<A, Slash>>]
Bad ==
    {[Good EXCEPT !.readable = FALSE], [Good EXCEPT !.listener.bind = FALSE],
     [Good EXCEPT !.listener.tls = "partial"], [Good EXCEPT !.databases = << >>],
     [Good EXCEPT !.databases[2].name = <<A>>], [Good EXCEPT !.databases[1].name = << >>],
     [Good EXCEPT !.source = Server(Variable(2), NoCredential, 1)],
     [Good EXCEPT !.source = Server(Variable(3), NoCredential, 1)],
     [Good EXCEPT !.source = Server(NoCredential, NoCredential, 1)],
     [Good EXCEPT !.databases[2].destination = Own(From({}, 0), NoCredential)],
     [Good EXCEPT !.databases[2].destination = Own(From({"value", "env_ref"}, 1), NoCredential)],
     [Good EXCEPT !.databases[2].destination = With(NoConn, "cert", 1)],
     [Good EXCEPT !.destination = Server(Variable(1), Literal(31), VerifyFull)],
     [Good EXCEPT !.databases[1].sourceDatabase = 0]}
MCConfigs == {Good, Certified, Slashed} \cup Bad

----------------------------------------------------------------------------
(* Requests.                                                               *)

Null == [form |-> "null", globs |-> {}]
Strings(globs) == [form |-> "strings", globs |-> globs]
Other == [form |-> "other", globs |-> {}]
Item(form, match, schema, table) ==
    [form |-> form, match |-> match, schema |-> schema, table |-> table]
Objects ==
    {Item("object", m, s, t) :
        m \in {<<Star>>, <<Lit(A), One>>, <<Class("!", 1, 1)>>},
        s \in {Null, Strings({<<Class("^", 1, 1)>>}), Strings({<<One>>, <<Lit(B), Lit(A)>>}),
               Strings({<<Class("", 2, 1)>>})},
        t \in {Null, Strings({<<Lit(A), Star>>}), Strings({<<Esc(A)>>, <<Lit(Wide)>>})}}
Simple(m) == Item("string", m, Null, Null)
Broken == {Item("object", <<Unclosed>>, Null, Null), Item("object", <<Star>>, Other, Null),
           Item("object", <<Star>>, Strings({<<Class("!", 0, 0)>>}), Null),
           Item("other", << >>, Null, Null), Simple(<< >>), Simple(<<Lit(Wide)>>)}
Listed(items) == [form |-> "list", items |-> items]
NoDatabases ==
    {[form |-> "null", items |-> << >>], [form |-> "other", items |-> << >>], Listed(<< >>)}
Ordinary == {o \in Objects : o.match = <<Star>> /\ (o.schema = Null \/ o.table = Null)}
Defaults == {<<Null, Null>>, <<Strings({<<Lit(A)>>, <<Star, Lit(B)>>}), Strings({<<Star, Lit(A)>>})>>,
             <<Null, Strings({<<Class("", 0, 0)>>})>>, <<Other, Null>>}
JobBody(d, v) == [body |-> "json", schema |-> d[1], table |-> d[2], databases |-> v]
MCJobRequests ==
    {JobBody(<<Null, Null>>, Listed(<<i>>)) : i \in Objects \cup Broken}
    \cup {JobBody(<<Null, Null>>, Listed(<<i, j>>)) :
            i \in {Simple(<<Lit(A)>>), Simple(<<Star>>)}, j \in Ordinary \cup Broken}
    \cup {JobBody(d, v) : d \in Defaults, v \in NoDatabases \cup {Listed(<<i>>) : i \in Ordinary}}
    \cup {[body |-> b, schema |-> Null, table |-> Null, databases |-> Listed(<< >>)] :
        b \in {"request_body_too_large", "unknown_field", "multiple_documents", "invalid_json"}}
MCRawRequests ==
    {[body |-> b, database |-> d, side |-> s, identifiers |-> i] :
        b \in {"json", "unknown_field"}, d \in {<< >>, <<A>>, <<A, B>>, <<B, B>>},
        s \in {"source", "destination", "both"}, i \in BOOLEAN}
============================================================================
