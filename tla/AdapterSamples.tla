--------------------------- MODULE AdapterSamples ---------------------------
(* Every tool, called with all it requires and any of what it may be given,*)
(* and one parameter missing, None, or odd; for SQL every text of up to    *)
(* five tokens.                                                            *)
EXTENDS AdapterTables

Usual(p) ==
  CASE p \in NumberNames -> Value("number", <<"7">>)
    [] p \in ListNames -> Value("list", <<"x">>)
    [] p \in BoolNames -> Value("bool", <<"True">>)
    [] p \in ObjectNames -> Value("object", <<"x">>)
    [] p = "sql" -> Text(<<"SELECT", " ", "x", " ", "FROM", " ", "u">>)
    [] p = "duration" -> Text(<<"7", "h", "90", "m">>)
    [] p = "provider" -> Text(<<"github">>)
    [] OTHER -> Text(<<"x">>)

Odd == {Null, Empty, Text(<<" ">>), Text(<<"u">>), Text(<<"7">>), Value("number", <<"0">>),
        Value("list", <<"u">>)}

OddAt(p) ==
  Odd \cup
  CASE p = "channel" -> {Text(<<"@", "u">>), Text(<<"D", "7">>), Text(<<"D", "x">>)}
    [] p = "path" -> {Text(<<"kv", "/", "x", "/", "u">>), Text(<<"/", "x">>)}
    [] p = "query" -> {Text(<<"type:", " ", "error_type:", "E", " ", "x">>), Text(<<"error:", "E">>)}
    [] p = "duration" -> {Text(<<"0", "m">>), Text(<<"90", "m">>), Text(<<"7", "h">>), Text(<<"m">>)}
    [] p = "sql" -> {Text(<<"INSERT", " ", "INTO", " ", "x", " ", "SELECT", " ", "FROM", " ", "u">>),
                     Text(<<"UPDATE", " ", "x", " ", "SET", " ", "u">>),
                     Text(<<"DELETE", " ", "FROM", " ", "x">>)}
    [] OTHER -> {}

Plain(names) == [p \in names |-> Usual(p)]

AsksOf(t) ==
  LET tool == Described(t) IN
  UNION {LET names == tool.required \cup more IN
         {[tool |-> t, params |-> Plain(names)]}
         \cup {[tool |-> t, params |-> Plain(names \ {p})] : p \in names}
         \cup UNION {{[tool |-> t, params |-> [Plain(names) EXCEPT ![p] = v]] : v \in OddAt(p)}
                     : p \in names}
         : more \in SUBSET tool.optional}

SqlTokens == {"SELECT", "CREATE", "'", "\"", "\\", " ", "x"}

SqlAsks ==
  {[tool |-> <<"database", name>>,
    params |-> [Plain({"database", "sql"}) EXCEPT !["sql"] = Text(sql)]]
     : name \in {"query", "execute_statement"},
       sql \in UNION {[1..n -> SqlTokens] : n \in 0..5}}

CalendarAsks ==
  {[tool |-> <<"calendar", name>>, params |-> Plain({"calendar_id", "start", "end", "zone"})]
     : name \in {"list_events", "check_conflicts"}}

SampleAsks == SqlAsks \cup CalendarAsks \cup UNION {AsksOf(t) : t \in ToolNames}
=============================================================================
