------------------------------ MODULE HttpText ------------------------------
(***************************************************************************)
(* The text HttpServer takes apart and puts together: the URI of a request *)
(* with its parameters (GetHttpURI makes one for a request that is sent,   *)
(* GetHttpParams reads one that arrived, with StringUtil::Split), and the  *)
(* Lua table a handler builds in its HttpResponse.  A string is a sequence *)
(* of characters; a table is a sequence of tokens: its braces ("open" and  *)
(* "close"), "comma", "key" (with the =) and "value".                      *)
(***************************************************************************)
EXTENDS Naturals, Sequences, Functions, FiniteSetsExt

CONSTANTS
    Names, Values,  \* strings: the keys and values of parameters
    MaxParams,      \* bound: parameters of a request
    HttpPaths,      \* strings: paths
    MaxTokens,      \* bound: length of a table's text
    MaxDepth        \* bound: nesting of tables

ASSUME TextAssumption ==
    /\ MaxParams \in Nat /\ MaxTokens \in Nat /\ MaxDepth \in Nat
    /\ Names \cup Values \cup HttpPaths \subseteq Seq(STRING)

VARIABLES
    params, path,        \* the request that is sent
    left,                \* keys GetHttpURI has still to write
    uri,
    parsed,              \* what GetHttpParams made of the uri: [path, params]
    text,                \* m_ResBuff, as tokens
    m_LuaTableKeyCount,  \* the stack, its top first
    keyed                \* AddLuaKey was called and the value is to come

uriVars == << params, path, left, uri, parsed >>
tableVars == << text, m_LuaTableKeyCount, keyed >>
textVars == << uriVars, tableVars >>

NoParams == [k \in {} |-> k]

TextInit ==
    /\ params = NoParams /\ path = << >> /\ left = {} /\ uri = << >>
    /\ parsed = [path |-> << >>, params |-> NoParams]
    /\ text = << >> /\ m_LuaTableKeyCount = << >> /\ keyed = FALSE
-----------------------------------------------------------------------------
\* find_first_of from position i on; the position behind the end stands for npos.
Find(s, c, i) == Min({j \in i .. Len(s) : s[j] = c} \cup {Len(s) + 1})

\* Mutant of Split: what follows the last separator is left out.
SplitUnfinished(s, c) ==
    LET from[i \in 1 .. Len(s) + 1] ==
            IF Find(s, c, i) > Len(s) THEN << >>
            ELSE << SubSeq(s, i, Find(s, c, i) - 1) >> \o from[Find(s, c, i) + 1]
    IN  IF s = << >> THEN << >> ELSE from[1]

\* The pieces from each position on.
Pieces(s, c) ==
    LET from[i \in 1 .. Len(s) + 1] ==
            IF Find(s, c, i) > Len(s) THEN << SubSeq(s, i, Len(s)) >>
            ELSE << SubSeq(s, i, Find(s, c, i) - 1) >> \o from[Find(s, c, i) + 1]
    IN  from

(***************************************************************************)
(* StringUtil::Split.  The last piece is always there, empty or not: npos  *)
(* minus the last position is unsigned and never zero.                     *)
(***************************************************************************)
Split(s, c) == IF s = << >> THEN << >> ELSE Pieces(s, c)[1]

\* One item of the parameters; without a "=" key and value are both the item.
Key(item) == SubSeq(item, 1, Find(item, "=", 1) - 1)

ValueOf(item) == IF Find(item, "=", 1) > Len(item) THEN item
                 ELSE SubSeq(item, Find(item, "=", 1) + 1, Len(item))

\* params[key] = value for one item after the other: the last one of a key stays.
ParamsOf(items) ==
    [k \in {Key(items[i]) : i \in DOMAIN items} |->
        ValueOf(items[Max({i \in DOMAIN items : Key(items[i]) = k})])]

GetHttpParams(u) ==
    LET pos == Find(u, "?", 1)
    IN  [path |-> SubSeq(u, 1, pos - 1),
         params |-> IF pos > Len(u) THEN NoParams
                    ELSE ParamsOf(Split(SubSeq(u, pos + 1, Len(u)), "&"))]

\* A request is to be sent.
NewRequest ==
    /\ uri = << >>
    /\ path' \in HttpPaths
    /\ \E K \in SUBSET Names : Cardinality(K) <= MaxParams /\ params' \in [K -> Values]
    /\ uri' = path'
    /\ left' = DOMAIN params'
    /\ UNCHANGED << parsed, tableVars >>

\* GetHttpURI, the next parameter (the map's order of keys plays no part here).
GetHttpURI ==
    /\ \E k \in left :
         /\ uri' = uri \o << IF left = DOMAIN params THEN "?" ELSE "&" >> \o k \o << "=" >> \o params[k]
         /\ left' = left \ {k}
    /\ UNCHANGED << params, path, parsed, tableVars >>

\* The request arrives at another HttpServer.
Receive ==
    /\ uri # << >> /\ left = {}
    /\ parsed' = GetHttpParams(uri)
    /\ UNCHANGED << params, path, left, uri, tableVars >>
-----------------------------------------------------------------------------
(* HttpResponse.  A handler names each field before its value, closes the  *)
(* tables it opened, and builds one table.                                 *)

InTable == m_LuaTableKeyCount # << >>

\* Mutant of AddLuaKeyCount: the count is not put back.
AddLuaKeyCountLost == m_LuaTableKeyCount' = m_LuaTableKeyCount

\* The top of the stack is taken off and put back, one greater.
AddLuaKeyCount == m_LuaTableKeyCount' = << Head(m_LuaTableKeyCount) + 1 >> \o Tail(m_LuaTableKeyCount)

Comma == IF Head(m_LuaTableKeyCount) > 0 THEN << "comma" >> ELSE << >>

\* AddLuaKey; a key that is NULL is left out.
AddLuaKey(key) ==
    /\ InTable /\ ~keyed
    /\ AddLuaKeyCount
    /\ text' = text \o Comma \o key
    /\ keyed' = TRUE
    /\ Len(text') < MaxTokens
    /\ UNCHANGED uriVars

\* The rest of AddLuaKeyValue.
AddValue ==
    /\ keyed
    /\ text' = Append(text, "value")
    /\ keyed' = FALSE
    /\ UNCHANGED << m_LuaTableKeyCount, uriVars >>

BeginLuaTable ==
    /\ IF InTable THEN keyed ELSE text = << >>
    /\ Len(m_LuaTableKeyCount) < MaxDepth
    /\ text' = Append(text, "open")
    /\ m_LuaTableKeyCount' = << 0 >> \o m_LuaTableKeyCount
    /\ keyed' = FALSE
    /\ UNCHANGED uriVars

EndLuaTable ==
    /\ InTable /\ ~keyed
    /\ m_LuaTableKeyCount' = Tail(m_LuaTableKeyCount)
    /\ text' = Append(text, "close")
    /\ UNCHANGED << keyed, uriVars >>

TextNext ==
    \/ text = << >> /\ (NewRequest \/ GetHttpURI \/ Receive)
    \/ /\ uri = << >>
       /\ \/ \E key \in {<< >>, << "key" >>} : AddLuaKey(key)
          \/ AddValue \/ BeginLuaTable \/ EndLuaTable
    \/ UNCHANGED textVars

TextSpec == TextInit /\ [][TextNext]_textVars
-----------------------------------------------------------------------------
Has(s, c) == c \in Range(s)

(***************************************************************************)
(* What SendHttpRequest writes, GetHttpParams reads: path and parameters   *)
(* come out as they went in, empty keys and values and a "=" or "?" in a   *)
(* value included.  There is no escaping, so this holds for paths without  *)
(* "?", keys without "=" and "&" and values without "&".                   *)
(***************************************************************************)
ParamsArrive ==
    /\ parsed.path # << >>
    /\ ~Has(path, "?")
    /\ \A k \in DOMAIN params : ~Has(k, "=") /\ ~Has(k, "&") /\ ~Has(params[k], "&")
    => parsed = [path |-> path, params |-> params]

\* What may stand after each token of a table's text.
Follows == [t \in {"open", "close", "comma", "key", "value"} |->
              CASE t = "open" -> {"key", "value", "open", "close"}
                [] t \in {"close", "value"} -> {"comma", "close"}
                [] t = "comma" -> {"key", "value", "open"}
                [] t = "key" -> {"value", "open"}]

(***************************************************************************)
(* The text of a table is one Lua can read, however tables are nested and  *)
(* fields named or not: exactly one comma between two fields, none before  *)
(* the first or after the last, and when the outermost table is closed     *)
(* every table is.                                                         *)
(***************************************************************************)
TableReadable ==
    /\ \A i \in 1 .. Len(text) - 1 : text[i + 1] \in Follows[text[i]]
    /\ ~InTable => Cardinality({i \in DOMAIN text : text[i] = "open"})
                     = Cardinality({i \in DOMAIN text : text[i] = "close"})
=============================================================================
