-------------------------- MODULE ConversionProofs --------------------------
(***************************************************************************)
(* What HttpServer and DataUtil write is what they read: the Lua tables of *)
(* a response, the parameters of a URI and the values of a byte array, for *)
(* texts and values of any length.  Induction over data is done with sets: *)
(* a set of naturals that holds 0 and the successor of each of its members *)
(* holds every natural.                                                    *)
(***************************************************************************)
EXTENDS HttpText, DataUtil, FiniteSetTheorems, SequenceTheorems, TLAPS

LEMMA SmallestOf ==
    ASSUME NEW T \in SUBSET Nat, T # {}
    PROVE  \E i \in T : \A j \in T : i <= j
<1>1. PICK R : R = OpToRel(<, Nat)
  OBVIOUS
<1>2. \A i, j \in Nat : << j, i >> \in R <=> j < i
  BY <1>1 DEF OpToRel
<1>3. PICK i \in T : \A j \in T : ~(<< j, i >> \in R)
  BY <1>1, NatLessThanWellFounded, WFMin
<1>4. ASSUME NEW j \in T PROVE i <= j
  <2>1. i \in Nat /\ j \in Nat
    OBVIOUS
  <2>2. ~(j < i)
    BY <1>2, <1>3, <2>1
  <2> QED BY <2>1, <2>2
<1> QED BY <1>4

LEMMA Inductive ==
    ASSUME NEW T, 0 \in T, \A n \in Nat : n \in T => n + 1 \in T
    PROVE  \A n \in Nat : n \in T
<1> SUFFICES ASSUME Nat \ T # {} PROVE FALSE
  OBVIOUS
<1>1. PICK m \in Nat \ T : \A j \in Nat \ T : m <= j
  BY SmallestOf
<1>2. m # 0 /\ m - 1 \in Nat
  OBVIOUS
<1>3. m - 1 \in T
  BY <1>1, <1>2
<1> QED BY <1>2, <1>3

LEMMA Backwards ==
    ASSUME NEW N \in Nat, NEW T, \A i \in 1 .. N : (\A j \in i + 1 .. N : j \in T) => i \in T
    PROVE  \A i \in 1 .. N : i \in T
<1> SUFFICES ASSUME NEW i \in 1 .. N, i \notin T PROVE FALSE
  OBVIOUS
<1>1. PICK D : D = {d \in Nat : d <= N /\ N - d >= 1 /\ N - d \notin T}
  OBVIOUS
<1>2. N - i \in D /\ D \in SUBSET Nat
  BY <1>1
<1>3. PICK d \in D : \A e \in D : d <= e
  BY <1>2, SmallestOf
<1>4. PICK k \in 1 .. N : k = N - d /\ k \notin T
  BY <1>1, <1>3
<1>5. ASSUME NEW j \in k + 1 .. N, j \notin T PROVE FALSE
  <2>1. N - j \in D /\ N - j < d
    BY <1>1, <1>4, <1>5
  <2> QED BY <1>1, <1>3, <2>1
<1> QED BY <1>4, <1>5
----------------------------------------------------------------------------
(* HttpResponse's Lua tables.                                              *)

Tokens == {"open", "close", "comma", "key", "value"}

Last(s) == s[Len(s)]

Count(s, t) == Cardinality({i \in DOMAIN s : s[i] = t})

Linked(s) == \A i \in 1 .. Len(s) - 1 : s[i + 1] \in Follows[s[i]]

Grown(s) == s \in Seq(Tokens) /\ Linked(s)

(***************************************************************************)
(* The last token says where the handler is, and the counts go with it: a  *)
(* field of every outer table is under way, so that its count is not zero, *)
(* and the top is zero exactly while nothing follows the table's brace.    *)
(***************************************************************************)
LastToken(s, counts, k) ==
    /\ \A i \in 2 .. Len(counts) : counts[i] > 0
    /\ counts = << >> => k = FALSE /\ (s = << >> \/ Last(s) = "close")
    /\ counts # << >> => s # << >>
    /\ counts # << >> /\ k = TRUE => counts[1] > 0 /\ Last(s) \in {"open", "comma", "key"}
    /\ counts # << >> /\ k = FALSE /\ counts[1] > 0 => Last(s) \in {"close", "value"}
    /\ counts # << >> /\ k = FALSE /\ counts[1] = 0 => Last(s) = "open"

Paired == Count(text, "open") = Count(text, "close") + Len(m_LuaTableKeyCount)

TableInv ==
    /\ Grown(text) /\ m_LuaTableKeyCount \in Seq(Nat) /\ keyed \in BOOLEAN
    /\ LastToken(text, m_LuaTableKeyCount, keyed)
    /\ Paired

LEMMA GrownByOne ==
    ASSUME NEW s, Grown(s), NEW t \in Tokens, s = << >> \/ t \in Follows[Last(s)]
    PROVE  /\ Grown(Append(s, t)) /\ Append(s, t) # << >> /\ Last(Append(s, t)) = t
           /\ Count(Append(s, t), t) = Count(s, t) + 1
           /\ \A u \in Tokens \ {t} : Count(Append(s, t), u) = Count(s, u)
<1>1. s \in Seq(Tokens) /\ Linked(s)
  BY DEF Grown
<1>2. PICK n \in Nat : n = Len(s) /\ DOMAIN s = 1 .. n /\ (s = << >> => n = 0)
  BY <1>1
<1>3. PICK r \in Seq(Tokens) : r = Append(s, t)
  BY <1>1, AppendProperties
<1>4. /\ r # << >> /\ Len(r) = n + 1 /\ DOMAIN r = 1 .. n + 1
      /\ (\A i \in 1 .. n : r[i] = s[i]) /\ r[n + 1] = t
  BY <1>1, <1>2, <1>3, AppendProperties
<1>5. Linked(r)
  <2> SUFFICES ASSUME NEW i \in 1 .. n PROVE r[i + 1] \in Follows[r[i]]
    BY <1>4 DEF Linked
  <2>1. CASE i < n
    BY <1>1, <1>2, <1>4, <2>1 DEF Linked
  <2>2. CASE i = n
    BY <1>2, <1>4, <2>2 DEF Last
  <2> QED BY <2>1, <2>2
<1>6. ASSUME NEW u \in Tokens
      PROVE  Count(r, u) = Count(s, u) + (IF u = t THEN 1 ELSE 0)
  <2>1. PICK S : S = {i \in 1 .. n : s[i] = u}
    OBVIOUS
  <2>2. IsFiniteSet(S) /\ Cardinality(S) \in Nat /\ n + 1 \notin S /\ Count(s, u) = Cardinality(S)
    <3>1. IsFiniteSet(1 .. n) /\ S \in SUBSET (1 .. n)
      BY <2>1, FS_Interval
    <3>2. IsFiniteSet(S) /\ Cardinality(S) \in Nat
      BY <3>1, FS_Subset, FS_CardinalityType
    <3> QED BY <1>2, <2>1, <3>2 DEF Count
  <2>3. CASE u = t
    <3>1. {i \in DOMAIN r : r[i] = u} = S \cup {n + 1}
      BY <1>4, <2>1, <2>3
    <3>2. Cardinality(S \cup {n + 1}) = Cardinality(S) + 1
      BY <2>2, FS_AddElement
    <3>3. Count(r, u) = Cardinality(S) + 1
      BY <3>1, <3>2 DEF Count
    <3> QED BY <2>2, <2>3, <3>3
  <2>4. CASE u # t
    <3>1. {i \in DOMAIN r : r[i] = u} = S
      BY <1>4, <2>1, <2>4
    <3>2. Count(r, u) = Cardinality(S)
      BY <3>1 DEF Count
    <3> QED BY <2>2, <2>4, <3>2
  <2> QED BY <2>3, <2>4
<1>7. ASSUME NEW u \in Tokens PROVE Count(s, u) \in Nat
  <2>1. IsFiniteSet(1 .. n) /\ {i \in DOMAIN s : s[i] = u} \in SUBSET (1 .. n)
    BY <1>2, FS_Interval
  <2> QED BY <2>1, FS_Subset, FS_CardinalityType DEF Count
<1> QED BY <1>3, <1>4, <1>5, <1>6, <1>7 DEF Grown, Last

LEMMA TableInit == TextInit => TableInv
<1> SUFFICES ASSUME TextInit PROVE TableInv
  OBVIOUS
<1>1. text = << >> /\ m_LuaTableKeyCount = << >> /\ keyed = FALSE
  BY DEF TextInit
<1>2. Grown(text)
  BY <1>1 DEF Grown, Linked
<1>5. LastToken(<< >>, << >>, FALSE)
  <2>1. << >> \in Seq(Nat) /\ Len(<< >>) = 0
    OBVIOUS
  <2> QED BY <2>1 DEF LastToken
<1>3. {i \in DOMAIN text : text[i] = "open"} = {} /\ {i \in DOMAIN text : text[i] = "close"} = {}
  BY <1>1
<1>4. Paired
  BY <1>1, <1>3, FS_EmptySet DEF Paired, Count
<1>6. << >> \in Seq(Nat)
  OBVIOUS
<1> QED BY <1>1, <1>2, <1>4, <1>5, <1>6 DEF TableInv

LEMMA CountsNat ==
    ASSUME NEW s \in Seq(Tokens), NEW u
    PROVE  Count(s, u) \in Nat
<1>1. IsFiniteSet(1 .. Len(s)) /\ {i \in DOMAIN s : s[i] = u} \in SUBSET (1 .. Len(s))
  BY FS_Interval
<1> QED BY <1>1, FS_Subset, FS_CardinalityType DEF Count

LEMMA TokenAppended ==
    ASSUME NEW s \in Seq(Tokens)
    PROVE  s \o << >> = s /\ \A t \in Tokens : s \o << t >> = Append(s, t)
  OBVIOUS

\* AddLuaKeyCount, BeginLuaTable and EndLuaTable on the stack.
LEMMA Stack ==
    ASSUME NEW c \in Seq(Nat)
    PROVE  /\ << 0 >> \o c \in Seq(Nat) /\ Len(<< 0 >> \o c) = Len(c) + 1 /\ (<< 0 >> \o c)[1] = 0
           /\ \A i \in 1 .. Len(c) : (<< 0 >> \o c)[i + 1] = c[i]
           /\ c # << >> =>
                /\ Len(c) > 0 /\ c[1] \in Nat /\ Head(c) = c[1]
                /\ Tail(c) \in Seq(Nat) /\ Len(Tail(c)) = Len(c) - 1
                /\ \A i \in 1 .. Len(c) - 1 : Tail(c)[i] = c[i + 1]
<1>1. << 0 >> \in Seq(Nat) /\ Len(<< 0 >>) = 1 /\ << 0 >>[1] = 0
  OBVIOUS
<1>2. PICK d \in Seq(Nat) : d = << 0 >> \o c
  BY <1>1, ConcatProperties
<1>3. Len(d) = Len(c) + 1 /\ \A i \in 1 .. Len(c) + 1 : d[i] = IF i <= 1 THEN << 0 >>[i] ELSE c[i - 1]
  BY <1>1, <1>2, ConcatProperties
<1>4. d[1] = 0 /\ \A i \in 1 .. Len(c) : d[i + 1] = c[i]
  BY <1>1, <1>3
<1> QED BY <1>2, <1>3, <1>4

LEMMA Raised ==
    ASSUME NEW c \in Seq(Nat), c # << >>
    PROVE  /\ << Head(c) + 1 >> \o Tail(c) \in Seq(Nat) /\ Len(<< Head(c) + 1 >> \o Tail(c)) = Len(c)
           /\ (<< Head(c) + 1 >> \o Tail(c))[1] = c[1] + 1
           /\ \A i \in 2 .. Len(c) : (<< Head(c) + 1 >> \o Tail(c))[i] = c[i]
<1>1. PICK h \in Seq(Nat) : h = << Head(c) + 1 >> /\ Len(h) = 1 /\ h[1] = c[1] + 1
  <2>1. PICK x \in Nat : x = Head(c) + 1 /\ x = c[1] + 1
    BY Stack
  <2>2. << x >> \in Seq(Nat) /\ Len(<< x >>) = 1 /\ << x >>[1] = x
    OBVIOUS
  <2> QED BY <2>1, <2>2
<1>2. PICK t \in Seq(Nat) : t = Tail(c) /\ Len(t) = Len(c) - 1 /\ \A i \in 1 .. Len(c) - 1 : t[i] = c[i + 1]
  BY Stack
<1>3. PICK d \in Seq(Nat) : d = h \o t
  BY ConcatProperties
<1>4. Len(d) = Len(c) /\ \A i \in 1 .. Len(c) : d[i] = IF i <= 1 THEN h[i] ELSE t[i - 1]
  BY <1>1, <1>2, <1>3, ConcatProperties
<1>5. d[1] = c[1] + 1 /\ \A i \in 2 .. Len(c) : d[i] = c[i]
  BY <1>1, <1>2, <1>4, Stack
<1> QED BY <1>1, <1>2, <1>3, <1>4, <1>5

LEMMA TableNext == TableInv /\ [TextNext]_textVars => TableInv'
<1> SUFFICES ASSUME TableInv, [TextNext]_textVars PROVE TableInv'
  OBVIOUS
<1>1. Grown(text) /\ text \in Seq(Tokens) /\ Paired
  BY DEF TableInv, Grown
<1>2. PICK c \in Seq(Nat), k \in BOOLEAN :
        /\ c = m_LuaTableKeyCount /\ k = keyed /\ (InTable <=> c # << >>)
        /\ LastToken(text, c, k)
  BY DEF TableInv, InTable
<1>3. Count(text, "open") \in Nat /\ Count(text, "close") \in Nat
  BY <1>1, CountsNat
<1>4. c # << >> => Len(c) > 0 /\ c[1] \in Nat /\ Head(c) = c[1]
  BY Stack
<1> DEFINE Same(s) == Count(s, "open") = Count(text, "open") /\ Count(s, "close") = Count(text, "close")
<1>5. CASE UNCHANGED tableVars
  BY <1>5 DEF tableVars, TableInv, Paired
<1>6. ASSUME NEW key \in {<< >>, << "key" >>}, AddLuaKey(key) PROVE TableInv'
  <2>1. c # << >> /\ k = FALSE /\ keyed' = TRUE
    BY <1>2, <1>6 DEF AddLuaKey
  <2>2. PICK d \in Seq(Nat) : /\ d = m_LuaTableKeyCount' /\ Len(d) = Len(c) /\ d[1] = c[1] + 1
                              /\ \A i \in 2 .. Len(c) : d[i] = c[i]
    BY <1>2, <1>6, <2>1, Raised DEF AddLuaKey, AddLuaKeyCount
  <2>3. PICK s : s = text \o Comma
    OBVIOUS
  <2>4. Grown(s) /\ s # << >> /\ Last(s) \in {"open", "comma"} /\ Same(s)
    <3>1. CASE c[1] > 0
      <4>1. Last(text) \in {"close", "value"}
        BY <1>2, <2>1, <3>1 DEF LastToken
      <4>2. Comma = << "comma" >>
        BY <1>2, <1>4, <2>1, <3>1 DEF Comma
      <4>3. s = Append(text, "comma")
        BY <1>1, <2>3, <4>2, TokenAppended DEF Tokens
      <4>4. "comma" \in Follows[Last(text)] /\ "comma" \in Tokens
        BY <4>1 DEF Follows, Tokens
      <4>5. "open" \in Tokens \ {"comma"} /\ "close" \in Tokens \ {"comma"}
        BY DEF Tokens
      <4> QED BY <1>1, <4>3, <4>4, <4>5, GrownByOne
    <3>2. CASE c[1] = 0
      <4>1. Last(text) = "open" /\ text # << >>
        BY <1>2, <2>1, <3>2 DEF LastToken
      <4>2. Comma = << >>
        BY <1>2, <1>4, <2>1, <3>2 DEF Comma
      <4>3. s = text
        BY <1>1, <2>3, <4>2, TokenAppended
      <4> QED BY <1>1, <4>1, <4>3
    <3> QED BY <1>4, <2>1, <3>1, <3>2
  <2>5. Grown(text') /\ text' # << >> /\ Last(text') \in {"open", "comma", "key"} /\ Same(text')
    <3>1. text' = s \o key /\ s \in Seq(Tokens)
      BY <1>6, <2>3, <2>4 DEF AddLuaKey, Grown
    <3>2. CASE key = << >>
      <4>1. text' = s
        BY <3>1, <3>2, TokenAppended
      <4> QED BY <2>4, <4>1
    <3>3. CASE key = << "key" >>
      <4>1. text' = Append(s, "key")
        BY <3>1, <3>3, TokenAppended DEF Tokens
      <4>2. "key" \in Follows[Last(s)] /\ "key" \in Tokens
        BY <2>4 DEF Follows, Tokens
      <4>3. "open" \in Tokens \ {"key"} /\ "close" \in Tokens \ {"key"}
        BY DEF Tokens
      <4> QED BY <2>4, <4>1, <4>2, <4>3, GrownByOne
    <3> QED BY <3>2, <3>3
  <2>6. LastToken(text', d, TRUE)
    <3>1. d # << >> /\ d[1] > 0
      BY <1>4, <2>1, <2>2
    <3>2. \A i \in 2 .. Len(d) : d[i] > 0
      BY <1>2, <2>2 DEF LastToken
    <3> QED BY <2>5, <3>1, <3>2 DEF LastToken
  <2>7. Paired'
    BY <1>1, <1>2, <2>2, <2>5 DEF Paired
  <2> QED BY <2>1, <2>2, <2>5, <2>6, <2>7 DEF TableInv
<1>7. CASE AddValue
  <2>1. k = TRUE /\ keyed' = FALSE /\ text' = Append(text, "value") /\ m_LuaTableKeyCount' = c
    BY <1>2, <1>7 DEF AddValue
  <2>2. c # << >> /\ c[1] > 0 /\ Last(text) \in {"open", "comma", "key"}
    BY <1>2, <2>1 DEF LastToken
  <2>3. "value" \in Follows[Last(text)] /\ "value" \in Tokens
    BY <2>2 DEF Follows, Tokens
  <2>4. Grown(text') /\ text' # << >> /\ Last(text') = "value" /\ Same(text')
    <3>1. "open" \in Tokens \ {"value"} /\ "close" \in Tokens \ {"value"}
      BY DEF Tokens
    <3> QED BY <1>1, <2>1, <2>3, <3>1, GrownByOne
  <2>5. LastToken(text', c, FALSE)
    BY <1>2, <2>2, <2>4 DEF LastToken
  <2>6. Paired'
    BY <1>1, <1>2, <2>1, <2>4 DEF Paired
  <2> QED BY <2>1, <2>4, <2>5, <2>6 DEF TableInv
<1>8. CASE BeginLuaTable
  <2>1. keyed' = FALSE /\ text' = Append(text, "open") /\ m_LuaTableKeyCount' = << 0 >> \o c
    BY <1>2, <1>8 DEF BeginLuaTable
  <2>2. (c # << >> /\ k = TRUE) \/ (c = << >> /\ text = << >>)
    BY <1>2, <1>8 DEF BeginLuaTable
  <2>3. PICK d \in Seq(Nat) : /\ d = m_LuaTableKeyCount' /\ Len(d) = Len(c) + 1 /\ d[1] = 0
                              /\ \A i \in 1 .. Len(c) : d[i + 1] = c[i]
    BY <2>1, Stack
  <2>4. (text = << >> \/ "open" \in Follows[Last(text)]) /\ "open" \in Tokens
    BY <1>2, <2>2 DEF LastToken, Follows, Tokens
  <2>5. /\ Grown(text') /\ text' # << >> /\ Last(text') = "open"
        /\ Count(text', "open") = Count(text, "open") + 1 /\ Count(text', "close") = Count(text, "close")
    <3>1. "close" \in Tokens \ {"open"}
      BY DEF Tokens
    <3> QED BY <1>1, <2>1, <2>4, <3>1, GrownByOne
  <2>6. LastToken(text', d, FALSE)
    <3>1. ASSUME NEW i \in 2 .. Len(d) PROVE d[i] > 0
      <4>1. PICK j \in 1 .. Len(c) : i = j + 1
        BY <2>3
      <4>2. c # << >> /\ k = TRUE
        BY <2>2, <4>1
      <4>3. c[j] > 0
        BY <1>2, <4>1, <4>2 DEF LastToken
      <4> QED BY <2>3, <4>1, <4>3
    <3>2. d # << >>
      BY <2>3
    <3> QED BY <2>3, <2>5, <3>1, <3>2 DEF LastToken
  <2>7. Paired'
    <3>1. Len(c) \in Nat /\ Len(m_LuaTableKeyCount') = Len(c) + 1
      BY <2>3
    <3> QED BY <1>1, <1>2, <1>3, <2>5, <3>1 DEF Paired
  <2> QED BY <2>1, <2>3, <2>5, <2>6, <2>7 DEF TableInv
<1>9. CASE EndLuaTable
  <2>1. c # << >> /\ k = FALSE /\ keyed' = FALSE /\ text' = Append(text, "close") /\ m_LuaTableKeyCount' = Tail(c)
    BY <1>2, <1>9 DEF EndLuaTable
  <2>2. PICK d \in Seq(Nat) : /\ d = m_LuaTableKeyCount' /\ Len(d) = Len(c) - 1
                              /\ \A i \in 1 .. Len(c) - 1 : d[i] = c[i + 1]
    BY <2>1, Stack
  <2>3. "close" \in Follows[Last(text)] /\ "close" \in Tokens
    <3>1. Last(text) \in {"close", "value", "open"}
      BY <1>2, <1>4, <2>1 DEF LastToken
    <3> QED BY <3>1 DEF Follows, Tokens
  <2>4. /\ Grown(text') /\ text' # << >> /\ Last(text') = "close"
        /\ Count(text', "open") = Count(text, "open") /\ Count(text', "close") = Count(text, "close") + 1
    <3>1. "open" \in Tokens \ {"close"}
      BY DEF Tokens
    <3> QED BY <1>1, <2>1, <2>3, <3>1, GrownByOne
  <2>5. LastToken(text', d, FALSE)
    <3>1. ASSUME NEW i \in 1 .. Len(d) PROVE d[i] > 0
      <4>1. i + 1 \in 2 .. Len(c) /\ d[i] = c[i + 1]
        BY <2>2
      <4> QED BY <1>2, <4>1 DEF LastToken
    <3>2. d # << >> => d[1] > 0
      BY <3>1
    <3> QED BY <2>4, <3>1, <3>2 DEF LastToken
  <2>6. Paired'
    <3>1. Len(c) \in Nat /\ Len(m_LuaTableKeyCount') = Len(c) - 1
      BY <2>2
    <3> QED BY <1>1, <1>2, <1>3, <2>4, <3>1 DEF Paired
  <2> QED BY <2>1, <2>2, <2>4, <2>5, <2>6 DEF TableInv
<1> QED BY <1>5, <1>6, <1>7, <1>8, <1>9 DEF TextNext, NewRequest, GetHttpURI, Receive, textVars, uriVars, tableVars

(***************************************************************************)
(* The text a handler builds with AddLuaKey, AddLuaKeyValue and            *)
(* Begin/EndLuaTable is one Lua can read, for tables of any depth and any  *)
(* number of fields: commas exactly between fields, and no brace left open *)
(* when the outermost table is closed.                                     *)
(***************************************************************************)
THEOREM TablesReadable == TextSpec => []TableReadable
<1>1. TableInv => TableReadable
  <2> SUFFICES ASSUME TableInv PROVE TableReadable
    OBVIOUS
  <2>1. \A i \in 1 .. Len(text) - 1 : text[i + 1] \in Follows[text[i]]
    BY DEF TableInv, Grown, Linked
  <2>2. ~InTable => Count(text, "open") = Count(text, "close")
    <3>1. text \in Seq(Tokens)
      BY DEF TableInv, Grown
    <3>2. Count(text, "open") \in Nat /\ Count(text, "close") \in Nat
      BY <3>1, CountsNat
    <3>3. Len(<< >>) = 0
      OBVIOUS
    <3> QED BY <3>2, <3>3 DEF TableInv, Paired, InTable
  <2> QED BY <2>1, <2>2 DEF TableReadable, Count
<1> QED BY <1>1, TableInit, TableNext, PTL DEF TextSpec
----------------------------------------------------------------------------
(* The parameters of a URI.                                                *)

LEMMA FindIs ==
    ASSUME NEW S, NEW s \in Seq(S), NEW c, NEW i \in 1 .. Len(s) + 1, NEW p \in i .. Len(s) + 1,
           \A j \in i .. p - 1 : s[j] # c, p <= Len(s) => s[p] = c
    PROVE  Find(s, c, i) = p
<1>1. PICK T : T = {j \in i .. Len(s) : s[j] = c} \cup {Len(s) + 1}
  OBVIOUS
<1>2. T \in SUBSET Nat /\ p \in T /\ \A j \in T : p <= j
  BY <1>1
<1>3. \A q \in T : (\A j \in T : q <= j) => q = p
  BY <1>2
<1>4. Find(s, c, i) = CHOOSE x \in T : \A y \in T : x =< y
  BY <1>1 DEF Find, Min
<1>5. PICK q : q = CHOOSE x \in T : \A y \in T : x =< y
  OBVIOUS
<1>6. q \in T /\ \A j \in T : q <= j
  BY <1>2, <1>5, Zenon
<1> QED BY <1>3, <1>4, <1>5, <1>6

LEMMA FindFirst ==
    ASSUME NEW S, NEW s \in Seq(S), NEW c, NEW i \in 1 .. Len(s) + 1
    PROVE  /\ Find(s, c, i) \in i .. Len(s) + 1
           /\ \A j \in i .. Find(s, c, i) - 1 : s[j] # c
           /\ Find(s, c, i) <= Len(s) => s[Find(s, c, i)] = c
<1>1. PICK T : T = {j \in i .. Len(s) : s[j] = c} \cup {Len(s) + 1}
  OBVIOUS
<1>2. T \in SUBSET Nat /\ T # {}
  BY <1>1
<1>3. PICK p \in T : \A j \in T : p <= j
  BY <1>2, SmallestOf
<1>4. /\ p \in i .. Len(s) + 1 /\ (\A j \in i .. p - 1 : s[j] # c)
      /\ p <= Len(s) => s[p] = c
  BY <1>1, <1>3
<1>5. Find(s, c, i) = p
  BY <1>4, FindIs
<1> QED BY <1>4, <1>5

\* A function given by its values further on exists.
GivenBackwards(f, N, A, B, J) == f = [i \in 1 .. N |-> IF J[i] > N THEN A[i] ELSE B[i] \o f[J[i]]]

LEMMA DefinedBackwards ==
    ASSUME NEW N \in Nat, NEW A, NEW B, NEW J, \A i \in 1 .. N : J[i] \in Nat /\ J[i] > i
    PROVE  \E f : GivenBackwards(f, N, A, B, J)
<1> DEFINE Good(k, f) == f = [i \in k .. N |-> IF J[i] > N THEN A[i] ELSE B[i] \o f[J[i]]]
<1>1. PICK T : T = {k \in 1 .. N + 1 : \E f : Good(k, f)}
  OBVIOUS
<1>2. N + 1 \in T
  <2>1. PICK f : f = [i \in N + 1 .. N |-> A[i]]
    OBVIOUS
  <2>2. N + 1 .. N = {}
    OBVIOUS
  <2>3. Good(N + 1, f)
    BY <2>1, <2>2
  <2>4. \E g : Good(N + 1, g)
    BY <2>3, Zenon
  <2>5. N + 1 \in 1 .. N + 1
    OBVIOUS
  <2> HIDE DEF Good
  <2> QED BY <1>1, <2>4, <2>5
<1>3. ASSUME NEW k \in 1 .. N, k + 1 \in T PROVE k \in T
  <2>1. PICK f : Good(k + 1, f)
    BY <1>1, <1>3
  <2>2. \A i \in k + 1 .. N : f[i] = IF J[i] > N THEN A[i] ELSE B[i] \o f[J[i]]
    BY <2>1
  <2>3. PICK g : g = [i \in k .. N |-> IF i = k THEN IF J[k] > N THEN A[k] ELSE B[k] \o f[J[k]] ELSE f[i]]
    OBVIOUS
  <2>4. \A i \in k + 1 .. N : g[i] = f[i]
    BY <2>3
  <2>5. ASSUME NEW i \in k .. N PROVE g[i] = IF J[i] > N THEN A[i] ELSE B[i] \o g[J[i]]
    <3>1. ~(J[i] > N) => g[J[i]] = f[J[i]]
      BY <2>4
    <3>2. CASE i = k
      BY <2>3, <3>1, <3>2
    <3>3. CASE i # k
      BY <2>2, <2>3, <3>1, <3>3
    <3> QED BY <3>2, <3>3
  <2>6. Good(k, g)
    BY <2>3, <2>5
  <2>7. \E h : Good(k, h)
    BY <2>6, Zenon
  <2>8. k \in 1 .. N + 1
    OBVIOUS
  <2> HIDE DEF Good
  <2> QED BY <1>1, <2>7, <2>8
<1>4. \A k \in 1 .. N : k \in T
  <2>1. ASSUME NEW k \in 1 .. N, \A j \in k + 1 .. N : j \in T PROVE k \in T
    <3>1. k + 1 \in T
      BY <1>2, <2>1
    <3> QED BY <1>3, <3>1
  <2> QED BY <2>1, Backwards
<1>5. 1 \in T
  BY <1>2, <1>4
<1>6. PICK f : Good(1, f)
  BY <1>1, <1>5
<1>7. GivenBackwards(f, N, A, B, J)
  BY <1>6, Zenon DEF GivenBackwards
<1> QED BY <1>7, Zenon

\* StringUtil::Split from position i on, f the pieces from the positions behind it.
PiecesAt(s, c, f, i) ==
    IF Find(s, c, i) > Len(s) THEN << SubSeq(s, i, Len(s)) >>
    ELSE << SubSeq(s, i, Find(s, c, i) - 1) >> \o f[Find(s, c, i) + 1]

LEMMA PiecesExist ==
    ASSUME NEW S, NEW s \in Seq(S), NEW c
    PROVE  \E f : f = [i \in 1 .. Len(s) + 1 |-> PiecesAt(s, c, f, i)]
<1>1. PICK A : A = [i \in 1 .. Len(s) + 1 |-> << SubSeq(s, i, Len(s)) >>]
  OBVIOUS
<1>2. PICK B : B = [i \in 1 .. Len(s) + 1 |-> << SubSeq(s, i, Find(s, c, i) - 1) >>]
  OBVIOUS
<1>3. PICK J : J = [i \in 1 .. Len(s) + 1 |-> Find(s, c, i) + 1]
  OBVIOUS
<1>4. PICK N : N = Len(s) + 1 /\ N \in Nat
  OBVIOUS
<1>5. \A i \in 1 .. N : J[i] \in Nat /\ J[i] > i /\ (J[i] > N <=> Find(s, c, i) > Len(s))
  BY <1>3, <1>4, FindFirst
<1>6. \A i \in 1 .. N : J[i] \in Nat /\ J[i] > i
  BY <1>5
<1>7. PICK f : GivenBackwards(f, N, A, B, J)
  BY <1>4, <1>6, DefinedBackwards
<1>8. f = [i \in 1 .. N |-> IF J[i] > N THEN A[i] ELSE B[i] \o f[J[i]]]
  BY <1>7, Zenon DEF GivenBackwards
<1>9. \A i \in 1 .. N : (IF J[i] > N THEN A[i] ELSE B[i] \o f[J[i]]) = PiecesAt(s, c, f, i)
  BY <1>1, <1>2, <1>3, <1>4, <1>5 DEF PiecesAt
<1>10. f = [i \in 1 .. Len(s) + 1 |-> PiecesAt(s, c, f, i)]
  BY <1>4, <1>8, <1>9, Zenon
<1> QED BY <1>10, Zenon

LEMMA PiecesDef ==
    ASSUME NEW S, NEW s \in Seq(S), NEW c
    PROVE  \A i \in 1 .. Len(s) + 1 : Pieces(s, c)[i] = PiecesAt(s, c, Pieces(s, c), i)
<1>1. Pieces(s, c) = CHOOSE f : f = [i \in 1 .. Len(s) + 1 |-> PiecesAt(s, c, f, i)]
  BY Zenon DEF Pieces, PiecesAt
<1>2. Pieces(s, c) = [i \in 1 .. Len(s) + 1 |-> PiecesAt(s, c, Pieces(s, c), i)]
  BY <1>1, PiecesExist, Zenon
<1> QED BY <1>2, Zenon

\* The pieces from position i on: there is no separator any more, or the first one is at p.
LEMMA LastPiece ==
    ASSUME NEW S, NEW s \in Seq(S), NEW c, NEW i \in 1 .. Len(s) + 1,
           \A j \in i .. Len(s) : s[j] # c
    PROVE  Pieces(s, c)[i] = << SubSeq(s, i, Len(s)) >>
<1>1. Find(s, c, i) = Len(s) + 1
  BY FindIs
<1>2. Find(s, c, i) > Len(s)
  BY <1>1
<1>3. Pieces(s, c)[i] = PiecesAt(s, c, Pieces(s, c), i)
  BY PiecesDef
<1> QED BY <1>2, <1>3, Zenon DEF PiecesAt

FirstAt(s, c, i, p) ==
    i \in 1 .. Len(s) /\ p \in i .. Len(s) /\ s[p] = c /\ \A j \in i .. p - 1 : s[j] # c

CutAt(s, c, i, p) == Pieces(s, c)[i] = << SubSeq(s, i, p - 1) >> \o Pieces(s, c)[p + 1]

LEMMA FirstPiece ==
    ASSUME NEW S, NEW s \in Seq(S), NEW c, NEW i, NEW p, FirstAt(s, c, i, p)
    PROVE  CutAt(s, c, i, p)
<1> i \in 1 .. Len(s) /\ p \in i .. Len(s) /\ s[p] = c /\ \A j \in i .. p - 1 : s[j] # c
  BY DEF FirstAt
<1>1. Find(s, c, i) = p
  BY FindIs
<1>2. ~(p > Len(s))
  OBVIOUS
<1>3. Pieces(s, c)[i] = PiecesAt(s, c, Pieces(s, c), i)
  <2>1. i \in 1 .. Len(s) + 1
    OBVIOUS
  <2> QED BY <2>1, PiecesDef
<1> QED BY <1>1, <1>2, <1>3, Zenon DEF PiecesAt, CutAt

\* What is left of s between i and j.
PartOf(s, i, j, x) ==
    /\ x = SubSeq(s, i, j) /\ Len(x) = j - i + 1
    /\ \A k \in 1 .. j - i + 1 : x[k] = s[i + k - 1]

LEMMA Part ==
    ASSUME NEW S, NEW s \in Seq(S), NEW i \in 1 .. Len(s) + 1, NEW j \in i - 1 .. Len(s)
    PROVE  \E x \in Seq(S) : PartOf(s, i, j, x)
<1>1. SubSeq(s, i, j) = [k \in 1 .. j - i + 1 |-> s[i + k - 1]]
  OBVIOUS
<1>2. \A k \in 1 .. j - i + 1 : s[i + k - 1] \in S
  OBVIOUS
<1>3. PICK x : x = [k \in 1 .. j - i + 1 |-> s[i + k - 1]]
  OBVIOUS
<1>4. j - i + 1 \in Nat
  OBVIOUS
<1>5. x \in Seq(S) /\ Len(x) = j - i + 1
  BY <1>2, <1>3, <1>4
<1>6. PartOf(s, i, j, x)
  BY <1>1, <1>3, <1>5 DEF PartOf
<1> QED BY <1>5, <1>6

LEMMA PiecesType ==
    ASSUME NEW S, NEW s \in Seq(S), NEW c, NEW i \in 1 .. Len(s) + 1
    PROVE  Pieces(s, c)[i] \in Seq(Seq(S))
<1>1. PICK N : N = Len(s) + 1 /\ N \in Nat
  OBVIOUS
<1>2. PICK T : T = {k \in 1 .. N : Pieces(s, c)[k] \in Seq(Seq(S))}
  OBVIOUS
<1>3. ASSUME NEW k \in 1 .. N, \A j \in k + 1 .. N : j \in T PROVE k \in T
  <2>1. CASE \A j \in k .. Len(s) : s[j] # c
    <3>0. PICK x \in Seq(S) : PartOf(s, k, Len(s), x)
      <4>1. k \in 1 .. Len(s) + 1 /\ Len(s) \in k - 1 .. Len(s)
        BY <1>1
      <4> QED BY <4>1, Part
    <3>1. x = SubSeq(s, k, Len(s))
      BY <3>0, Zenon DEF PartOf
    <3>2. Pieces(s, c)[k] = << x >>
      BY <1>1, <2>1, <3>1, LastPiece
    <3>3. << x >> \in Seq(Seq(S))
      OBVIOUS
    <3> QED BY <1>2, <3>2, <3>3
  <2>2. CASE \E j \in k .. Len(s) : s[j] = c
    <3>1. PICK p : p = Find(s, c, k)
      OBVIOUS
    <3>2. p \in k .. Len(s) /\ s[p] = c /\ \A j \in k .. p - 1 : s[j] # c
      BY <1>1, <2>2, <3>1, FindFirst
    <3>0. PICK x \in Seq(S) : PartOf(s, k, p - 1, x)
      <4>1. k \in 1 .. Len(s) + 1 /\ p - 1 \in k - 1 .. Len(s)
        BY <1>1, <3>2
      <4> QED BY <4>1, Part
    <3>3. x = SubSeq(s, k, p - 1)
      BY <3>0, Zenon DEF PartOf
    <3>4. k \in 1 .. Len(s)
      BY <1>1, <3>2
    <3>5. PICK r : r = Pieces(s, c)[p + 1]
      OBVIOUS
    <3>6. Pieces(s, c)[k] = << x >> \o r
      <4>1. FirstAt(s, c, k, p)
        BY <3>2, <3>4 DEF FirstAt
      <4>2. CutAt(s, c, k, p)
        BY <4>1, FirstPiece
      <4> QED BY <3>3, <3>5, <4>2, Zenon DEF CutAt
    <3>7. r \in Seq(Seq(S))
      BY <1>1, <1>2, <1>3, <3>2, <3>5
    <3>8. << x >> \o r \in Seq(Seq(S))
      BY <3>7
    <3> QED BY <1>2, <3>6, <3>8
  <2> QED BY <2>1, <2>2
<1>4. \A k \in 1 .. N : k \in T
  BY <1>1, <1>3, Backwards
<1> QED BY <1>1, <1>2, <1>4

\* What t holds between i and j is x.
LEMMA PartIs ==
    ASSUME NEW S, NEW t \in Seq(S), NEW x \in Seq(S), NEW i \in 1 .. Len(t) + 1,
           NEW j \in i - 1 .. Len(t), Len(x) = j - i + 1,
           \A k \in 1 .. Len(x) : x[k] = t[i + k - 1]
    PROVE  SubSeq(t, i, j) = x
<1>0. PICK y \in Seq(S) : PartOf(t, i, j, y)
  BY Part
<1>1. /\ y = SubSeq(t, i, j) /\ Len(y) = j - i + 1
      /\ \A k \in 1 .. j - i + 1 : y[k] = t[i + k - 1]
  BY <1>0 DEF PartOf
<1>2. Len(x) = Len(y) /\ \A k \in 1 .. Len(x) : x[k] = y[k]
  BY <1>1
<1>3. x = y
  BY <1>2, SeqEqual
<1> QED BY <1>1, <1>3

\* Two strings with a character between them.
JoinOf(s, c, x, t, n) ==
    /\ Len(t) = n + 1 + Len(x)
    /\ \A j \in 1 .. n : t[j] = s[j]
    /\ t[n + 1] = c
    /\ \A j \in 1 .. Len(x) : t[n + 1 + j] = x[j]

LEMMA JoinType ==
    ASSUME NEW S, NEW s \in Seq(S), NEW c \in S, NEW x \in Seq(S)
    PROVE  s \o << c >> \o x \in Seq(S)
<1>1. << c >> \in Seq(S)
  OBVIOUS
<1>2. PICK d \in Seq(S) : d = << c >>
  BY <1>1
<1>3. s \o d \o x \in Seq(S)
  OBVIOUS
<1> QED BY <1>2, <1>3

OneMore(s, c, u, n) ==
    /\ u = s \o << c >> /\ n \in Nat /\ Len(u) = n + 1
    /\ (\A j \in 1 .. n : u[j] = s[j]) /\ u[n + 1] = c

LEMMA JoinOne ==
    ASSUME NEW S, NEW s \in Seq(S), NEW c \in S, NEW n, n = Len(s)
    PROVE  \E u \in Seq(S) : OneMore(s, c, u, n)
<1>1. PICK u : u = Append(s, c)
  OBVIOUS
<1>2. u \in Seq(S) /\ n \in Nat /\ Len(u) = n + 1
  BY <1>1
<1>3. (\A j \in 1 .. n : u[j] = s[j]) /\ u[n + 1] = c
  BY <1>1
<1>4. u = s \o << c >>
  BY <1>1
<1> QED BY <1>2, <1>3, <1>4 DEF OneMore

LEMMA Join ==
    ASSUME NEW S, NEW s \in Seq(S), NEW c \in S, NEW x \in Seq(S),
           NEW t, t = s \o << c >> \o x, NEW n, n = Len(s)
    PROVE  JoinOf(s, c, x, t, n)
<1>1. PICK u \in Seq(S) : OneMore(s, c, u, n)
  BY JoinOne
<1>2. /\ u = s \o << c >> /\ n \in Nat /\ Len(u) = n + 1
      /\ (\A j \in 1 .. n : u[j] = s[j]) /\ u[n + 1] = c
  BY <1>1, Zenon DEF OneMore
<1>3. t = u \o x
  BY <1>2, Zenon
<1>4. Len(t) = n + 1 + Len(x) /\ \A j \in 1 .. Len(t) : t[j] = IF j <= Len(u) THEN u[j] ELSE x[j - Len(u)]
  <2>1. /\ Len(u \o x) = Len(u) + Len(x)
        /\ \A j \in 1 .. Len(u) + Len(x) : (u \o x)[j] = IF j <= Len(u) THEN u[j] ELSE x[j - Len(u)]
    BY ConcatProperties, Zenon
  <2> QED BY <1>2, <1>3, <2>1, Zenon
<1>5. \A j \in 1 .. n + 1 : t[j] = u[j]
  BY <1>4, <1>2
<1>6. \A j \in 1 .. Len(x) : t[n + 1 + j] = x[j]
  BY <1>2, <1>4
<1> QED BY <1>2, <1>4, <1>5, <1>6 DEF JoinOf

Without(s, c) == \A j \in 1 .. Len(s) : s[j] # c

\* StringUtil::Split finds what was joined by the separator.
LEMMA SplitAppended ==
    ASSUME NEW S, NEW s \in Seq(S), s # << >>, NEW c \in S, NEW item \in Seq(S),
           Without(item, c)
    PROVE  Split(s \o << c >> \o item, c) = Append(Split(s, c), item)
<1>1. PICK t : t = s \o << c >> \o item
  OBVIOUS
<1>2. PICK n : n = Len(s)
  OBVIOUS
<1>n. n \in Nat \ {0}
  BY <1>2
<1>x. JoinOf(s, c, item, t, n)
  BY <1>1, <1>2, Join
<1>t. t \in Seq(S)
  BY <1>1, JoinType
<1>l. Len(t) = n + 1 + Len(item) /\ Len(item) \in Nat
  BY <1>x, Zenon, LenProperties DEF JoinOf
<1>s. \A j \in 1 .. n : t[j] = s[j]
  BY <1>x, Zenon DEF JoinOf
<1>c. t[n + 1] = c
  BY <1>x, Zenon DEF JoinOf
<1>i. \A j \in 1 .. Len(item) : t[n + 1 + j] = item[j]
  BY <1>x, Zenon DEF JoinOf
<1>4. Pieces(t, c)[n + 2] = << item >>
  <2>1. PICK i : i = n + 2
    OBVIOUS
  <2>2. i \in 1 .. Len(t) + 1 /\ Len(t) \in i - 1 .. Len(t) /\ Len(item) = Len(t) - i + 1
    BY <1>n, <1>l, <2>1
  <2>3. \A k \in 1 .. Len(item) : item[k] = t[i + k - 1]
    BY <1>n, <1>l, <1>i, <2>1
  <2>4. SubSeq(t, i, Len(t)) = item
    BY <1>t, <2>2, <2>3, PartIs
  <2>5. \A j \in i .. Len(t) : t[j] # c
    <3> SUFFICES ASSUME NEW j \in i .. Len(t) PROVE t[j] # c
      OBVIOUS
    <3>1. PICK k \in 1 .. Len(item) : j = n + 1 + k
      BY <1>n, <1>l, <2>1
    <3> QED BY <1>i, <3>1 DEF Without
  <2>6. Pieces(t, c)[i] = << SubSeq(t, i, Len(t)) >>
    BY <1>t, <2>2, <2>5, LastPiece
  <2> QED BY <2>1, <2>4, <2>6
<1>5. PICK N : N = n + 1 /\ N \in Nat
  BY <1>n
<1>6. PICK T : T = {k \in 1 .. N : Pieces(t, c)[k] = Pieces(s, c)[k] \o << item >>}
  OBVIOUS
<1>7. ASSUME NEW k \in 1 .. N, \A j \in k + 1 .. N : j \in T PROVE k \in T
  <2>1. CASE \A j \in k .. n : s[j] # c
    <3>0. PICK x \in Seq(S) : PartOf(s, k, n, x)
      <4>1. k \in 1 .. Len(s) + 1 /\ n \in k - 1 .. Len(s)
        BY <1>2, <1>n, <1>5
      <4> QED BY <4>1, Part
    <3>1. /\ x = SubSeq(s, k, n) /\ Len(x) = n - k + 1
          /\ \A l \in 1 .. n - k + 1 : x[l] = s[k + l - 1]
      BY <3>0 DEF PartOf
    <3>2. Pieces(s, c)[k] = << x >>
      <4>1. Pieces(s, c)[k] = << SubSeq(s, k, Len(s)) >>
        BY <1>2, <1>5, <2>1, LastPiece
      <4> QED BY <1>2, <3>1, <4>1, Zenon
    <3>3. FirstAt(t, c, k, N)
      <4>1. k \in 1 .. Len(t) /\ N \in k .. Len(t) /\ t[N] = c
        BY <1>n, <1>l, <1>c, <1>5
      <4>2. \A j \in k .. N - 1 : t[j] = s[j] /\ s[j] # c
        BY <1>n, <1>s, <1>5, <2>1
      <4> QED BY <4>1, <4>2 DEF FirstAt
    <3>4. SubSeq(t, k, N - 1) = x
      <4>1. /\ k \in 1 .. Len(t) + 1 /\ N - 1 \in k - 1 .. Len(t) /\ Len(x) = (N - 1) - k + 1
            /\ \A l \in 1 .. Len(x) : x[l] = t[k + l - 1]
        BY <1>n, <1>l, <1>s, <1>5, <3>1
      <4> QED BY <1>t, <4>1, PartIs
    <3>5. CutAt(t, c, k, N)
      BY <1>t, <3>3, FirstPiece
    <3>6. N + 1 = n + 2
      BY <1>n, <1>5
    <3>7. Pieces(t, c)[k] = << x >> \o << item >>
      BY <1>4, <3>4, <3>5, <3>6, Zenon DEF CutAt
    <3> QED BY <1>6, <3>2, <3>7
  <2>2. CASE \E j \in k .. n : s[j] = c
    <3>1. PICK p : p = Find(s, c, k)
      OBVIOUS
    <3>2. p \in k .. n /\ s[p] = c /\ \A j \in k .. p - 1 : s[j] # c
      <4>1. k \in 1 .. Len(s) + 1
        BY <1>2, <1>5
      <4>2. /\ p \in k .. Len(s) + 1 /\ (\A j \in k .. p - 1 : s[j] # c)
            /\ p <= Len(s) => s[p] = c
        BY <3>1, <4>1, FindFirst
      <4> QED BY <1>2, <1>n, <2>2, <4>2
    <3>0. PICK x \in Seq(S) : PartOf(s, k, p - 1, x)
      <4>1. k \in 1 .. Len(s) + 1 /\ p - 1 \in k - 1 .. Len(s)
        BY <1>2, <1>n, <1>5, <3>2
      <4> QED BY <4>1, Part
    <3>3. /\ x = SubSeq(s, k, p - 1) /\ Len(x) = (p - 1) - k + 1
          /\ \A l \in 1 .. (p - 1) - k + 1 : x[l] = s[k + l - 1]
      BY <3>0 DEF PartOf
    <3>4. SubSeq(t, k, p - 1) = x
      <4>1. /\ k \in 1 .. Len(t) + 1 /\ p - 1 \in k - 1 .. Len(t) /\ Len(x) = (p - 1) - k + 1
            /\ \A l \in 1 .. Len(x) : x[l] = t[k + l - 1]
        BY <1>n, <1>l, <1>s, <1>5, <3>2, <3>3
      <4> QED BY <1>t, <4>1, PartIs
    <3>5. FirstAt(s, c, k, p) /\ FirstAt(t, c, k, p)
      <4>1. k \in 1 .. n /\ n = Len(s) /\ n <= Len(t)
        BY <1>2, <1>n, <1>l, <1>5, <3>2
      <4>2. t[p] = c /\ \A j \in k .. p - 1 : t[j] # c
        BY <1>n, <1>s, <3>2, <4>1
      <4> QED BY <3>2, <4>1, <4>2 DEF FirstAt
    <3>6. CutAt(s, c, k, p) /\ CutAt(t, c, k, p)
      BY <1>t, <3>5, FirstPiece
    <3>7. PICK r : r = Pieces(s, c)[p + 1]
      OBVIOUS
    <3>8. p + 1 \in k + 1 .. N /\ p + 1 \in 1 .. Len(s) + 1
      BY <1>2, <1>n, <1>5, <3>2
    <3>9. r \in Seq(Seq(S))
      BY <3>7, <3>8, PiecesType
    <3>10. Pieces(t, c)[p + 1] = r \o << item >>
      BY <1>6, <1>7, <3>7, <3>8
    <3>11. Pieces(s, c)[k] = << x >> \o r
      BY <3>3, <3>6, <3>7, Zenon DEF CutAt
    <3>12. Pieces(t, c)[k] = << x >> \o (r \o << item >>)
      BY <3>4, <3>6, <3>10, Zenon DEF CutAt
    <3>13. << x >> \o (r \o << item >>) = (<< x >> \o r) \o << item >>
      BY <3>9
    <3> QED BY <1>6, <3>11, <3>12, <3>13
  <2> QED BY <2>1, <2>2
<1>8. \A k \in 1 .. N : k \in T
  BY <1>5, <1>7, Backwards
<1>9. PICK r : r = Pieces(s, c)[1]
  OBVIOUS
<1>a. 1 \in 1 .. N /\ 1 \in 1 .. Len(s) + 1
  BY <1>2, <1>n, <1>5
<1>b. r \in Seq(Seq(S))
  BY <1>9, <1>a, PiecesType
<1>10. Pieces(t, c)[1] = r \o << item >>
  BY <1>6, <1>8, <1>9, <1>a
<1>11. r \o << item >> = Append(r, item)
  BY <1>b
<1>12. t # << >>
  BY <1>n, <1>l
<1> QED BY <1>1, <1>9, <1>10, <1>11, <1>12, Zenon DEF Split

LEMMA SplitOne ==
    ASSUME NEW S, NEW item \in Seq(S), item # << >>, NEW c, Without(item, c)
    PROVE  Split(item, c) = << item >>
<1>1. 1 \in 1 .. Len(item) + 1
  OBVIOUS
<1>2. Pieces(item, c)[1] = << SubSeq(item, 1, Len(item)) >>
  BY <1>1, LastPiece DEF Without
<1>3. SubSeq(item, 1, Len(item)) = item
  BY SubSeqFull
<1> QED BY <1>2, <1>3, Zenon DEF Split

\* The first separator of a joined string is the one between the two.
Parts(s, c, x, t) ==
    /\ Find(t, c, 1) = Len(s) + 1 /\ Len(s) + 1 <= Len(t)
    /\ SubSeq(t, 1, (Len(s) + 1) - 1) = s
    /\ SubSeq(t, (Len(s) + 1) + 1, Len(t)) = x

LEMMA FindJoined ==
    ASSUME NEW S, NEW s \in Seq(S), NEW c \in S, NEW x \in Seq(S), Without(s, c),
           NEW t \in Seq(S), NEW n, n = Len(s), JoinOf(s, c, x, t, n)
    PROVE  Parts(s, c, x, t)
<1>1. n = Len(s)
  OBVIOUS
<1>2. JoinOf(s, c, x, t, n)
  OBVIOUS
<1>3. t \in Seq(S)
  OBVIOUS
<1>4. n \in Nat /\ Len(t) = n + 1 + Len(x) /\ Len(x) \in Nat
  BY <1>1, <1>2 DEF JoinOf
<1>5. \A j \in 1 .. n : t[j] = s[j]
  BY <1>2, Zenon DEF JoinOf
<1>6. t[n + 1] = c
  BY <1>2, Zenon DEF JoinOf
<1>7. \A j \in 1 .. Len(x) : t[n + 1 + j] = x[j]
  BY <1>2, Zenon DEF JoinOf
<1>8. Find(t, c, 1) = n + 1
  <2>1. 1 \in 1 .. Len(t) + 1 /\ n + 1 \in 1 .. Len(t) + 1
    BY <1>4
  <2>2. \A j \in 1 .. (n + 1) - 1 : t[j] # c
    BY <1>1, <1>4, <1>5 DEF Without
  <2> QED BY <1>3, <1>6, <2>1, <2>2, FindIs
<1>9. SubSeq(t, 1, (n + 1) - 1) = s
  <2>1. PICK j : j = (n + 1) - 1
    OBVIOUS
  <2>2. 1 \in 1 .. Len(t) + 1 /\ j \in 1 - 1 .. Len(t) /\ Len(s) = j - 1 + 1
    BY <1>1, <1>4, <2>1
  <2>3. \A k \in 1 .. Len(s) : s[k] = t[1 + k - 1]
    BY <1>1, <1>4, <1>5
  <2>4. SubSeq(t, 1, j) = s
    BY <1>3, <2>2, <2>3, PartIs, SMTT(30)
  <2> QED BY <2>1, <2>4, Zenon
<1>10. SubSeq(t, (n + 1) + 1, Len(t)) = x
  <2>1. PICK i : i = (n + 1) + 1
    OBVIOUS
  <2>2. i \in 1 .. Len(t) + 1 /\ Len(t) \in i - 1 .. Len(t) /\ Len(x) = Len(t) - i + 1
    BY <1>4, <2>1
  <2>3. \A k \in 1 .. Len(x) : x[k] = t[i + k - 1]
    BY <1>4, <1>7, <2>1
  <2>4. SubSeq(t, i, Len(t)) = x
    BY <1>3, <2>2, <2>3, PartIs, SMTT(30)
  <2> QED BY <2>1, <2>4, Zenon
<1> QED BY <1>1, <1>4, <1>8, <1>9, <1>10 DEF Parts

LEMMA FindBetween ==
    ASSUME NEW S, NEW s \in Seq(S), NEW c \in S, NEW x \in Seq(S), Without(s, c),
           NEW t, t = s \o << c >> \o x
    PROVE  Parts(s, c, x, t)
<1>1. JoinOf(s, c, x, t, Len(s))
  BY Join
<1>2. t \in Seq(S)
  BY JoinType
<1> QED BY <1>1, <1>2, FindJoined

Item(k, q) == k \o << "=" >> \o q[k]

Chars == STRING \cup {"=", "&", "?"}

LEMMA Literals == "=" \in Chars /\ "&" \in Chars /\ "?" \in Chars /\ "=" # "&"
<1>1. "=" # "&"
  OBVIOUS
<1> QED BY <1>1, Zenon DEF Chars

LEMMA StringChars == Seq(STRING) \subseteq Seq(Chars)
<1>1. PICK T : T = STRING
  OBVIOUS
<1>2. PICK C : C = Chars /\ T \subseteq C
  BY <1>1 DEF Chars
<1>3. Seq(T) \subseteq Seq(C)
  BY <1>2
<1> QED BY <1>1, <1>2, <1>3, Zenon

LEMMA ItemRead ==
    ASSUME NEW k \in Seq(Chars), NEW q, q[k] \in Seq(Chars), Without(k, "=")
    PROVE  Key(Item(k, q)) = k /\ ValueOf(Item(k, q)) = q[k]
<1>1. PICK c \in Chars : c = "="
  BY Literals
<1>2. PICK v \in Seq(Chars) : v = q[k]
  OBVIOUS
<1>3. PICK t : t = k \o << c >> \o v
  OBVIOUS
<1>4. Without(k, c)
  BY <1>1, Zenon
<1>a. Parts(k, c, v, t)
  BY <1>3, <1>4, FindBetween
<1>5. /\ Find(t, c, 1) = Len(k) + 1 /\ Len(k) + 1 <= Len(t)
      /\ SubSeq(t, 1, (Len(k) + 1) - 1) = k
      /\ SubSeq(t, (Len(k) + 1) + 1, Len(t)) = v
  BY <1>a, Zenon DEF Parts
<1>6. t = Item(k, q)
  BY <1>1, <1>2, <1>3, Zenon DEF Item
<1>7. ~(Len(k) + 1 > Len(t))
  <2>1. t \in Seq(Chars)
    BY <1>3, JoinType
  <2> QED BY <1>5, <2>1
<1>8. Key(t) = k
  BY <1>1, <1>5, Zenon DEF Key
<1>9. ValueOf(t) = v
  BY <1>1, <1>5, <1>7, Zenon DEF ValueOf
<1> QED BY <1>2, <1>6, <1>8, <1>9

LEMMA ItemWithout ==
    ASSUME NEW k \in Seq(Chars), NEW q, q[k] \in Seq(Chars), Without(k, "&"), Without(q[k], "&")
    PROVE  Item(k, q) \in Seq(Chars) /\ Item(k, q) # << >> /\ Without(Item(k, q), "&")
<1>1. PICK c \in Chars : c = "=" /\ c # "&"
  BY Literals
<1>2. PICK v \in Seq(Chars) : v = q[k]
  OBVIOUS
<1>3. PICK t : t = k \o << c >> \o v
  OBVIOUS
<1>4. PICK d : d = "&"
  OBVIOUS
<1>5. PICK n : n = Len(k)
  OBVIOUS
<1>6. JoinOf(k, c, v, t, n)
  BY <1>3, <1>5, Join
<1>7. t \in Seq(Chars)
  BY <1>3, JoinType
<1>8. Without(k, d) /\ Without(v, d) /\ c # d
  BY <1>1, <1>2, <1>4, Zenon
<1>9. n \in Nat /\ Len(t) = n + 1 + Len(v) /\ Len(v) \in Nat
  BY <1>5, <1>6 DEF JoinOf
<1>10. ASSUME NEW j \in 1 .. Len(t) PROVE t[j] # d
  <2>1. CASE j <= n
    <3>1. t[j] = k[j] /\ j \in 1 .. Len(k)
      BY <1>5, <1>6, <1>9, <2>1 DEF JoinOf
    <3> QED BY <1>8, <3>1 DEF Without
  <2>2. CASE j = n + 1
    BY <1>6, <1>8, <2>2, Zenon DEF JoinOf
  <2>3. CASE j > n + 1
    <3>1. PICK l \in 1 .. Len(v) : j = n + 1 + l
      BY <1>9, <2>3
    <3>2. t[j] = v[l]
      BY <1>6, <3>1, Zenon DEF JoinOf
    <3> QED BY <1>8, <3>1, <3>2 DEF Without
  <2> QED BY <1>9, <2>1, <2>2, <2>3
<1>11. t # << >>
  BY <1>7, <1>9
<1>12. Without(t, d)
  BY <1>10 DEF Without
<1>13. t = Item(k, q)
  BY <1>1, <1>2, <1>3, Zenon DEF Item
<1> QED BY <1>4, <1>7, <1>11, <1>12, <1>13, Zenon

\* The largest number of a set of one.
LEMMA OnlyOne ==
    ASSUME NEW n \in Nat, NEW T, T = {n}
    PROVE  Max(T) = n
<1>1. Max(T) = CHOOSE x \in T : \A y \in T : x >= y
  BY Zenon DEF Max
<1>2. n \in T /\ \A y \in T : n >= y
  OBVIOUS
<1>3. PICK m : m = CHOOSE x \in T : \A y \in T : x >= y
  OBVIOUS
<1>4. m \in T
  BY <1>2, <1>3, Zenon
<1> QED BY <1>1, <1>3, <1>4

\* The keys in the order they were written, each once.
Once(order, K) ==
    /\ order \in Seq(K)
    /\ \A k \in K : \E i \in 1 .. Len(order) : order[i] = k
    /\ \A i, j \in 1 .. Len(order) : order[i] = order[j] => i = j

\* GetHttpParams has the parameters of its items.
LEMMA ItemsRead ==
    ASSUME NEW K \in SUBSET Seq(Chars), NEW q \in [K -> Seq(Chars)],
           \A k \in K : Without(k, "="), NEW order, Once(order, K),
           NEW items, items = [i \in 1 .. Len(order) |-> Item(order[i], q)]
    PROVE  ParamsOf(items) = q
<1>1. PICK n \in Nat : n = Len(order)
  BY DEF Once
<1>2. DOMAIN items = 1 .. n
  BY <1>1
<1>3. ASSUME NEW i \in 1 .. n PROVE order[i] \in K /\ Key(items[i]) = order[i] /\ ValueOf(items[i]) = q[order[i]]
  <2>1. PICK k \in K : k = order[i]
    BY <1>1 DEF Once
  <2>2. items[i] = Item(k, q)
    BY <1>1, <2>1
  <2>3. Key(Item(k, q)) = k /\ ValueOf(Item(k, q)) = q[k]
    <3>1. k \in Seq(Chars) /\ q[k] \in Seq(Chars) /\ Without(k, "=")
      OBVIOUS
    <3> QED BY <3>1, ItemRead
  <2> QED BY <2>1, <2>2, <2>3, Zenon
<1>4. {Key(items[i]) : i \in DOMAIN items} = K
  <2>1. \A k \in K : \E i \in 1 .. n : Key(items[i]) = k
    BY <1>1, <1>3 DEF Once
  <2>2. \A i \in 1 .. n : Key(items[i]) \in K
    BY <1>3
  <2> QED BY <1>2, <2>1, <2>2, Zenon
<1>5. ASSUME NEW k \in K
      PROVE  ValueOf(items[Max({i \in DOMAIN items : Key(items[i]) = k})]) = q[k]
  <2>1. PICK m \in 1 .. n : order[m] = k
    BY <1>1 DEF Once
  <2>2. PICK T : T = {i \in DOMAIN items : Key(items[i]) = k}
    OBVIOUS
  <2>3. \A i \in 1 .. n : Key(items[i]) = k <=> i = m
    BY <1>1, <1>3, <2>1 DEF Once
  <2>4. T = {m}
    BY <1>2, <2>2, <2>3
  <2>5. Max(T) = m
    BY <2>4, OnlyOne
  <2>6. ValueOf(items[m]) = q[k]
    BY <1>3, <2>1
  <2> QED BY <2>2, <2>5, <2>6
<1>6. ParamsOf(items) = [k \in K |-> q[k]]
  BY <1>4, <1>5, Zenon DEF ParamsOf
<1> QED BY <1>6

Associates(a, b, c) == (a \o b) \o c = a \o (b \o c)

LEMMA Assoc ==
    ASSUME NEW S, NEW a \in Seq(S), NEW b \in Seq(S), NEW c \in Seq(S)
    PROVE  Associates(a, b, c)
<1>1. (a \o b) \o c = a \o (b \o c)
  BY SMTT(30)
<1> QED BY <1>1 DEF Associates

Behind(a, b, c, d, e) == (((a \o b) \o c) \o d) \o e = (a \o b) \o ((c \o d) \o e)

LEMMA AssocItem ==
    ASSUME NEW S, NEW a \in Seq(S), NEW b \in Seq(S), NEW c \in Seq(S), NEW d \in Seq(S), NEW e \in Seq(S)
    PROVE  Behind(a, b, c, d, e)
<1>1. a \o b \in Seq(S) /\ c \o d \in Seq(S)
  BY ConcatProperties, Zenon
<1>2. PICK ab : ab = a \o b
  OBVIOUS
<1>3. PICK cd : cd = c \o d
  OBVIOUS
<1>4. ab \in Seq(S) /\ cd \in Seq(S)
  BY <1>1, <1>2, <1>3, Zenon
<1>5. Associates(ab, c, d) /\ Associates(ab, cd, e)
  BY <1>4, Assoc
<1> QED BY <1>2, <1>3, <1>5, Zenon DEF Associates, Behind

LEMMA OneChar ==
    ASSUME NEW c \in Chars
    PROVE  << c >> \in Seq(Chars)
<1>1. PICK S : S = Chars
  OBVIOUS
<1>2. << c >> \in Seq(S)
  BY <1>1
<1> QED BY <1>1, <1>2, Zenon

\* The text ParamsArrive is about: nothing in it looks like a separator where it matters.
Plain(pa, q) ==
    /\ Without(pa, "?")
    /\ \A k \in DOMAIN q : Without(k, "=") /\ Without(k, "&") /\ Without(q[k], "&")

Items(order, q) == [i \in 1 .. Len(order) |-> Item(order[i], q)]

UriTypes(q, pa, l, u) ==
    /\ pa \in Seq(Chars) /\ u \in Seq(Chars) /\ l \subseteq DOMAIN q
    /\ DOMAIN q \subseteq Seq(Chars) /\ q \in [DOMAIN q -> Seq(Chars)]

\* The URI is the path and, behind a "?", the items of the keys in order.
Written(q, pa, l, u, order, rest) ==
    /\ Once(order, DOMAIN q \ l)
    /\ order = << >> => u = pa
    /\ order # << >> =>
         /\ rest \in Seq(Chars) /\ rest # << >>
         /\ u = pa \o << "?" >> \o rest
         /\ Plain(pa, q) => Split(rest, "&") = Items(order, q)

LEMMA OnceMore ==
    ASSUME NEW K, NEW order, Once(order, K), NEW k, k \notin K
    PROVE  Once(Append(order, k), K \cup {k})
<1>1. PICK n \in Nat : n = Len(order)
  BY DEF Once
<1>2. PICK o : o = Append(order, k)
  OBVIOUS
<1>3. PICK L : L = K \cup {k}
  OBVIOUS
<1>4. order \in Seq(K) /\ \A i \in 1 .. n : order[i] \in K
  BY <1>1 DEF Once
<1>5. order \in Seq(L)
  BY <1>3, <1>4
<1>6. o \in Seq(L) /\ Len(o) = n + 1
  BY <1>1, <1>2, <1>3, <1>5
<1>7. (\A i \in 1 .. n : o[i] = order[i]) /\ o[n + 1] = k
  BY <1>1, <1>2, <1>4
<1>8. ASSUME NEW e \in L PROVE \E i \in 1 .. Len(o) : o[i] = e
  <2>1. CASE e = k
    BY <1>6, <1>7, <2>1
  <2>2. CASE e \in K
    <3>1. PICK i \in 1 .. n : order[i] = e
      BY <1>1, <2>2 DEF Once
    <3> QED BY <1>6, <1>7, <3>1
  <2> QED BY <1>3, <2>1, <2>2
<1>9. ASSUME NEW i \in 1 .. Len(o), NEW j \in 1 .. Len(o), o[i] = o[j] PROVE i = j
  <2>1. \A h \in 1 .. Len(o) : h \in 1 .. n \/ h = n + 1
    BY <1>6
  <2>2. CASE i \in 1 .. n /\ j \in 1 .. n
    BY <1>1, <1>7, <1>9, <2>2 DEF Once
  <2>3. CASE i \in 1 .. n /\ j = n + 1
    BY <1>4, <1>7, <1>9, <2>3
  <2>4. CASE j \in 1 .. n /\ i = n + 1
    BY <1>4, <1>7, <1>9, <2>4
  <2> QED BY <2>1, <2>2, <2>3, <2>4
<1> QED BY <1>2, <1>3, <1>6, <1>8, <1>9 DEF Once

LEMMA ItemsMore ==
    ASSUME NEW K, NEW order \in Seq(K), NEW k, NEW q
    PROVE  Append(Items(order, q), Item(k, q)) = Items(Append(order, k), q)
<1>1. PICK n \in Nat : n = Len(order)
  OBVIOUS
<1>2. PICK x : x = Item(k, q)
  OBVIOUS
<1>3. PICK it : it = [i \in 1 .. n |-> Item(order[i], q)]
  OBVIOUS
<1>4. PICK R : R = {it[i] : i \in 1 .. n} \cup {x}
  OBVIOUS
<1>5. it \in Seq(R) /\ Len(it) = n
  BY <1>1, <1>3, <1>4
<1>6. PICK o : o = Append(order, k)
  OBVIOUS
<1>7. Len(o) = n + 1 /\ (\A i \in 1 .. n : o[i] = order[i]) /\ o[n + 1] = k
  BY <1>1, <1>6
<1>8. PICK a : a = Append(it, x)
  OBVIOUS
<1>9. a = [i \in 1 .. n + 1 |-> a[i]] /\ (\A i \in 1 .. n : a[i] = it[i]) /\ a[n + 1] = x
  <2>1. x \in R
    BY <1>4
  <2>2. a \in Seq(R) /\ Len(a) = n + 1
    BY <1>5, <1>8, <2>1
  <2>3. (\A i \in 1 .. n : a[i] = it[i]) /\ a[n + 1] = x
    BY <1>5, <1>8
  <2>4. a = [i \in 1 .. n + 1 |-> a[i]]
    BY <2>2
  <2> QED BY <2>3, <2>4, Zenon
<1>10. \A i \in 1 .. n + 1 : a[i] = Item(o[i], q)
  <2> SUFFICES ASSUME NEW i \in 1 .. n + 1 PROVE a[i] = Item(o[i], q)
    OBVIOUS
  <2>1. CASE i \in 1 .. n
    BY <1>3, <1>7, <1>9, <2>1
  <2>2. CASE i = n + 1
    BY <1>2, <1>7, <1>9, <2>2
  <2> QED BY <2>1, <2>2
<1>11. a = [i \in 1 .. n + 1 |-> Item(o[i], q)]
  BY <1>9, <1>10
<1> QED BY <1>1, <1>2, <1>3, <1>6, <1>7, <1>8, <1>11 DEF Items

\* GetHttpURI writes one more parameter.
LEMMA WrittenMore ==
    ASSUME NEW q, NEW pa, NEW l, NEW u, NEW order, NEW rest, UriTypes(q, pa, l, u),
           Written(q, pa, l, u, order, rest), NEW k \in l,
           NEW v, v = u \o << IF l = DOMAIN q THEN "?" ELSE "&" >> \o k \o << "=" >> \o q[k]
    PROVE  UriTypes(q, pa, l \ {k}, v) /\ \E o, r : Written(q, pa, l \ {k}, v, o, r)
<1>1. pa \in Seq(Chars) /\ u \in Seq(Chars) /\ l \subseteq DOMAIN q /\ k \in DOMAIN q
  BY Zenon DEF UriTypes
<1>2. k \in Seq(Chars) /\ q[k] \in Seq(Chars)
  BY <1>1 DEF UriTypes
<1>3. PICK e \in Seq(Chars) : e = << "=" >>
  BY Literals, OneChar, Zenon
<1>4. PICK c \in Chars : c = IF l = DOMAIN q THEN "?" ELSE "&"
  BY Literals
<1>5. PICK d \in Seq(Chars) : d = << c >>
  BY OneChar, Zenon
<1>6. PICK it : it = Item(k, q)
  OBVIOUS
<1>7. it \in Seq(Chars)
  <2>1. PICK g \in Chars : g = "="
    BY Literals
  <2>2. PICK w \in Seq(Chars) : w = q[k]
    BY <1>2
  <2>3. it = k \o << g >> \o w
    BY <1>6, <2>1, <2>2, Zenon DEF Item
  <2> QED BY <1>2, <2>3, JoinType
<1>8. v = (u \o d) \o it
  <2>1. v = (((u \o d) \o k) \o e) \o q[k]
    BY <1>3, <1>4, <1>5, Zenon
  <2>2. it = (k \o e) \o q[k]
    BY <1>3, <1>6, Zenon DEF Item
  <2>3. PICK w \in Seq(Chars) : w = q[k]
    BY <1>2
  <2>4. Behind(u, d, k, e, w)
    BY <1>1, <1>2, AssocItem
  <2> QED BY <2>1, <2>2, <2>3, <2>4, Zenon DEF Behind
<1>9. v \in Seq(Chars)
  BY <1>1, <1>5, <1>7, <1>8, JoinType
<1>10. UriTypes(q, pa, l \ {k}, v)
  BY <1>1, <1>9 DEF UriTypes
<1>11. PICK o : o = Append(order, k)
  OBVIOUS
<1>12. Once(order, DOMAIN q \ l)
  BY Zenon DEF Written
<1>13. Once(o, DOMAIN q \ (l \ {k}))
  <2>1. k \notin DOMAIN q \ l /\ (DOMAIN q \ l) \cup {k} = DOMAIN q \ (l \ {k})
    BY <1>1
  <2>2. Once(Append(order, k), (DOMAIN q \ l) \cup {k})
    BY <1>12, <2>1, OnceMore
  <2> QED BY <1>11, <2>1, <2>2, Zenon
<1>14. order \in Seq(DOMAIN q \ l) /\ o # << >>
  <2>1. PICK K : K = DOMAIN q \ l
    OBVIOUS
  <2>2. order \in Seq(K)
    BY <1>12, <2>1, Zenon DEF Once
  <2>3. PICK i \in 1 .. Len(o) : o[i] = k
    BY <1>1, <1>13, Zenon DEF Once
  <2>4. o # << >>
    BY <2>3
  <2> QED BY <2>1, <2>2, <2>4, Zenon
<1>15. order = << >> <=> l = DOMAIN q
  <2>1. order = << >> => DOMAIN q \ l = {}
    BY <1>12 DEF Once
  <2>2. order # << >> => order[1] \in DOMAIN q \ l
    BY <1>14
  <2> QED BY <1>1, <2>1, <2>2
<1>16. Plain(pa, q) => it # << >> /\ Without(it, "&")
  <2>1. Plain(pa, q) => Without(k, "&") /\ Without(q[k], "&")
    BY <1>1, Zenon DEF Plain
  <2> QED BY <1>2, <1>6, <2>1, ItemWithout
<1>17. it # << >>
  <2>1. PICK g \in Chars : g = "="
    BY Literals
  <2>2. PICK w \in Seq(Chars) : w = q[k]
    BY <1>2
  <2>3. it = k \o << g >> \o w
    BY <1>6, <2>1, <2>2, Zenon DEF Item
  <2>4. JoinOf(k, g, w, it, Len(k))
    BY <1>2, <2>3, Join
  <2>5. Len(it) = Len(k) + 1 + Len(w)
    BY <2>4, Zenon DEF JoinOf
  <2> QED BY <1>2, <1>7, <2>5
<1>18. CASE order = << >>
  <2>1. u = pa /\ c = "?"
    BY <1>4, <1>15, <1>18, Zenon DEF Written
  <2>2. v = pa \o << "?" >> \o it
    BY <1>5, <1>8, <2>1, Zenon
  <2>3. Plain(pa, q) => Split(it, "&") = << it >>
    BY <1>7, <1>16, SplitOne
  <2>4. Items(o, q) = << it >>
    <3>1. Len(o) = 1 /\ o[1] = k
      BY <1>11, <1>18
    <3>2. Items(o, q) = [i \in 1 .. 1 |-> Item(o[i], q)]
      BY <3>1, Zenon DEF Items
    <3>3. \A i \in 1 .. 1 : Item(o[i], q) = it
      BY <1>6, <3>1
    <3>4. Items(o, q) = [i \in 1 .. 1 |-> it]
      BY <3>2, <3>3, Zenon
    <3> QED BY <3>4
  <2>5. Plain(pa, q) => Split(it, "&") = Items(o, q)
    BY <2>3, <2>4, Zenon
  <2>6. Written(q, pa, l \ {k}, v, o, it)
    BY <1>7, <1>13, <1>14, <1>17, <2>2, <2>5, Zenon DEF Written
  <2> QED BY <1>10, <2>6, Zenon
<1>19. CASE order # << >>
  <2>1. rest \in Seq(Chars) /\ rest # << >> /\ u = pa \o << "?" >> \o rest
    BY <1>19, Zenon DEF Written
  <2>2. c = "&"
    BY <1>4, <1>15, <1>19, Zenon
  <2>3. PICK r : r = rest \o << c >> \o it
    OBVIOUS
  <2>4. PICK b \in Seq(Chars) : b = << "?" >>
    BY Literals, OneChar, Zenon
  <2>5. v = pa \o << "?" >> \o r
    <3>1. v = (((pa \o b) \o rest) \o d) \o it
      BY <1>8, <2>1, <2>4, Zenon
    <3>2. Behind(pa, b, rest, d, it)
      BY <1>1, <1>7, <2>1, AssocItem
    <3>3. r = (rest \o d) \o it
      BY <1>5, <2>3, Zenon
    <3> QED BY <2>4, <3>1, <3>2, <3>3, Zenon DEF Behind
  <2>6. r \in Seq(Chars)
    BY <1>7, <2>1, <2>3, JoinType
  <2>7. r # << >>
    <3>1. JoinOf(rest, c, it, r, Len(rest))
      BY <1>7, <2>1, <2>3, Join
    <3>2. Len(r) = Len(rest) + 1 + Len(it)
      BY <3>1, Zenon DEF JoinOf
    <3> QED BY <1>7, <2>1, <2>6, <3>2
  <2>8. Plain(pa, q) => Split(r, "&") = Items(o, q)
    <3> SUFFICES ASSUME Plain(pa, q) PROVE Split(r, "&") = Items(o, q)
      OBVIOUS
    <3>1. Without(it, c)
      BY <1>16, <2>2, Zenon
    <3>2. Split(rest \o << c >> \o it, c) = Append(Split(rest, c), it)
      BY <1>7, <2>1, <3>1, SplitAppended
    <3>3. Split(rest, c) = Items(order, q)
      BY <1>19, <2>2, Zenon DEF Written
    <3>4. Append(Items(order, q), Item(k, q)) = Items(Append(order, k), q)
      BY <1>14, ItemsMore
    <3> QED BY <1>6, <1>11, <2>2, <2>3, <3>2, <3>3, <3>4, Zenon
  <2>9. Written(q, pa, l \ {k}, v, o, r)
    BY <1>13, <1>14, <2>5, <2>6, <2>7, <2>8, Zenon DEF Written
  <2> QED BY <1>10, <2>9, Zenon
<1> QED BY <1>18, <1>19, Zenon

\* GetHttpParams reads the whole URI GetHttpURI wrote.
LEMMA ReadsWritten ==
    ASSUME NEW q, NEW pa, NEW u, NEW order, NEW rest, UriTypes(q, pa, {}, u),
           Written(q, pa, {}, u, order, rest), Plain(pa, q)
    PROVE  GetHttpParams(u) = [path |-> pa, params |-> q]
<1>1. pa \in Seq(Chars) /\ u \in Seq(Chars) /\ DOMAIN q \in SUBSET Seq(Chars) /\ q \in [DOMAIN q -> Seq(Chars)]
  BY DEF UriTypes
<1>2. Once(order, DOMAIN q)
  <2>1. DOMAIN q \ {} = DOMAIN q
    OBVIOUS
  <2> QED BY <2>1, Zenon DEF Written
<1>3. PICK c \in Chars : c = "?"
  BY Literals
<1>4. Without(pa, c)
  BY <1>3, Zenon DEF Plain
<1>5. CASE order = << >>
  <2>1. u = pa
    BY <1>5, Zenon DEF Written
  <2>2. Find(pa, c, 1) = Len(pa) + 1
    <3>1. 1 \in 1 .. Len(pa) + 1 /\ Len(pa) + 1 \in 1 .. Len(pa) + 1
      BY <1>1
    <3>2. \A j \in 1 .. (Len(pa) + 1) - 1 : pa[j] # c
      BY <1>1, <1>4 DEF Without
    <3>3. ~(Len(pa) + 1 <= Len(pa))
      BY <1>1
    <3> QED BY <1>1, <3>1, <3>2, <3>3, FindIs
  <2>3. Len(pa) + 1 > Len(pa) /\ (Len(pa) + 1) - 1 = Len(pa)
    BY <1>1
  <2>4. SubSeq(pa, 1, Len(pa)) = pa
    BY <1>1, SubSeqFull
  <2>5. q = NoParams
    <3>1. DOMAIN q = {}
      BY <1>2, <1>5 DEF Once
    <3> QED BY <1>1, <3>1 DEF NoParams
  <2> QED BY <1>3, <2>1, <2>2, <2>3, <2>4, <2>5, Zenon DEF GetHttpParams
<1>6. CASE order # << >>
  <2>1. rest \in Seq(Chars) /\ u = pa \o << "?" >> \o rest /\ Split(rest, "&") = Items(order, q)
    BY <1>6, Zenon DEF Written
  <2>2. u = pa \o << c >> \o rest
    BY <1>3, <2>1, Zenon
  <2>3. Parts(pa, c, rest, u)
    BY <1>1, <1>4, <2>1, <2>2, FindBetween
  <2>4. ~(Len(pa) + 1 > Len(u))
    <3>1. Len(pa) + 1 <= Len(u)
      BY <2>3, Zenon DEF Parts
    <3> QED BY <1>1, <3>1
  <2>5. ParamsOf(Items(order, q)) = q
    <3>1. \A k \in DOMAIN q : Without(k, "=")
      BY Zenon DEF Plain
    <3> QED BY <1>1, <1>2, <3>1, ItemsRead DEF Items
  <2> QED BY <1>3, <2>1, <2>3, <2>4, <2>5, Zenon DEF GetHttpParams, Parts
<1> QED BY <1>5, <1>6, Zenon

UriRead(pd, l, u) == pd.path # << >> => u # << >> /\ l = {} /\ pd = GetHttpParams(u)

UriInv ==
    /\ UriTypes(params, path, left, uri)
    /\ \E order, rest : Written(params, path, left, uri, order, rest)
    /\ UriRead(parsed, left, uri)

\* A request nothing of which is written yet.
LEMMA WrittenNone ==
    ASSUME NEW q, NEW pa
    PROVE  \E order, rest : Written(q, pa, DOMAIN q, pa, order, rest)
<1>1. Once(<< >>, DOMAIN q \ DOMAIN q)
  <2>1. DOMAIN q \ DOMAIN q = {}
    OBVIOUS
  <2>2. Once(<< >>, {})
    BY DEF Once
  <2> QED BY <2>1, <2>2, Zenon
<1>2. Written(q, pa, DOMAIN q, pa, << >>, << >>)
  BY <1>1, Zenon DEF Written
<1> QED BY <1>2, Zenon

LEMMA UriInit == TextInit => UriInv
<1> SUFFICES ASSUME TextInit PROVE UriInv
  OBVIOUS
<1>1. /\ params = NoParams /\ path = << >> /\ left = {} /\ uri = << >>
      /\ parsed = [path |-> << >>, params |-> NoParams]
  BY DEF TextInit
<1>2. DOMAIN NoParams = {} /\ NoParams \in [{} -> Seq(Chars)]
  BY DEF NoParams
<1>3. UriTypes(params, path, left, uri)
  BY <1>1, <1>2 DEF UriTypes
<1>4. \E order, rest : Written(params, path, left, uri, order, rest)
  BY <1>1, <1>2, WrittenNone
<1>5. UriRead(parsed, left, uri)
  BY <1>1 DEF UriRead
<1> QED BY <1>3, <1>4, <1>5 DEF UriInv

LEMMA UriNext == UriInv /\ [TextNext]_textVars => UriInv'
<1> SUFFICES ASSUME UriInv, [TextNext]_textVars PROVE UriInv'
  OBVIOUS
<1>1. UriTypes(params, path, left, uri) /\ UriRead(parsed, left, uri)
  BY DEF UriInv
<1>2. PICK order, rest : Written(params, path, left, uri, order, rest)
  BY DEF UriInv
<1>3. CASE NewRequest
  <2>1. PICK K \in SUBSET Names : params' \in [K -> Values]
    BY <1>3 DEF NewRequest
  <2>2. path' \in HttpPaths /\ uri = << >> /\ uri' = path' /\ left' = DOMAIN params' /\ parsed' = parsed
    BY <1>3, Zenon DEF NewRequest
  <2>3. Names \subseteq Seq(Chars) /\ Values \subseteq Seq(Chars) /\ HttpPaths \subseteq Seq(Chars)
    BY TextAssumption, StringChars, Zenon
  <2>4. UriTypes(params', path', left', uri')
    BY <2>1, <2>2, <2>3 DEF UriTypes
  <2>5. \E o, r : Written(params', path', left', uri', o, r)
    BY <2>2, WrittenNone, Zenon
  <2>6. UriRead(parsed', left', uri')
    BY <1>1, <2>2, Zenon DEF UriRead
  <2> QED BY <2>4, <2>5, <2>6, Zenon DEF UriInv
<1>4. CASE GetHttpURI
  <2>1. PICK k \in left :
          /\ uri' = uri \o << IF left = DOMAIN params THEN "?" ELSE "&" >> \o k \o << "=" >> \o params[k]
          /\ left' = left \ {k}
    BY <1>4, Zenon DEF GetHttpURI
  <2>2. params' = params /\ path' = path /\ parsed' = parsed
    BY <1>4, Zenon DEF GetHttpURI
  <2>3. UriTypes(params, path, left \ {k}, uri') /\ \E o, r : Written(params, path, left \ {k}, uri', o, r)
    BY <1>1, <1>2, <2>1, WrittenMore, Zenon
  <2>4. UriRead(parsed', left', uri')
    BY <1>1, <2>1, <2>2, Zenon DEF UriRead
  <2> QED BY <2>1, <2>2, <2>3, <2>4, Zenon DEF UriInv
<1>5. CASE Receive
  <2>1. uri # << >> /\ left = {} /\ parsed' = GetHttpParams(uri) /\ UNCHANGED << params, path, left, uri >>
    BY <1>5, Zenon DEF Receive
  <2>2. UriRead(parsed', left', uri')
    BY <2>1, Zenon DEF UriRead
  <2> QED BY <1>1, <1>2, <2>1, <2>2, Zenon DEF UriInv
<1>6. CASE UNCHANGED uriVars
  <2>1. UNCHANGED << params, path, left, uri, parsed >>
    BY <1>6, Zenon DEF uriVars
  <2> QED BY <1>1, <1>2, <2>1, Zenon DEF UriInv
<1>7. \/ NewRequest \/ GetHttpURI \/ Receive \/ UNCHANGED uriVars
  BY Zenon DEF TextNext, textVars, AddLuaKey, AddValue, BeginLuaTable, EndLuaTable
<1> QED BY <1>3, <1>4, <1>5, <1>6, <1>7, Zenon

\* Has, said of the positions.
LEMMA HasNot ==
    ASSUME NEW s \in Seq(Chars), NEW c, ~Has(s, c)
    PROVE  Without(s, c)
<1>1. \A j \in 1 .. Len(s) : j \in DOMAIN s
  OBVIOUS
<1> QED BY <1>1, Zenon DEF Has, Range, Without

(***************************************************************************)
(* GetHttpParams gives a request's path and parameters back as they went   *)
(* into GetHttpURI, in whatever order the keys are written: for any number *)
(* of parameters, and any paths, keys and values without a separator where *)
(* it matters.                                                             *)
(***************************************************************************)
THEOREM ParametersArrive == TextSpec => []ParamsArrive
<1>1. UriInv => ParamsArrive
  <2> SUFFICES ASSUME UriInv, parsed.path # << >>, ~Has(path, "?"),
                      \A k \in DOMAIN params : ~Has(k, "=") /\ ~Has(k, "&") /\ ~Has(params[k], "&")
               PROVE  parsed = [path |-> path, params |-> params]
    BY Zenon DEF ParamsArrive
  <2>1. UriTypes(params, path, left, uri) /\ UriRead(parsed, left, uri)
    BY DEF UriInv
  <2>2. PICK order, rest : Written(params, path, left, uri, order, rest)
    BY DEF UriInv
  <2>3. left = {} /\ parsed = GetHttpParams(uri)
    BY <2>1, Zenon DEF UriRead
  <2>4. path \in Seq(Chars) /\ \A k \in DOMAIN params : k \in Seq(Chars) /\ params[k] \in Seq(Chars)
    BY <2>1 DEF UriTypes
  <2>5. Plain(path, params)
    BY <2>4, HasNot, Zenon DEF Plain
  <2> QED BY <2>1, <2>2, <2>3, <2>5, ReadsWritten, Zenon
<1> QED BY <1>1, UriInit, UriNext, PTL DEF TextSpec
----------------------------------------------------------------------------
(* DataUtil's integers.                                                    *)

\* The powers of Base up to n.
PowersTo(n, g) == g = [k \in 0 .. n |-> IF k = 0 THEN 1 ELSE Base * g[k - 1]]

LEMMA PowersToAt ==
    ASSUME NEW n \in Nat, NEW g, PowersTo(n, g)
    PROVE  g[0] = 1 /\ \A k \in 1 .. n : g[k] = Base * g[k - 1]
<1>1. PICK h : h = g
  OBVIOUS
<1>2. g = [k \in 0 .. n |-> IF k = 0 THEN 1 ELSE Base * h[k - 1]]
  BY <1>1, Zenon DEF PowersTo
<1>3. \A k \in 0 .. n : g[k] = IF k = 0 THEN 1 ELSE Base * h[k - 1]
  BY <1>2, Zenon
<1>4. g[0] = 1
  BY <1>3
<1>5. \A k \in 1 .. n : g[k] = Base * h[k - 1]
  BY <1>3
<1> QED BY <1>1, <1>4, <1>5, Zenon

LEMMA PowersToExist == \A n \in Nat : \E g : PowersTo(n, g)
<1>1. PICK T : T = {n \in Nat : \E g : PowersTo(n, g)}
  OBVIOUS
<1>2. 0 \in T
  <2>1. PICK g : g = [k \in 0 .. 0 |-> 1]
    OBVIOUS
  <2>2. \A k \in 0 .. 0 : (IF k = 0 THEN 1 ELSE Base * g[k - 1]) = 1
    OBVIOUS
  <2>3. PowersTo(0, g)
    BY <2>1, <2>2, Zenon DEF PowersTo
  <2> QED BY <1>1, <2>3
<1>3. ASSUME NEW n \in Nat, n \in T PROVE n + 1 \in T
  <2>1. PICK g : PowersTo(n, g)
    BY <1>1, <1>3
  <2>2. g[0] = 1 /\ \A k \in 1 .. n : g[k] = Base * g[k - 1]
    BY <2>1, PowersToAt
  <2>3. PICK h : h = [k \in 0 .. n + 1 |-> IF k = n + 1 THEN Base * g[n] ELSE g[k]]
    OBVIOUS
  <2>4. \A k \in 0 .. n : h[k] = g[k]
    BY <2>3
  <2>5. \A k \in 0 .. n + 1 : h[k] = IF k = 0 THEN 1 ELSE Base * h[k - 1]
    <3> SUFFICES ASSUME NEW k \in 0 .. n + 1 PROVE h[k] = IF k = 0 THEN 1 ELSE Base * h[k - 1]
      OBVIOUS
    <3>1. CASE k = 0
      BY <2>2, <2>4, <3>1
    <3>2. CASE k \in 1 .. n
      <4>1. h[k] = g[k] /\ h[k - 1] = g[k - 1] /\ g[k] = Base * g[k - 1]
        BY <2>2, <2>4, <3>2
      <4> QED BY <3>2, <4>1
    <3>3. CASE k = n + 1
      <4>1. h[k] = Base * g[n] /\ h[k - 1] = g[n]
        BY <2>3, <2>4, <3>3
      <4> QED BY <3>3, <4>1
    <3> QED BY <3>1, <3>2, <3>3
  <2>6. h = [k \in 0 .. n + 1 |-> h[k]]
    BY <2>3
  <2>7. PowersTo(n + 1, h)
    BY <2>5, <2>6, Zenon DEF PowersTo
  <2> QED BY <1>1, <2>7
<1>4. \A n \in Nat : n \in T
  BY <1>2, <1>3, Inductive
<1> QED BY <1>1, <1>4

LEMMA PowersToSame ==
    ASSUME NEW n \in Nat, NEW g, PowersTo(n, g), NEW m \in Nat, NEW h, PowersTo(m, h), n <= m
    PROVE  g[n] = h[n]
<1>1. /\ g[0] = 1 /\ \A k \in 1 .. n : g[k] = Base * g[k - 1]
      /\ h[0] = 1 /\ \A k \in 1 .. n : h[k] = Base * h[k - 1]
  BY PowersToAt
<1>2. PICK T : T = {k \in Nat : k <= n => g[k] = h[k]}
  OBVIOUS
<1>3. 0 \in T
  BY <1>1, <1>2
<1>4. ASSUME NEW k \in Nat, k \in T PROVE k + 1 \in T
  <2> SUFFICES ASSUME k + 1 <= n PROVE g[k + 1] = h[k + 1]
    BY <1>2
  <2>1. g[k] = h[k]
    BY <1>2, <1>4
  <2>2. PICK j : j = k + 1 /\ j \in 1 .. n /\ j - 1 = k
    OBVIOUS
  <2>3. g[j] = Base * g[k] /\ h[j] = Base * h[k]
    BY <1>1, <2>2
  <2> QED BY <2>1, <2>2, <2>3
<1>5. \A k \in Nat : k \in T
  BY <1>3, <1>4, Inductive
<1> QED BY <1>2, <1>5

PowerRule(f) == f = [k \in Nat |-> IF k = 0 THEN 1 ELSE Base * f[k - 1]]

LEMMA PowerExists == \E f : PowerRule(f)
<1>1. PICK G : G = [n \in Nat |-> CHOOSE g : PowersTo(n, g)]
  OBVIOUS
<1>2. \A n \in Nat : PowersTo(n, G[n])
  <2> SUFFICES ASSUME NEW n \in Nat PROVE PowersTo(n, G[n])
    OBVIOUS
  <2>1. G[n] = CHOOSE g : PowersTo(n, g)
    BY <1>1
  <2>2. \E g : PowersTo(n, g)
    BY PowersToExist
  <2> QED BY <2>1, <2>2, Zenon
<1>3. PICK f : f = [n \in Nat |-> G[n][n]]
  OBVIOUS
<1>4. ASSUME NEW n \in Nat PROVE f[n] = IF n = 0 THEN 1 ELSE Base * f[n - 1]
  <2>1. PICK g : g = G[n] /\ PowersTo(n, g)
    BY <1>2
  <2>2. g[0] = 1 /\ \A k \in 1 .. n : g[k] = Base * g[k - 1]
    BY <2>1, PowersToAt
  <2>3. f[n] = g[n]
    BY <1>3, <2>1
  <2>4. CASE n = 0
    BY <2>2, <2>3, <2>4
  <2>5. CASE n # 0
    <3>1. PICK m \in Nat : m = n - 1 /\ m <= n
      BY <2>5
    <3>2. PICK h : h = G[m] /\ PowersTo(m, h)
      BY <1>2
    <3>3. h[m] = g[m]
      BY <2>1, <3>1, <3>2, PowersToSame
    <3>4. f[m] = h[m]
      BY <1>3, <3>2
    <3>5. g[n] = Base * g[m]
      BY <2>2, <2>5, <3>1
    <3> QED BY <2>3, <2>5, <3>1, <3>3, <3>4, <3>5
  <2> QED BY <2>4, <2>5
<1>5. f = [n \in Nat |-> f[n]]
  BY <1>3
<1>6. PowerRule(f)
  BY <1>4, <1>5, Zenon DEF PowerRule
<1> QED BY <1>6, Zenon

LEMMA PowerDef == Power[0] = 1 /\ \A k \in Nat : Power[k + 1] = Base * Power[k]
<1>1. Power = CHOOSE f : PowerRule(f)
  BY Zenon DEF Power, PowerRule
<1>2. PowerRule(Power)
  BY <1>1, PowerExists, Zenon
<1>3. PICK f : f = Power
  OBVIOUS
<1>4. \A k \in Nat : Power[k] = IF k = 0 THEN 1 ELSE Base * f[k - 1]
  <2>1. Power = [k \in Nat |-> IF k = 0 THEN 1 ELSE Base * f[k - 1]]
    BY <1>2, <1>3, Zenon DEF PowerRule
  <2> QED BY <2>1, Zenon
<1>5. Power[0] = 1
  BY <1>4, Zenon
<1>6. ASSUME NEW k \in Nat PROVE Power[k + 1] = Base * f[k]
  <2>1. PICK j \in Nat : j = k + 1 /\ j # 0 /\ j - 1 = k
    OBVIOUS
  <2> QED BY <1>4, <2>1
<1> QED BY <1>3, <1>5, <1>6, Zenon

LEMMA Times ==
    ASSUME NEW a \in Nat \ {0}, NEW b \in Nat \ {0}
    PROVE  a * b \in Nat \ {0}
OBVIOUS

LEMMA PowerType == \A k \in Nat : Power[k] \in Nat \ {0}
<1>1. PICK T : T = {k \in Nat : Power[k] \in Nat \ {0}}
  OBVIOUS
<1>2. 0 \in T
  BY <1>1, PowerDef
<1>3. ASSUME NEW k \in Nat, k \in T PROVE k + 1 \in T
  <2>1. Power[k + 1] = Base * Power[k]
    BY PowerDef
  <2>2. Base * Power[k] \in Nat \ {0}
    BY <1>1, <1>3, Times, DataAssumption
  <2> QED BY <1>1, <2>1, <2>2
<1>4. \A k \in Nat : k \in T
  BY <1>2, <1>3, Inductive
<1> QED BY <1>1, <1>4

LEMMA RestOf ==
    ASSUME NEW q \in Nat, NEW m \in Nat \ {0}, NEW r \in 0 .. m - 1
    PROVE  (m * q + r) % m = r
OBVIOUS

LEMMA Quotient ==
    ASSUME NEW v \in Nat, NEW m \in Nat \ {0}
    PROVE  v \div m \in Nat /\ (v \div m) * m \in Nat /\ (v \div m) * m \in v - m + 1 .. v
OBVIOUS

LEMMA Divided ==
    ASSUME NEW v \in Nat, NEW m \in Nat \ {0}
    PROVE  v \div m \in Nat /\ v % m \in 0 .. m - 1 /\ v = m * (v \div m) + (v % m)
<1>1. PICK q \in Nat : q = v \div m /\ q * m \in Nat /\ q * m \in v - m + 1 .. v
  BY Quotient
<1>2. PICK x \in Nat : x = q * m /\ x \in v - m + 1 .. v
  BY <1>1
<1>3. PICK r : r = v - x
  OBVIOUS
<1>4. r \in 0 .. m - 1 /\ v = x + r
  BY <1>2, <1>3
<1>5. m * q = q * m
  OBVIOUS
<1>6. v = m * q + r
  BY <1>2, <1>4, <1>5, Zenon
<1>7. v % m = r
  BY <1>4, <1>6, RestOf
<1>8. v \div m \in Nat /\ v % m \in 0 .. m - 1
  BY <1>1, <1>4, <1>7, Zenon
<1>9. m * (v \div m) = m * q
  BY <1>1, Zenon
<1>10. m * (v \div m) + (v % m) = m * q + r
  BY <1>7, <1>9, Zenon
<1>11. m * (v \div m) + (v % m) = v
  BY <1>6, <1>10, Zenon
<1> QED BY <1>8, <1>11, Zenon

LEMMA DigitRange ==
    ASSUME NEW b \in Nat \ {0}, NEW p \in Nat \ {0}, NEW d \in 0 .. b - 1, NEW r \in 0 .. p - 1
    PROVE  d * p + r \in 0 .. (b * p) - 1
<1>1. d * p \in Nat /\ b * p \in Nat
  OBVIOUS
<1>2. PICK e \in Nat : b = d + 1 + e
  <2>1. b - d - 1 \in Nat /\ b = d + 1 + (b - d - 1)
    OBVIOUS
  <2> QED BY <2>1
<1>3. b * p = d * p + p + e * p /\ e * p \in Nat
  BY <1>2
<1> QED BY <1>1, <1>3

LEMMA DigitSum ==
    ASSUME NEW b \in Nat, NEW p \in Nat, NEW c \in Nat, NEW d \in Nat, NEW r \in Nat
    PROVE  p * (b * c + d) + r = (b * p) * c + (d * p + r)
<1>1. PICK x \in Nat : x = b * c
  OBVIOUS
<1>2. p * (x + d) = p * x + d * p
  OBVIOUS
<1>3. p * (b * c) = (b * p) * c
  OBVIOUS
<1>4. p * x \in Nat /\ d * p \in Nat
  OBVIOUS
<1>5. p * (b * c + d) = p * x + d * p
  BY <1>1, <1>2, Zenon
<1>6. (b * p) * c = p * x
  BY <1>1, <1>3, Zenon
<1>7. (p * x + d * p) + r = p * x + (d * p + r)
  BY <1>4
<1> QED BY <1>5, <1>6, <1>7, Zenon

\* One digit more of v in base b.
LEMMA Digit ==
    ASSUME NEW v \in Nat, NEW b \in Nat \ {0}, NEW p \in Nat \ {0}
    PROVE  v % (b * p) = (v % p) + ((v \div p) % b) * p
<1>1. PICK a \in Nat, r \in 0 .. p - 1 : a = v \div p /\ r = v % p /\ v = p * a + r
  BY Divided
<1>2. PICK c \in Nat, d \in 0 .. b - 1 : d = a % b /\ a = b * c + d
  BY Divided
<1>3. PICK m \in Nat \ {0} : m = b * p
  BY Times
<1>4. PICK x : x = d * p + r
  OBVIOUS
<1>5. x \in 0 .. m - 1
  BY <1>3, <1>4, DigitRange
<1>6. p * (b * c + d) + r = (b * p) * c + (d * p + r)
  BY DigitSum
<1>7. v = m * c + x
  BY <1>1, <1>2, <1>3, <1>4, <1>6, Zenon
<1>8. v % m = x
  BY <1>5, <1>7, RestOf
<1>9. v % (b * p) = d * p + r
  BY <1>3, <1>4, <1>8, Zenon
<1>10. d * p + r = r + d * p
  BY Times
<1> QED BY <1>1, <1>2, <1>9, <1>10

\* The sums of ReadUInt.
SumsOf(bytes, f) == f = [i \in 0 .. Len(bytes) |-> IF i = 0 THEN 0 ELSE f[i - 1] + bytes[i] * Power[i - 1]]

\* Sums that go up to n.
Sums(n, C, f) == f = [i \in 0 .. n |-> IF i = 0 THEN 0 ELSE f[i - 1] + C[i]]

LEMMA SumsExist ==
    ASSUME NEW C
    PROVE  \A n \in Nat : \E f : Sums(n, C, f)
<1>1. PICK T : T = {n \in Nat : \E f : Sums(n, C, f)}
  OBVIOUS
<1>2. 0 \in T
  <2>1. PICK f : f = [i \in 0 .. 0 |-> 0]
    OBVIOUS
  <2>2. \A i \in 0 .. 0 : (IF i = 0 THEN 0 ELSE f[i - 1] + C[i]) = 0
    OBVIOUS
  <2>3. Sums(0, C, f)
    BY <2>1, <2>2, Zenon DEF Sums
  <2> QED BY <1>1, <2>3
<1>3. ASSUME NEW n \in Nat, n \in T PROVE n + 1 \in T
  <2>1. PICK f : Sums(n, C, f)
    BY <1>1, <1>3
  <2>2. \A i \in 0 .. n : f[i] = IF i = 0 THEN 0 ELSE f[i - 1] + C[i]
    BY <2>1 DEF Sums
  <2>3. PICK h : h = [i \in 0 .. n + 1 |-> IF i = n + 1 THEN f[n] + C[n + 1] ELSE f[i]]
    OBVIOUS
  <2>4. \A i \in 0 .. n : h[i] = f[i]
    BY <2>3
  <2>5. ASSUME NEW i \in 0 .. n + 1 PROVE h[i] = IF i = 0 THEN 0 ELSE h[i - 1] + C[i]
    <3>1. CASE i = 0
      BY <2>2, <2>4, <3>1
    <3>2. CASE i \in 1 .. n
      <4>1. h[i] = f[i] /\ h[i - 1] = f[i - 1] /\ f[i] = f[i - 1] + C[i]
        BY <2>2, <2>4, <3>2
      <4> QED BY <3>2, <4>1
    <3>3. CASE i = n + 1
      <4>1. h[i] = f[n] + C[n + 1] /\ h[i - 1] = f[n]
        BY <2>3, <2>4, <3>3
      <4> QED BY <3>3, <4>1
    <3> QED BY <3>1, <3>2, <3>3
  <2>6. h = [i \in 0 .. n + 1 |-> h[i]]
    BY <2>3
  <2>7. Sums(n + 1, C, h)
    BY <2>5, <2>6, Zenon DEF Sums
  <2> QED BY <1>1, <2>7
<1>4. \A n \in Nat : n \in T
  BY <1>2, <1>3, Inductive
<1> QED BY <1>1, <1>4

LEMMA ReadUIntSums ==
    ASSUME NEW n \in Nat, NEW bytes, Len(bytes) = n
    PROVE  \E f : /\ ReadUInt(bytes) = f[n] /\ f[0] = 0
                  /\ \A i \in 0 .. n - 1 : f[i + 1] = f[i] + bytes[i + 1] * Power[i]
<1>1. PICK C : C = [i \in 1 .. n |-> bytes[i] * Power[i - 1]]
  OBVIOUS
<1>2. PICK g : Sums(n, C, g)
  BY SumsExist
<1>3. SumsOf(bytes, g)
  <2>1. \A i \in 0 .. n : (IF i = 0 THEN 0 ELSE g[i - 1] + C[i])
                            = IF i = 0 THEN 0 ELSE g[i - 1] + bytes[i] * Power[i - 1]
    BY <1>1
  <2> QED BY <1>2, <2>1, Zenon DEF Sums, SumsOf
<1>4. PICK f : f = CHOOSE h : SumsOf(bytes, h)
  OBVIOUS
<1>5. SumsOf(bytes, f)
  BY <1>3, <1>4, Zenon
<1>6. ReadUInt(bytes) = f[n]
  BY <1>4, Zenon DEF ReadUInt, SumsOf
<1>7. \A i \in 0 .. n : f[i] = IF i = 0 THEN 0 ELSE f[i - 1] + bytes[i] * Power[i - 1]
  BY <1>5 DEF SumsOf
<1>8. f[0] = 0
  BY <1>7
<1>9. ASSUME NEW i \in 0 .. n - 1 PROVE f[i + 1] = f[i] + bytes[i + 1] * Power[i]
  <2>1. PICK j \in 0 .. n : j = i + 1 /\ j # 0 /\ j - 1 = i
    OBVIOUS
  <2> QED BY <1>7, <2>1
<1> QED BY <1>6, <1>8, <1>9

\* What WriteUInt writes, ReadUInt reads.
LEMMA IntegerRead ==
    ASSUME NEW w \in Nat, NEW v \in 0 .. Power[w] - 1
    PROVE  ReadUInt(WriteUInt(w, v)) = v
<1>1. PICK bytes : bytes = WriteUInt(w, v)
  OBVIOUS
<1>2. Len(bytes) = w /\ \A i \in 1 .. w : bytes[i] = (v \div Power[i - 1]) % Base
  BY <1>1 DEF WriteUInt
<1>3. PICK f : /\ ReadUInt(bytes) = f[w] /\ f[0] = 0
               /\ \A i \in 0 .. w - 1 : f[i + 1] = f[i] + bytes[i + 1] * Power[i]
  BY <1>2, ReadUIntSums
<1>4. v \in Nat /\ Power[w] \in Nat \ {0}
  BY PowerType
<1>5. PICK T : T = {i \in Nat : i <= w => f[i] = v % Power[i]}
  OBVIOUS
<1>6. 0 \in T
  <2>1. v % 1 = 0
    BY <1>4
  <2> QED BY <1>3, <1>5, <2>1, PowerDef
<1>7. ASSUME NEW i \in Nat, i \in T PROVE i + 1 \in T
  <2> SUFFICES ASSUME i + 1 <= w PROVE f[i + 1] = v % Power[i + 1]
    BY <1>5
  <2>1. f[i] = v % Power[i]
    BY <1>5, <1>7
  <2>2. PICK p \in Nat \ {0} : p = Power[i]
    BY PowerType
  <2>3. Power[i + 1] = Base * p
    BY <2>2, PowerDef
  <2>4. bytes[i + 1] = (v \div p) % Base
    <3>1. PICK j \in 1 .. w : j = i + 1 /\ j - 1 = i
      OBVIOUS
    <3> QED BY <1>2, <2>2, <3>1
  <2>5. f[i + 1] = (v % p) + ((v \div p) % Base) * p
    <3>1. i \in 0 .. w - 1
      OBVIOUS
    <3>2. f[i + 1] = f[i] + bytes[i + 1] * Power[i]
      BY <1>3, <3>1
    <3> QED BY <2>1, <2>2, <2>4, <3>2
  <2>6. Base \in Nat \ {0}
    BY DataAssumption
  <2>7. v % (Base * p) = (v % p) + ((v \div p) % Base) * p
    BY <1>4, <2>6, Digit
  <2> QED BY <2>3, <2>5, <2>7
<1>8. \A i \in Nat : i \in T
  BY <1>6, <1>7, Inductive
<1>9. f[w] = v % Power[w]
  BY <1>5, <1>8
<1>10. v % Power[w] = v
  <2>1. PICK m \in Nat \ {0} : m = Power[w]
    BY <1>4
  <2>2. v \in 0 .. m - 1
    BY <2>1
  <2>3. v % m = v
    BY <2>2
  <2> QED BY <2>1, <2>3
<1> QED BY <1>1, <1>3, <1>9, <1>10
----------------------------------------------------------------------------
(* DataUtil's texts, and the bytes of a value.                             *)

\* The text at the beginning of s has c bytes: then there is a NUL, or n bytes or s are at an end.
TextEnds(s, n, c) ==
    /\ c <= Len(s) /\ c <= n /\ \A i \in 1 .. c : s[i] # 0
    /\ c = Len(s) \/ c = n \/ s[c + 1] = 0

LEMMA TextEndsSomewhere ==
    ASSUME NEW S, NEW s \in Seq(S), NEW n \in Nat
    PROVE  \E c \in Nat : TextEnds(s, n, c)
<1>1. PICK T : T = {k \in Nat : k = Len(s) \/ k = n \/ s[k + 1] = 0}
  OBVIOUS
<1>2. T \in SUBSET Nat /\ Len(s) \in T /\ n \in T
  BY <1>1
<1>3. PICK c \in T : \A k \in T : c <= k
  BY <1>2, SmallestOf
<1>4. c \in Nat /\ c <= Len(s) /\ c <= n /\ (c = Len(s) \/ c = n \/ s[c + 1] = 0)
  BY <1>1, <1>2, <1>3
<1>5. ASSUME NEW i \in 1 .. c, s[i] = 0 PROVE FALSE
  <2>1. PICK k \in Nat : k + 1 = i /\ k < c
    BY <1>4
  <2>2. k \in T
    BY <1>1, <1>5, <2>1
  <2> QED BY <1>3, <1>4, <2>1, <2>2
<1>6. TextEnds(s, n, c)
  BY <1>4, <1>5 DEF TextEnds
<1> QED BY <1>4, <1>6

LEMMA UptoIs ==
    ASSUME NEW S, NEW s \in Seq(S), NEW n \in Nat, NEW c \in Nat, TextEnds(s, n, c)
    PROVE  Upto(s, n) = SubSeq(s, 1, c)
<1>1. PICK T : T = {k \in 1 .. Len(s) : \A i \in 1 .. k : s[i] # 0 /\ i <= n}
  OBVIOUS
<1>2. /\ c <= Len(s) /\ c <= n /\ \A i \in 1 .. c : s[i] # 0
      /\ c = Len(s) \/ c = n \/ s[c + 1] = 0
  BY DEF TextEnds
<1>3. \A k \in 1 .. c : k \in T
  BY <1>1, <1>2
<1>4. ASSUME NEW k \in T PROVE k \in 1 .. c
  <2>1. k \in 1 .. Len(s) /\ \A i \in 1 .. k : s[i] # 0 /\ i <= n
    BY <1>1
  <2>2. k > c => c + 1 \in 1 .. k
    BY <2>1
  <2>3. k > c => s[c + 1] # 0 /\ c + 1 <= n /\ c # Len(s)
    BY <2>1, <2>2
  <2> QED BY <1>2, <2>1, <2>3
<1>5. T = 1 .. c
  BY <1>3, <1>4
<1>6. Cardinality(1 .. c) = c
  BY FS_Interval
<1> QED BY <1>1, <1>5, <1>6, Zenon DEF Upto

LEMMA WriteUIntType ==
    ASSUME NEW w \in Nat, NEW v \in Nat
    PROVE  WriteUInt(w, v) \in Seq(Bytes) /\ Len(WriteUInt(w, v)) = w
<1>1. ASSUME NEW i \in 1 .. w PROVE (v \div Power[i - 1]) % Base \in Bytes
  <2>1. PICK p \in Nat \ {0} : p = Power[i - 1]
    BY PowerType
  <2>2. PICK a \in Nat : a = v \div p
    BY Divided
  <2>3. PICK b \in Nat \ {0} : b = Base
    BY DataAssumption
  <2>4. a % b \in 0 .. b - 1
    BY Divided
  <2> QED BY <2>1, <2>2, <2>3, <2>4 DEF Bytes
<1>2. PICK B : B = Bytes
  OBVIOUS
<1>3. PICK x : x = WriteUInt(w, v)
  OBVIOUS
<1>4. x = [i \in 1 .. w |-> x[i]] /\ \A i \in 1 .. w : x[i] \in B
  BY <1>1, <1>2, <1>3 DEF WriteUInt
<1>5. x \in Seq(B) /\ Len(x) = w
  BY <1>4
<1> QED BY <1>2, <1>3, <1>5, Zenon

LEMMA ZeroByte == 0 \in Bytes
BY DataAssumption DEF Bytes

\* WriteString with n = 0, for the text of c bytes at the beginning of s.
TextBytes(s, c, x, t) ==
    /\ t \in Seq(Bytes) /\ Len(t) = LengthWidth + c + 1
    /\ \A j \in 1 .. LengthWidth : t[j] = x[j]
    /\ \A j \in 1 .. c : t[LengthWidth + j] = s[j]
    /\ t[LengthWidth + c + 1] = 0

LEMMA LengthAndTextIs ==
    ASSUME NEW s \in Seq(Bytes), NEW c \in Nat, TextEnds(s, Len(s), c)
    PROVE  TextBytes(s, c, WriteUInt(LengthWidth, Len(s) + 1), LengthAndText(s))
<1>1. PICK x : x = WriteUInt(LengthWidth, Len(s) + 1)
  OBVIOUS
<1>2. PICK w \in Nat : w = LengthWidth
  BY DataAssumption
<1>3. x \in Seq(Bytes) /\ Len(x) = w
  <2>1. PICK v \in Nat : v = Len(s) + 1
    OBVIOUS
  <2> QED BY <1>1, <1>2, <2>1, WriteUIntType
<1>4. PICK u \in Seq(Bytes) : PartOf(s, 1, c, u)
  <2>1. 1 \in 1 .. Len(s) + 1 /\ c \in 1 - 1 .. Len(s)
    BY DEF TextEnds
  <2> QED BY <2>1, Part
<1>5. u = SubSeq(s, 1, c) /\ Len(u) = c /\ \A k \in 1 .. c : u[k] = s[k]
  BY <1>4 DEF PartOf
<1>6. Upto(s, Len(s)) = u
  <2>1. Len(s) \in Nat
    OBVIOUS
  <2> QED BY <1>5, <2>1, UptoIs
<1>7. PICK y : y = x \o u
  OBVIOUS
<1>8. /\ y \in Seq(Bytes) /\ Len(y) = w + c
      /\ \A j \in 1 .. w : y[j] = x[j]
      /\ \A j \in 1 .. c : y[w + j] = u[j]
  <2>1. /\ y \in Seq(Bytes) /\ Len(y) = Len(x) + Len(u)
        /\ \A j \in 1 .. Len(x) + Len(u) : y[j] = IF j <= Len(x) THEN x[j] ELSE u[j - Len(x)]
    <3>1. /\ x \o u \in Seq(Bytes) /\ Len(x \o u) = Len(x) + Len(u)
          /\ \A j \in 1 .. Len(x) + Len(u) : (x \o u)[j] = IF j <= Len(x) THEN x[j] ELSE u[j - Len(x)]
      BY <1>3, ConcatProperties, Zenon
    <3> QED BY <1>7, <3>1, Zenon
  <2>2. y \in Seq(Bytes) /\ Len(y) = w + c
    BY <1>3, <1>5, <2>1, Zenon
  <2>3. \A j \in 1 .. w + c : y[j] = IF j <= w THEN x[j] ELSE u[j - w]
    BY <1>3, <1>5, <2>1, Zenon
  <2>4. \A j \in 1 .. w : y[j] = x[j]
    BY <2>3
  <2>5. \A j \in 1 .. c : y[w + j] = u[j]
    BY <2>3
  <2> QED BY <2>2, <2>4, <2>5, Zenon
<1>9. PICK t \in Seq(Bytes) : OneMore(y, 0, t, w + c)
  BY <1>8, ZeroByte, JoinOne
<1>10. t = LengthAndText(s)
  BY <1>1, <1>6, <1>7, <1>9, Zenon DEF OneMore, LengthAndText
<1>11. /\ Len(t) = w + c + 1 /\ t[w + c + 1] = 0
       /\ \A j \in 1 .. w + c : t[j] = y[j]
  BY <1>9, Zenon DEF OneMore
<1>12. \A j \in 1 .. w : t[j] = x[j]
  BY <1>8, <1>11
<1>13. \A j \in 1 .. c : t[w + j] = s[j]
  BY <1>5, <1>8, <1>11
<1> QED BY <1>1, <1>2, <1>10, <1>11, <1>12, <1>13, Zenon DEF TextBytes

LEMMA SmallRest ==
    ASSUME NEW m \in Nat \ {0}, NEW v \in 0 .. m - 1
    PROVE  v % m = v
OBVIOUS

LEMMA NegativeRest ==
    ASSUME NEW m \in Nat \ {0}, NEW v \in -m .. -1
    PROVE  v % m = v + m
OBVIOUS

LEMMA Half ==
    ASSUME NEW m \in Nat \ {0}
    PROVE  m \div 2 \in 0 .. m - 1
OBVIOUS

\* The cast between a signed type of m values and its unsigned one.
Signed(v, m) == IF v >= m \div 2 THEN v - m ELSE v

LEMMA Cast ==
    ASSUME NEW m \in Nat \ {0}, NEW v \in (m \div 2) - m .. (m \div 2) - 1
    PROVE  v % m \in 0 .. m - 1 /\ Signed(v % m, m) = v
<1>1. PICK h \in 0 .. m - 1 : h = m \div 2
  BY Half
<1>2. v \in h - m .. h - 1
  BY <1>1
<1>3. CASE v >= 0
  <2>1. v \in 0 .. m - 1 /\ ~(v >= h)
    BY <1>2, <1>3
  <2>2. v % m = v
    BY <2>1, SmallRest
  <2>3. Signed(v, m) = v
    BY <1>1, <2>1, Zenon DEF Signed
  <2> QED BY <2>1, <2>2, <2>3, Zenon
<1>4. CASE v < 0
  <2>1. v \in -m .. -1 /\ v + m \in 0 .. m - 1 /\ v + m >= h /\ (v + m) - m = v
    BY <1>2, <1>4
  <2>2. v % m = v + m
    BY <2>1, NegativeRest
  <2>3. Signed(v + m, m) = v
    BY <1>1, <2>1, Zenon DEF Signed
  <2> QED BY <2>1, <2>2, <2>3, Zenon
<1> QED BY <1>2, <1>3, <1>4

\* The integer WriteUInt writes for a value, and what the value was.
IntegerOf(f, v) ==
    /\ v \in 0 .. Power[f.n] - 1
    /\ Encoded(f) = WriteUInt(f.n, v)
    /\ f.value = IF f.kind = "uint" THEN v ELSE Signed(v, Power[f.n])

LEMMA IntegerField ==
    ASSUME NEW f \in Fields, f.kind \in {"uint", "int"}
    PROVE  \E v : IntegerOf(f, v)
<1>1. f.n \in Nat /\ IsValue(f)
  BY DataAssumption
<1>2. PICK m \in Nat \ {0} : m = Power[f.n]
  BY <1>1, PowerType
<1>3. PICK v : v = f.value % m
  OBVIOUS
<1>4. Encoded(f) = WriteUInt(f.n, v)
  BY <1>2, <1>3 DEF Encoded
<1>5. CASE f.kind = "uint"
  <2>1. f.value \in 0 .. m - 1
    BY <1>1, <1>2, <1>5 DEF IsValue
  <2>2. v = f.value
    BY <1>3, <2>1, SmallRest
  <2>3. IntegerOf(f, v)
    BY <1>2, <1>4, <1>5, <2>1, <2>2, Zenon DEF IntegerOf
  <2> QED BY <2>3, Zenon
<1>6. CASE f.kind = "int"
  <2>1. f.value \in (m \div 2) - m .. (m \div 2) - 1
    BY <1>1, <1>2, <1>6 DEF IsValue
  <2>2. v \in 0 .. m - 1 /\ Signed(v, m) = f.value
    BY <1>3, <2>1, Cast
  <2>3. f.kind # "uint"
    BY <1>6
  <2>4. IntegerOf(f, v)
    BY <1>2, <1>4, <2>2, <2>3, Zenon DEF IntegerOf
  <2> QED BY <2>4, Zenon
<1> QED BY <1>5, <1>6

LEMMA PaddedType ==
    ASSUME NEW s \in Seq(Bytes), NEW n \in Nat
    PROVE  Padded(s, n) \in Seq(Bytes) /\ Len(Padded(s, n)) = n
<1>1. PICK B : B = Bytes /\ 0 \in B
  BY ZeroByte
<1>2. PICK x : x = Padded(s, n)
  OBVIOUS
<1>3. x = [i \in 1 .. n |-> x[i]] /\ \A i \in 1 .. n : x[i] \in B
  BY <1>1, <1>2 DEF Padded
<1>4. x \in Seq(B) /\ Len(x) = n
  BY <1>3
<1> QED BY <1>1, <1>2, <1>4, Zenon

\* The bytes of a value, no more than the index goes on by.
LEMMA EncodedFits ==
    ASSUME NEW f \in Fields
    PROVE  Encoded(f) \in Seq(Bytes) /\ Width(f) \in Nat /\ Len(Encoded(f)) <= Width(f)
<1>1. f.n \in Nat /\ IsValue(f) /\ LengthWidth \in Nat
  BY DataAssumption
<1>2. CASE f.kind \in {"uint", "int"}
  <2>1. PICK v : IntegerOf(f, v)
    BY <1>2, IntegerField
  <2>2. v \in Nat /\ Encoded(f) = WriteUInt(f.n, v)
    BY <1>1, <2>1, PowerType DEF IntegerOf
  <2>3. Encoded(f) \in Seq(Bytes) /\ Len(Encoded(f)) = f.n
    BY <1>1, <2>2, WriteUIntType
  <2>4. Width(f) = f.n
    BY <1>2 DEF Width
  <2> QED BY <1>1, <2>3, <2>4
<1>3. CASE f.kind \in {"float", "double"}
  <2>1. Encoded(f) = f.value /\ f.value \in [1 .. f.n -> Bytes]
    BY <1>1, <1>3 DEF Encoded, IsValue
  <2>2. f.value \in Seq(Bytes) /\ Len(f.value) = f.n
    BY <1>1, <2>1
  <2>3. Width(f) = f.n
    BY <1>3 DEF Width
  <2> QED BY <1>1, <2>1, <2>2, <2>3
<1>4. CASE f.kind = "string"
  <2>1. f.value \in Seq(Bytes)
    BY <1>1, <1>4 DEF IsValue
  <2>2. PICK s \in Seq(Bytes) : s = f.value
    BY <2>1
  <2>3. CASE f.n = 0
    <3>1. Encoded(f) = LengthAndText(s) /\ Width(f) = LengthWidth + Len(s) + 1
      BY <1>4, <2>2, <2>3 DEF Encoded, Width
    <3>2. PICK c \in Nat : TextEnds(s, Len(s), c)
      <4>1. Len(s) \in Nat
        OBVIOUS
      <4> QED BY <4>1, TextEndsSomewhere
    <3>3. c <= Len(s)
      BY <3>2, Zenon DEF TextEnds
    <3>4. LengthAndText(s) \in Seq(Bytes) /\ Len(LengthAndText(s)) = LengthWidth + c + 1
      BY <3>2, LengthAndTextIs, Zenon DEF TextBytes
    <3> QED BY <1>1, <3>1, <3>3, <3>4
  <2>4. CASE f.n # 0
    <3>1. Encoded(f) = Padded(s, f.n) /\ Width(f) = f.n
      BY <1>4, <2>2, <2>4 DEF Encoded, Width
    <3>2. Padded(s, f.n) \in Seq(Bytes) /\ Len(Padded(s, f.n)) = f.n
      BY <1>1, PaddedType, Zenon
    <3>3. f.n <= f.n
      BY <1>1
    <3> QED BY <1>1, <3>1, <3>2, <3>3, Zenon
  <2> QED BY <2>3, <2>4
<1> QED BY <1>1, <1>2, <1>3, <1>4 DEF IsValue

\* The array has x behind its first a bytes.
Holds(b, a, x) == \A j \in 1 .. Len(x) : b[a + j] = x[j]

IsArray(b) == b \in Seq(Bytes) /\ Len(b) = Size

LEMMA TakeIs ==
    ASSUME IsArray(src), NEW a \in Nat, NEW x \in Seq(Bytes), NEW n \in Nat, Len(x) = n,
           a + n <= Size, Holds(src, a, x)
    PROVE  Take(a, n) = x
<1>1. PICK b \in Seq(Bytes) : b = src /\ Len(b) = Size
  BY DEF IsArray
<1>2. PICK i, k : i = a + 1 /\ k = a + n
  OBVIOUS
<1>3. i \in 1 .. Len(b) + 1 /\ k \in i - 1 .. Len(b) /\ Len(x) = k - i + 1
  BY <1>1, <1>2, DataAssumption
<1>4. \A j \in 1 .. Len(x) : x[j] = b[i + j - 1]
  <2> SUFFICES ASSUME NEW j \in 1 .. Len(x) PROVE x[j] = b[i + j - 1]
    OBVIOUS
  <2>1. a + j = i + j - 1
    BY <1>2
  <2>2. src[a + j] = x[j]
    BY DEF Holds
  <2> QED BY <1>1, <2>1, <2>2
<1>5. SubSeq(b, i, k) = x
  BY <1>3, <1>4, PartIs
<1> QED BY <1>1, <1>2, <1>5, Zenon DEF Take

LEMMA SignedRead ==
    ASSUME NEW w \in Nat, NEW v \in 0 .. Power[w] - 1
    PROVE  ReadInt(WriteUInt(w, v)) = Signed(v, Power[w])
<1>1. ReadUInt(WriteUInt(w, v)) = v
  BY IntegerRead
<1>2. v \in Nat
  BY PowerType
<1>3. Len(WriteUInt(w, v)) = w
  BY <1>2, WriteUIntType
<1> QED BY <1>1, <1>3, Zenon DEF ReadInt, Signed

\* A text in the array that ends where s does, for its reader too.
LEMMA TextRead ==
    ASSUME IsArray(src), NEW a \in Nat, NEW s \in Seq(Bytes), NEW n \in Nat, NEW L \in Nat,
           NEW c \in Nat, TextEnds(s, n, c), c <= L, a + c <= Size,
           \A j \in 1 .. c : src[a + j] = s[j],
           c = L \/ (a + c + 1 <= Size /\ src[a + c + 1] = 0)
    PROVE  Upto(SubSeq(src, a + 1, Size), L) = Upto(s, n)
<1>1. PICK b \in Seq(Bytes) : b = src /\ Len(b) = Size
  BY DEF IsArray
<1>2. PICK i : i = a + 1
  OBVIOUS
<1>3. i \in 1 .. Len(b) + 1 /\ Size \in i - 1 .. Len(b)
  BY <1>1, <1>2, DataAssumption
<1>4. PICK t \in Seq(Bytes) : PartOf(b, i, Size, t)
  BY <1>3, Part
<1>5. t = SubSeq(b, i, Size) /\ Len(t) = Size - i + 1 /\ \A k \in 1 .. Size - i + 1 : t[k] = b[i + k - 1]
  BY <1>4, Zenon DEF PartOf
<1>6. Len(t) = Size - a /\ \A k \in 1 .. Size - a : t[k] = src[a + k]
  <2>1. Size - i + 1 = Size - a
    BY <1>2, DataAssumption
  <2>2. \A k \in 1 .. Size - a : i + k - 1 = a + k
    BY <1>2, DataAssumption
  <2>3. Len(t) = Size - a /\ \A k \in 1 .. Size - a : t[k] = src[i + k - 1]
    BY <1>1, <1>5, <2>1, Zenon
  <2> QED BY <2>2, <2>3, Zenon
<1>7. c <= Len(t) /\ \A k \in 1 .. c : t[k] = s[k]
  BY <1>6, DataAssumption
<1>8. \A k \in 1 .. c : s[k] # 0
  BY Zenon DEF TextEnds
<1>9. c = L \/ t[c + 1] = 0
  <2>1. ASSUME a + c + 1 <= Size, src[a + c + 1] = 0 PROVE t[c + 1] = 0
    <3>1. PICK k \in 1 .. Size - a : k = c + 1 /\ a + k = a + c + 1
      BY <2>1, DataAssumption
    <3> QED BY <1>6, <2>1, <3>1
  <2> QED BY <2>1
<1>10. TextEnds(t, L, c)
  BY <1>7, <1>8, <1>9 DEF TextEnds
<1>11. Upto(t, L) = SubSeq(t, 1, c) /\ Upto(s, n) = SubSeq(s, 1, c)
  BY <1>10, UptoIs
<1>12. SubSeq(t, 1, c) = SubSeq(s, 1, c)
  <2>1. 1 \in 1 .. Len(s) + 1 /\ c \in 1 - 1 .. Len(s)
    BY DEF TextEnds
  <2>2. PICK u \in Seq(Bytes) : PartOf(s, 1, c, u)
    BY <2>1, Part
  <2>3. u = SubSeq(s, 1, c) /\ Len(u) = c /\ \A k \in 1 .. c : u[k] = s[k]
    BY <2>2 DEF PartOf
  <2>4. 1 \in 1 .. Len(t) + 1 /\ c \in 1 - 1 .. Len(t) /\ Len(u) = c - 1 + 1
    BY <1>7, <2>3
  <2>5. \A k \in 1 .. Len(u) : u[k] = t[1 + k - 1]
    BY <1>7, <2>3
  <2>6. SubSeq(t, 1, c) = u
    BY <2>4, <2>5, PartIs
  <2> QED BY <2>3, <2>6, Zenon
<1> QED BY <1>1, <1>2, <1>5, <1>11, <1>12, Zenon

\* What Read reads for f, and where it goes on.
ReadValue(f) ==
    CASE f.kind = "uint" -> ReadUInt(Take(next, f.n))
      [] f.kind = "int" -> ReadInt(Take(next, f.n))
      [] f.kind \in {"float", "double"} -> Take(next, f.n)
      [] f.kind = "string" -> Upto(SubSeq(src, StringAt(f) + 1, Size), StringLength(f))

ReadNext(f) == IF f.kind = "string" THEN StringAt(f) + StringLength(f) ELSE next + f.n

\* The n bytes of text of a field of fixed size.
LEMMA PaddedRead ==
    ASSUME IsArray(src), next \in Nat, NEW s \in Seq(Bytes), NEW n \in Nat,
           next + n <= Size, Holds(src, next, Padded(s, n))
    PROVE  Upto(SubSeq(src, next + 1, Size), n) = Upto(s, n)
<1>1. PICK c \in Nat : TextEnds(s, n, c)
  BY TextEndsSomewhere
<1>2. c <= Len(s) /\ c <= n /\ (c = Len(s) \/ c = n \/ s[c + 1] = 0)
  BY <1>1, Zenon DEF TextEnds
<1>3. \A j \in 1 .. n : src[next + j] = IF j <= Len(s) THEN s[j] ELSE 0
  <2>1. \A j \in 1 .. n : Padded(s, n)[j] = IF j <= Len(s) THEN s[j] ELSE 0
    BY DEF Padded
  <2>2. Len(Padded(s, n)) = n
    BY PaddedType
  <2> QED BY <2>1, <2>2, Zenon DEF Holds
<1>4. \A j \in 1 .. c : src[next + j] = s[j]
  BY <1>2, <1>3
<1>5. next + c <= Size
  BY <1>2, DataAssumption
<1>6. c = n \/ (next + c + 1 <= Size /\ src[next + c + 1] = 0)
  <2> SUFFICES ASSUME c # n PROVE next + c + 1 <= Size /\ src[next + c + 1] = 0
    OBVIOUS
  <2>1. PICK j \in 1 .. n : j = c + 1 /\ next + j = next + c + 1
    BY <1>2
  <2>2. src[next + j] = 0
    BY <1>2, <1>3, <2>1
  <2> QED BY <1>2, <2>1, <2>2, DataAssumption
<1> QED BY <1>1, <1>2, <1>4, <1>5, <1>6, TextRead

LEMMA Within ==
    ASSUME NEW a \in Nat, NEW w \in Nat, NEW l \in Nat, NEW c \in Nat, NEW z \in Nat,
           c <= l, a + w + l + 1 <= z
    PROVE  a + w <= z /\ (a + w) + c + 1 <= z
OBVIOUS

\* A text with its length in front.
LEMMA LengthAndTextRead ==
    ASSUME IsArray(src), next \in Nat, NEW f \in Fields, f.kind = "string", f.n = 0,
           NEW s \in Seq(Bytes), s = f.value,
           next + LengthWidth + Len(s) + 1 <= Size, Holds(src, next, LengthAndText(s))
    PROVE  /\ StringLength(f) = Len(s) + 1
           /\ Upto(SubSeq(src, (next + LengthWidth) + 1, Size), Len(s) + 1) = Upto(s, Len(s))
<1>1. PICK w \in Nat : w = LengthWidth
  BY DataAssumption
<1>2. PICK l \in Nat : l = Len(s) + 1
  OBVIOUS
<1>3. PICK c \in Nat : TextEnds(s, Len(s), c)
  <2>1. Len(s) \in Nat
    OBVIOUS
  <2> QED BY <2>1, TextEndsSomewhere
<1>4. c <= Len(s)
  BY <1>3, Zenon DEF TextEnds
<1>a. Len(s) \in Nat /\ Size \in Nat /\ next + w + Len(s) + 1 <= Size
  BY <1>1, DataAssumption, LenProperties, Zenon
<1>b. next + w <= Size /\ (next + w) + c + 1 <= Size
  BY <1>a, <1>4, Within, Zenon
<1>5. PICK x : x = WriteUInt(w, l)
  OBVIOUS
<1>6. PICK t : t = LengthAndText(s)
  OBVIOUS
<1>7. /\ Len(t) = w + c + 1
      /\ \A j \in 1 .. w : t[j] = x[j]
      /\ \A j \in 1 .. c : t[w + j] = s[j]
      /\ t[w + c + 1] = 0
  <2>1. TextBytes(s, c, WriteUInt(LengthWidth, Len(s) + 1), LengthAndText(s))
    BY <1>3, LengthAndTextIs
  <2>2. TextBytes(s, c, x, t)
    BY <1>1, <1>2, <1>5, <1>6, <2>1, Zenon
  <2> QED BY <1>1, <2>2, Zenon DEF TextBytes
<1>8. \A j \in 1 .. w + c + 1 : src[next + j] = t[j]
  BY <1>6, <1>7, Zenon DEF Holds
<1>9. x \in Seq(Bytes) /\ Len(x) = w
  BY <1>5, WriteUIntType
<1>10. Take(next, w) = x
  <2>1. Holds(src, next, x)
    BY <1>7, <1>8, <1>9 DEF Holds
  <2>2. next + w <= Size
    BY <1>b, Zenon
  <2> QED BY <1>9, <2>1, <2>2, TakeIs
<1>11. ReadInt(x) = l
  <2>1. PICK m \in Nat \ {0} : m = Power[w]
    BY PowerType
  <2>2. l < m \div 2
    <3>1. IsValue(f)
      BY DataAssumption
    <3> QED BY <1>1, <1>2, <2>1, <3>1 DEF IsValue
  <2>3. PICK h \in 0 .. m - 1 : h = m \div 2
    BY Half
  <2>4. l \in 0 .. m - 1 /\ ~(l >= h)
    BY <2>2, <2>3
  <2>5. l \in 0 .. Power[w] - 1
    BY <2>1, <2>4, Zenon
  <2>6. ReadInt(x) = Signed(l, Power[w])
    BY <1>5, <2>5, SignedRead
  <2> QED BY <2>1, <2>3, <2>4, <2>6, Zenon DEF Signed
<1>12. StringLength(f) = l
  BY <1>1, <1>10, <1>11, Zenon DEF StringLength
<1>13. PICK a \in Nat : a = next + w
  OBVIOUS
<1>14. \A j \in 1 .. c : src[a + j] = s[j]
  <2> SUFFICES ASSUME NEW j \in 1 .. c PROVE src[a + j] = s[j]
    OBVIOUS
  <2>1. PICK k \in 1 .. w + c + 1 : k = w + j /\ next + k = a + j
    BY <1>13
  <2> QED BY <1>7, <1>8, <2>1
<1>15. a + c + 1 <= Size /\ src[a + c + 1] = 0
  <2>1. PICK k \in 1 .. w + c + 1 : k = w + c + 1 /\ next + k = a + c + 1
    BY <1>13
  <2>2. a + c + 1 <= Size
    BY <1>b, <1>13, Zenon
  <2> QED BY <1>7, <1>8, <2>1, <2>2
<1>16. Upto(SubSeq(src, a + 1, Size), l) = Upto(s, Len(s))
  <2>1. c <= l /\ a + c <= Size /\ Len(s) \in Nat
    BY <1>2, <1>4, <1>15, DataAssumption
  <2> QED BY <1>3, <1>14, <1>15, <2>1, TextRead
<1> QED BY <1>1, <1>2, <1>12, <1>13, <1>16, Zenon

\* Whatever the array holds around it, a value is read as it was written.
LEMMA FieldRead ==
    ASSUME IsArray(src), next \in Nat, NEW f \in Fields, next + Width(f) <= Size,
           Holds(src, next, Encoded(f))
    PROVE  ReadValue(f) = Meaning(f) /\ ReadNext(f) = next + Width(f)
<1>1. f.n \in Nat /\ IsValue(f) /\ LengthWidth \in Nat
  BY DataAssumption
<1>2. CASE f.kind \in {"uint", "int"}
  <2>1. PICK v : IntegerOf(f, v)
    BY <1>2, IntegerField
  <2>2. /\ v \in 0 .. Power[f.n] - 1 /\ Encoded(f) = WriteUInt(f.n, v)
        /\ f.value = IF f.kind = "uint" THEN v ELSE Signed(v, Power[f.n])
    BY <2>1, Zenon DEF IntegerOf
  <2>3. v \in Nat
    BY <1>1, <2>2, PowerType
  <2>4. PICK x \in Seq(Bytes) : x = WriteUInt(f.n, v) /\ Len(x) = f.n
    BY <1>1, <2>3, WriteUIntType
  <2>5. Width(f) = f.n
    BY <1>2 DEF Width
  <2>6. Take(next, f.n) = x
    BY <1>1, <2>2, <2>4, <2>5, TakeIs
  <2>7. ReadUInt(x) = v /\ ReadInt(x) = Signed(v, Power[f.n])
    BY <1>1, <2>2, <2>4, IntegerRead, SignedRead
  <2>8. Meaning(f) = f.value /\ ReadNext(f) = next + f.n
    BY <1>2 DEF Meaning, ReadNext
  <2>9. CASE f.kind = "uint"
    <3>1. ReadValue(f) = ReadUInt(x)
      BY <2>6, <2>9 DEF ReadValue
    <3> QED BY <2>2, <2>5, <2>7, <2>8, <2>9, <3>1
  <2>10. CASE f.kind = "int"
    <3>1. ReadValue(f) = ReadInt(x)
      BY <2>6, <2>10 DEF ReadValue
    <3>2. f.value = Signed(v, Power[f.n])
      BY <2>2, <2>10
    <3> QED BY <2>5, <2>7, <2>8, <3>1, <3>2
  <2> QED BY <1>2, <2>9, <2>10
<1>3. CASE f.kind \in {"float", "double"}
  <2>1. Encoded(f) = f.value /\ f.value \in [1 .. f.n -> Bytes]
    BY <1>1, <1>3 DEF Encoded, IsValue
  <2>2. PICK x \in Seq(Bytes) : x = f.value /\ Len(x) = f.n
    BY <1>1, <2>1
  <2>3. Width(f) = f.n /\ Meaning(f) = f.value /\ ReadNext(f) = next + f.n
    BY <1>3 DEF Width, Meaning, ReadNext
  <2>4. Take(next, f.n) = x
    BY <1>1, <2>1, <2>2, <2>3, TakeIs
  <2>5. ReadValue(f) = Take(next, f.n)
    BY <1>3 DEF ReadValue
  <2> QED BY <2>2, <2>3, <2>4, <2>5
<1>4. CASE f.kind = "string"
  <2>1. PICK s \in Seq(Bytes) : s = f.value
    BY <1>1, <1>4 DEF IsValue
  <2>2. ReadValue(f) = Upto(SubSeq(src, StringAt(f) + 1, Size), StringLength(f))
    BY <1>4 DEF ReadValue
  <2>3. ReadNext(f) = StringAt(f) + StringLength(f)
    BY <1>4 DEF ReadNext
  <2>4. CASE f.n = 0
    <3>1. /\ Encoded(f) = LengthAndText(s) /\ Width(f) = LengthWidth + Len(s) + 1
          /\ StringAt(f) = next + LengthWidth /\ Meaning(f) = Upto(s, Len(s))
      BY <1>4, <2>1, <2>4 DEF Encoded, Width, StringAt, Meaning
    <3>2. next + LengthWidth + Len(s) + 1 <= Size
      BY <1>1, <3>1
    <3>3. /\ StringLength(f) = Len(s) + 1
          /\ Upto(SubSeq(src, (next + LengthWidth) + 1, Size), Len(s) + 1) = Upto(s, Len(s))
      BY <1>4, <2>1, <2>4, <3>1, <3>2, LengthAndTextRead, Zenon
    <3>4. ReadValue(f) = Meaning(f)
      BY <2>2, <3>1, <3>3, Zenon
    <3>5. ReadNext(f) = next + Width(f)
      BY <1>1, <2>3, <3>1, <3>3
    <3> QED BY <3>4, <3>5
  <2>5. CASE f.n # 0
    <3>1. /\ Encoded(f) = Padded(s, f.n) /\ Width(f) = f.n
          /\ StringAt(f) = next /\ StringLength(f) = f.n /\ Meaning(f) = Upto(s, f.n)
      BY <1>4, <2>1, <2>5 DEF Encoded, Width, StringAt, StringLength, Meaning
    <3>2. Upto(SubSeq(src, next + 1, Size), f.n) = Upto(s, f.n)
      BY <1>1, <3>1, PaddedRead
    <3> QED BY <2>2, <2>3, <3>1, <3>2, Zenon
  <2> QED BY <2>4, <2>5
<1> QED BY <1>1, <1>2, <1>3, <1>4 DEF IsValue

\* ReadBack's condition.
OneDouble(fs) == \A i \in 2 .. Len(fs) : fs[i].kind # "double"

\* The values lie behind one another, from the first byte to the index.
Laid(at, b, ix, fs) ==
    /\ at[1] = 0 /\ at[Len(fs) + 1] = ix
    /\ \A i \in 1 .. Len(fs) :
         /\ at[i] \in Nat /\ at[i + 1] = at[i] + Width(fs[i]) /\ at[i + 1] <= ix
         /\ Holds(b, at[i], Encoded(fs[i]))

\* The reader is behind the last value it has read.
InStep(at, fs, nx, rd) ==
    nx = at[Len(rd) + 1] /\ \A i \in 1 .. Len(rd) : rd[i] = Meaning(fs[i])

DataTypes(b, ix, fs, rd) ==
    /\ IsArray(b) /\ ix \in Nat /\ ix <= Size /\ fs \in Seq(Fields)
    /\ (\E V : rd \in Seq(V)) /\ Len(rd) <= Len(fs)

DataInv ==
    /\ DataTypes(src, index, fields, received)
    /\ OneDouble(fields) => \E at : Laid(at, src, index, fields) /\ InStep(at, fields, next, received)

LEMMA DataInvInit == DataInit => DataInv
<1> SUFFICES ASSUME DataInit PROVE DataInv
  OBVIOUS
<1>1. PICK b \in {0, Base - 1} : src = [i \in 1 .. Size |-> b]
  BY DEF DataInit
<1>2. index = 0 /\ next = 0 /\ fields = << >> /\ received = << >>
  BY DEF DataInit
<1>3. IsArray(src)
  <2>1. b \in Bytes /\ Size \in Nat
    BY DataAssumption DEF Bytes
  <2>2. PICK B : B = Bytes
    OBVIOUS
  <2>3. src \in Seq(B) /\ Len(src) = Size
    BY <1>1, <2>1, <2>2
  <2> QED BY <2>2, <2>3 DEF IsArray
<1>4. DataTypes(src, index, fields, received)
  <2>1. received \in Seq({}) /\ fields \in Seq(Fields) /\ Len(received) <= Len(fields)
    BY <1>2
  <2>2. index \in Nat /\ index <= Size
    BY <1>2, DataAssumption
  <2> QED BY <1>3, <2>1, <2>2, Zenon DEF DataTypes
<1>5. PICK at : at = [i \in 1 .. 1 |-> 0]
  OBVIOUS
<1>6. Laid(at, src, index, fields) /\ InStep(at, fields, next, received)
  BY <1>2, <1>5 DEF Laid, InStep
<1> QED BY <1>4, <1>6, Zenon DEF DataInv

\* One value more, where the last one ended: those before it stay as they are.
LEMMA LaidMore ==
    ASSUME NEW at, NEW b, NEW ix \in Nat, NEW fs \in Seq(Fields), Laid(at, b, ix, fs),
           NEW f \in Fields, NEW d, \A j \in 1 .. ix : d[j] = b[j], Holds(d, ix, Encoded(f))
    PROVE  \E e : e[1] = 0 /\ Laid(e, d, ix + Width(f), Append(fs, f))
<1>1. PICK n \in Nat : n = Len(fs)
  OBVIOUS
<1>2. PICK gs : gs = Append(fs, f)
  OBVIOUS
<1>3. Len(gs) = n + 1 /\ (\A i \in 1 .. n : gs[i] = fs[i]) /\ gs[n + 1] = f
  BY <1>1, <1>2
<1>4. PICK w \in Nat : w = Width(f)
  BY EncodedFits
<1>5. PICK e : e = [i \in 1 .. n + 2 |-> IF i = n + 2 THEN ix + w ELSE at[i]]
  OBVIOUS
<1>6. (\A i \in 1 .. n + 1 : e[i] = at[i]) /\ e[n + 2] = ix + w
  BY <1>5
<1>7. at[1] = 0 /\ at[n + 1] = ix
  BY <1>1, Zenon DEF Laid
<1>8. \A i \in 1 .. n : /\ at[i] \in Nat /\ at[i + 1] = at[i] + Width(fs[i]) /\ at[i + 1] <= ix
                        /\ Holds(b, at[i], Encoded(fs[i]))
  BY <1>1, Zenon DEF Laid
<1>9. ASSUME NEW i \in 1 .. n
      PROVE  /\ e[i] \in Nat /\ e[i + 1] = e[i] + Width(gs[i]) /\ e[i + 1] <= ix + w
             /\ Holds(d, e[i], Encoded(gs[i]))
  <2>1. PICK g \in Fields : g = fs[i] /\ g = gs[i]
    BY <1>1, <1>3
  <2>2. PICK a \in Nat : a = at[i] /\ a = e[i]
    BY <1>6, <1>8
  <2>3. PICK u \in Nat : u = Width(g) /\ Len(Encoded(g)) <= u
    BY EncodedFits
  <2>4. PICK x \in Seq(Bytes) : x = Encoded(g) /\ Len(x) <= u
    BY <2>3, EncodedFits
  <2>5. i + 1 \in 1 .. n + 1
    OBVIOUS
  <2>6. e[i + 1] = at[i + 1]
    BY <1>6, <2>5
  <2>7. at[i + 1] = a + u /\ a + u <= ix /\ Holds(b, a, x)
    BY <1>8, <2>1, <2>2, <2>3, <2>4
  <2>8. e[i + 1] = a + u
    BY <2>6, <2>7
  <2>9. a + u <= ix + w
    BY <2>7
  <2>10. Holds(d, a, x)
    <3> SUFFICES ASSUME NEW j \in 1 .. Len(x) PROVE d[a + j] = x[j]
      BY DEF Holds
    <3>1. a + j \in 1 .. ix
      BY <2>4, <2>7
    <3>2. b[a + j] = x[j]
      BY <2>7 DEF Holds
    <3> QED BY <3>1, <3>2
  <2> QED BY <2>1, <2>2, <2>3, <2>4, <2>8, <2>9, <2>10, Zenon
<1>10. /\ e[n + 1] \in Nat /\ e[(n + 1) + 1] = e[n + 1] + Width(gs[n + 1]) /\ e[(n + 1) + 1] <= ix + w
       /\ Holds(d, e[n + 1], Encoded(gs[n + 1]))
  <2>1. e[n + 1] = ix
    BY <1>6, <1>7
  <2>2. e[(n + 1) + 1] = ix + w
    BY <1>6
  <2>3. ix + w <= ix + w
    OBVIOUS
  <2> QED BY <1>3, <1>4, <2>1, <2>2, <2>3, Zenon
<1>11. \A i \in 1 .. n + 1 :
         /\ e[i] \in Nat /\ e[i + 1] = e[i] + Width(gs[i]) /\ e[i + 1] <= ix + w
         /\ Holds(d, e[i], Encoded(gs[i]))
  <2> SUFFICES ASSUME NEW i \in 1 .. n + 1
               PROVE  /\ e[i] \in Nat /\ e[i + 1] = e[i] + Width(gs[i]) /\ e[i + 1] <= ix + w
                      /\ Holds(d, e[i], Encoded(gs[i]))
    OBVIOUS
  <2>1. i \in 1 .. n \/ i = n + 1
    OBVIOUS
  <2> QED BY <1>9, <1>10, <2>1, Zenon
<1>12. e[1] = 0 /\ e[(n + 1) + 1] = ix + w
  BY <1>6, <1>7
<1>13. Laid(e, d, ix + w, gs)
  BY <1>3, <1>11, <1>12, Zenon DEF Laid
<1> QED BY <1>2, <1>4, <1>12, <1>13, Zenon

LEMMA PutType ==
    ASSUME IsArray(src), NEW p, NEW x \in Seq(Bytes)
    PROVE  IsArray(Put(p, x))
<1>1. PICK B : B = Bytes
  OBVIOUS
<1>2. PICK y : y = Put(p, x)
  OBVIOUS
<1>3. \A j \in 1 .. Size : src[j] \in B
  BY <1>1 DEF IsArray
<1>4. \A i \in DOMAIN x : x[i] \in B
  BY <1>1
<1>5. \A j \in 1 .. Size : (IF j - p \in DOMAIN x THEN x[j - p] ELSE src[j]) \in B
  BY <1>3, <1>4, Zenon
<1>6. y \in [1 .. Size -> B]
  BY <1>2, <1>5, Zenon DEF Put
<1>7. Size \in Nat
  BY DataAssumption
<1>8. y \in Seq(B) /\ Len(y) = Size
  BY <1>6, <1>7
<1> QED BY <1>1, <1>2, <1>8, Zenon DEF IsArray

LEMMA PutKeeps ==
    ASSUME NEW p \in Nat, NEW x \in Seq(Bytes), p + Len(x) <= Size
    PROVE  (\A j \in 1 .. p : Put(p, x)[j] = src[j]) /\ Holds(Put(p, x), p, x)
<1>1. PICK y : y = Put(p, x)
  OBVIOUS
<1>2. \A j \in 1 .. Size : y[j] = IF j - p \in DOMAIN x THEN x[j - p] ELSE src[j]
  BY <1>1 DEF Put
<1>3. Size \in Nat /\ DOMAIN x = 1 .. Len(x) /\ Len(x) \in Nat
  BY DataAssumption
<1>4. ASSUME NEW j \in 1 .. p PROVE y[j] = src[j]
  <2>1. j \in 1 .. Size /\ j - p \notin DOMAIN x
    BY <1>3
  <2> QED BY <1>2, <2>1
<1>5. ASSUME NEW j \in 1 .. Len(x) PROVE y[p + j] = x[j]
  <2>1. PICK k : k = p + j
    OBVIOUS
  <2>2. k \in 1 .. Size /\ k - p = j /\ j \in DOMAIN x
    BY <1>3, <2>1
  <2> QED BY <1>2, <2>1, <2>2
<1> QED BY <1>1, <1>4, <1>5 DEF Holds

LEMMA WriteStep ==
    ASSUME DataInv, NEW f \in Fields, Write(f)
    PROVE  DataInv'
<1>1. /\ received = << >> /\ index + Width(f) <= Size
      /\ src' = Put(Place(f), Encoded(f)) /\ index' = index + Width(f)
      /\ fields' = Append(fields, f) /\ next' = next /\ received' = received
  BY Zenon DEF Write
<1>2. IsArray(src) /\ index \in Nat /\ index <= Size /\ fields \in Seq(Fields)
  BY DEF DataInv, DataTypes
<1>3. PICK x \in Seq(Bytes) : x = Encoded(f)
  BY EncodedFits
<1>4. PICK w \in Nat : w = Width(f) /\ Len(x) <= w
  BY <1>3, EncodedFits
<1>5. IsArray(src')
  BY <1>1, <1>2, <1>3, PutType
<1>6. DataTypes(src', index', fields', received')
  <2>1. index' \in Nat /\ index' <= Size
    BY <1>1, <1>2, <1>4
  <2>2. fields' \in Seq(Fields) /\ Len(fields') = Len(fields) + 1
    BY <1>1, <1>2
  <2>3. received' \in Seq({}) /\ Len(received') <= Len(fields')
    <3>1. received' = << >>
      BY <1>1
    <3> QED BY <1>2, <2>2, <3>1
  <2> QED BY <1>5, <2>1, <2>2, <2>3, Zenon DEF DataTypes
<1>7. ASSUME OneDouble(fields') PROVE \E e : Laid(e, src', index', fields') /\ InStep(e, fields', next', received')
  <2>1. PICK n \in Nat : n = Len(fields)
    BY <1>2
  <2>2. Len(fields') = n + 1 /\ (\A i \in 1 .. n : fields'[i] = fields[i]) /\ fields'[n + 1] = f
    BY <1>1, <1>2, <2>1
  <2>3. OneDouble(fields)
    <3> SUFFICES ASSUME NEW i \in 2 .. n PROVE fields[i].kind # "double"
      BY <2>1 DEF OneDouble
    <3>1. i \in 1 .. n /\ i \in 2 .. Len(fields')
      BY <2>2
    <3> QED BY <1>7, <2>2, <3>1 DEF OneDouble
  <2>4. PICK at : Laid(at, src, index, fields) /\ InStep(at, fields, next, received)
    BY <2>3, Zenon DEF DataInv
  <2>5. Place(f) = index
    <3>1. CASE f.kind # "double"
      BY <3>1, Zenon DEF Place
    <3>2. CASE n = 0
      <4>1. at[1] = 0 /\ at[n + 1] = index /\ n + 1 = 1
        BY <2>1, <2>4, <3>2 DEF Laid
      <4> QED BY <4>1 DEF Place
    <3>3. CASE n # 0
      <4>1. n + 1 \in 2 .. Len(fields')
        BY <2>2, <3>3
      <4>2. f.kind # "double"
        BY <1>7, <2>2, <4>1, Zenon DEF OneDouble
      <4> QED BY <3>1, <4>2
    <3> QED BY <3>2, <3>3
  <2>6. index + Len(x) <= Size
    <3>1. Len(x) \in Nat /\ Size \in Nat
      BY DataAssumption
    <3> QED BY <1>1, <1>2, <1>4, <3>1
  <2>7. (\A j \in 1 .. index : src'[j] = src[j]) /\ Holds(src', index, x)
    BY <1>1, <1>2, <1>3, <2>5, <2>6, PutKeeps
  <2>8. PICK e : e[1] = 0 /\ Laid(e, src', index + Width(f), Append(fields, f))
    BY <1>2, <1>3, <2>4, <2>7, LaidMore
  <2>9. next = 0
    <3>1. Len(received) + 1 = 1
      BY <1>1
    <3> QED BY <2>4, <3>1 DEF InStep, Laid
  <2>10. InStep(e, fields', next', received')
    <3>1. received' = << >> /\ next' = 0
      BY <1>1, <2>9
    <3> QED BY <2>8, <3>1 DEF InStep
  <2> QED BY <1>1, <2>8, <2>10, Zenon
<1> QED BY <1>6, <1>7, Zenon DEF DataInv

LEMMA ReadStep ==
    ASSUME DataInv, Read
    PROVE  DataInv'
<1>1. PICK k : k = Len(received) + 1
  OBVIOUS
<1>2. PICK f : f = fields[k]
  OBVIOUS
<1>3. /\ Len(received) < Len(fields) /\ received' = Append(received, ReadValue(f)) /\ next' = ReadNext(f)
      /\ UNCHANGED << src, index, fields >>
  BY <1>1, <1>2, Zenon DEF Read, ReadValue, ReadNext
<1>4. IsArray(src) /\ index \in Nat /\ index <= Size /\ fields \in Seq(Fields) /\ \E V : received \in Seq(V)
  BY DEF DataInv, DataTypes
<1>5. PICK V : received \in Seq(V)
  BY <1>4
<1>6. PICK m \in Nat : m = Len(received) /\ k = m + 1 /\ k \in 1 .. Len(fields) /\ f \in Fields
  BY <1>1, <1>2, <1>3, <1>4, <1>5
<1>7. PICK v : v = ReadValue(f)
  OBVIOUS
<1>8. PICK W : W = V \cup {v}
  OBVIOUS
<1>9. received' \in Seq(W) /\ Len(received') = k /\ (\A i \in 1 .. m : received'[i] = received[i]) /\ received'[k] = v
  <2>1. received \in Seq(W) /\ v \in W
    BY <1>5, <1>8
  <2>2. received' = Append(received, v)
    BY <1>3, <1>7
  <2> QED BY <1>6, <2>1, <2>2
<1>10. DataTypes(src', index', fields', received')
  <2>1. Len(received') <= Len(fields)
    BY <1>4, <1>6, <1>9
  <2> QED BY <1>3, <1>4, <1>9, <2>1, Zenon DEF DataTypes
<1>11. ASSUME OneDouble(fields') PROVE \E at : Laid(at, src', index', fields') /\ InStep(at, fields', next', received')
  <2>1. PICK at : Laid(at, src, index, fields) /\ InStep(at, fields, next, received)
    BY <1>3, <1>11, Zenon DEF DataInv
  <2>2. /\ at[k] \in Nat /\ at[k + 1] = at[k] + Width(f) /\ at[k + 1] <= index
        /\ Holds(src, at[k], Encoded(f))
    BY <1>2, <1>6, <2>1, Zenon DEF Laid
  <2>3. next = at[k] /\ \A i \in 1 .. m : received[i] = Meaning(fields[i])
    BY <1>1, <1>6, <2>1, Zenon DEF InStep
  <2>4. PICK w \in Nat : w = Width(f)
    BY <1>6, EncodedFits
  <2>5. next \in Nat /\ next + Width(f) <= Size
    <3>1. Size \in Nat
      BY DataAssumption
    <3> QED BY <1>4, <2>2, <2>3, <2>4, <3>1
  <2>6. ReadValue(f) = Meaning(f) /\ ReadNext(f) = next + Width(f)
    <3>1. Holds(src, next, Encoded(f))
      BY <2>2, <2>3, Zenon
    <3> QED BY <1>4, <1>6, <2>5, <3>1, FieldRead
  <2>7. next' = at[k + 1]
    BY <1>3, <2>2, <2>3, <2>6, Zenon
  <2>8. \A i \in 1 .. k : received'[i] = Meaning(fields[i])
    <3> SUFFICES ASSUME NEW i \in 1 .. k PROVE received'[i] = Meaning(fields[i])
      OBVIOUS
    <3>1. i \in 1 .. m \/ i = k
      BY <1>6
    <3> QED BY <1>2, <1>7, <1>9, <2>3, <2>6, <3>1, Zenon
  <2>9. InStep(at, fields, next', received')
    BY <1>9, <2>7, <2>8, Zenon DEF InStep
  <2> QED BY <1>3, <2>1, <2>9, Zenon
<1> QED BY <1>10, <1>11, Zenon DEF DataInv

LEMMA DataNextKeeps == DataInv /\ [DataNext]_dataVars => DataInv'
<1> SUFFICES ASSUME DataInv, [DataNext]_dataVars PROVE DataInv'
  OBVIOUS
<1>1. CASE \E f \in Fields : Write(f)
  BY <1>1, WriteStep
<1>2. CASE Read
  BY <1>2, ReadStep
<1>3. CASE UNCHANGED dataVars
  BY <1>3, Zenon DEF dataVars, DataInv
<1> QED BY <1>1, <1>2, <1>3, Zenon DEF DataNext

(***************************************************************************)
(* What DataUtil writes into an array, it reads back, for integers of any  *)
(* width, texts of any length and any number of values: the reader is      *)
(* where the writer was, and a value is neither changed by its neighbours  *)
(* nor by what the array held before.                                      *)
(***************************************************************************)
THEOREM ValuesReadBack == DataSpec => []ReadBack
<1>1. DataInv => ReadBack
  <2> SUFFICES ASSUME DataInv, OneDouble(fields)
               PROVE  /\ \A i \in DOMAIN received : received[i] = Meaning(fields[i])
                      /\ received # << >> /\ Len(received) = Len(fields) => next = index
    BY Zenon DEF ReadBack, OneDouble
  <2>1. PICK at : Laid(at, src, index, fields) /\ InStep(at, fields, next, received)
    BY Zenon DEF DataInv
  <2>2. PICK V : received \in Seq(V)
    BY DEF DataInv, DataTypes
  <2>3. DOMAIN received = 1 .. Len(received)
    BY <2>2
  <2>4. \A i \in DOMAIN received : received[i] = Meaning(fields[i])
    BY <2>1, <2>3, Zenon DEF InStep
  <2>5. Len(received) = Len(fields) => next = index
    BY <2>1, Zenon DEF InStep, Laid
  <2> QED BY <2>4, <2>5, Zenon
<1> QED BY <1>1, DataInvInit, DataNextKeeps, PTL DEF DataSpec
============================================================================
