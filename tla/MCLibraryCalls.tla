--------------------------- MODULE MCLibraryCalls ---------------------------
(* LibraryCalls on small inputs; integers of decimals have 16 bits.         *)
EXTENDS LibraryCalls

One     == [type |-> "literal", text |-> <<49>>]
Twelve  == [type |-> "literal", text |-> <<49, 50>>]
\* A string that holds a quote and the start of a comment.
AString == [type |-> "string", text |-> <<34, 47, 47>>]
Bad1    == [type |-> "string", text |-> Bad]
K       == <<107>>

List(s) == Array([i \in 0 .. Len(s) - 1 |-> s[i + 1]])
ListsOf(S) == {List(s) : s \in SeqOf(S, 2)}
ObjectsOf(S) ==
  UNION {{Object(f) : f \in [keys -> S]} : keys \in SUBSET {<<>>, K}}

Flat   == {Null, Twelve, AString}
Nested == Flat \cup ListsOf(Flat) \cup ObjectsOf(Flat)
Small  == {Null, One, List(<<>>), List(<<One>>), List(<<List(<<One>>)>>), Object(Empty)}
MCValues ==
  Nested \cup ListsOf(Small) \cup ObjectsOf(Small)
    \cup {List(<<List(<<One>>), x>>) : x \in ListsOf(Small)}
    \cup {List([i \in 1 .. n |-> One]) : n \in 3 .. 5}
    \cup {Object(Put(f, <<107, 0>>, One)) : f \in {Empty, Put(Empty, K, Twelve)}}

MCGaps == {<<>>, <<32>>, <<13, 10, 9>>, <<47, 42, 42, 47>>, <<47, 47, 34, 10>>,
           <<32, 47, 42, 42, 34, 47, 42, 47, 32>>}
Number1(text) == [type |-> "literal", text |-> text]
MCWords ==
  {Sign("{"), Sign("]"), Sign(","), Sign(":"), null, One, Name(<<>>),
   Number1(<<45, 48, 46, 53>>), Number1(<<49, 101, 43, 57>>), Number1(<<50, 69, 49>>)}
    \cup {Name(s) : s \in {<<x, y>> : x, y \in {34, 39, 42, 47, 92, 125}}}

MCNumbers == -300 .. 300
Typed1(type, n) == [type |-> type, n |-> n]
MCScalars ==
  {Typed1("int", n) : n \in -128 .. 127} \cup {Typed1("uint", n) : n \in 0 .. 255}
    \cup {Typed1("real", Double(x)) : x \in -600 .. 600}
    \cup {Typed1(type, n) : type \in {"boolean", "string", "array", "object"}, n \in {0, 1}}
    \cup {Typed1("null", 0)}

Simple == {Null, Typed1("int", -1), Typed1("int", 2), Typed1("uint", 1), Typed1("real", 1),
           Typed1("boolean", 0), Typed1("boolean", 1)}
            \cup {Name(s) : s \in {<<>>, <<0>>, <<97>>, <<97, 0>>, <<97, 200>>, <<98>>}}
Pairs == {Null, Typed1("int", 2), Name(<<97>>)}
MCComparables ==
  Simple \cup {Array(f) : f \in UNION {[S -> Pairs] : S \in {{}, {0}, {1}, {0, 1}}}}
    \cup {Object(f) : f \in UNION {[S -> {Null, Typed1("int", 2)}] :
                                      S \in SUBSET {<<>>, <<97>>, <<97, 97>>}}}
    \cup {Array(f) : f \in [{0} -> {Array(Empty), Object(Empty), Array([i \in {1} |-> Null])}]}
MCNesting == [v \in MCComparables |-> Depth(v)]

MCRoots ==
  Nested \cup {Object(Put(Empty, K, v)) : v \in ListsOf(Flat) \cup ObjectsOf(Flat)}
Steps == {Index(0), Index(1), Index(12), Key(K), Key(<<107, 37, 93>>), Key(<<46, 107>>), Key(<<>>)}
MCPaths == SeqOf(Steps, 2) \cup {<<Key(K), Key(K), Index(1)>>, <<Key(K), Index(1), Key(K)>>}

MCTokens == {Sign("{"), Sign("}"), Sign("["), Sign("]"), Sign(","), Sign(":"),
             AString, One, Bad1}
MCBytes == {0, 10, 32, 43, 47, 65, 97, 126, 255}
MCCodePoints == {0, 34, 92, 31, 32, 127, 128, 2047, 2048, 55295, 65533, 65536, 131071, 262143}

Longer ==
  <<Sign("{"), AString, Sign(":"), Sign("["), One, Sign(","), Sign("["), One, Sign("]"), Sign("]"),
    Sign(","), Name(K), Sign(":"), Sign("{"), AString, Sign(":"), One, Sign("}"), Sign("}")>>
Edits ==
  {Longer} \cup {RemoveAt(Longer, i) : i \in 1 .. Len(Longer)}
    \cup {ReplaceAt(Longer, i, t) : i \in 1 .. Len(Longer), t \in MCTokens \cup {Name(K)}}
    \cup {InsertAt(Longer, i, t) : i \in 1 .. Len(Longer) + 1, t \in MCTokens}

MCAdded == {[type |-> "literal", text |-> "1"], Null}
MCNumerators == (-120 .. 120) \cup (-32768 .. -32600) \cup (32600 .. 32767)
MCDivisors == {1, 10, 100, 3, 8, 1000, 250}
MCFactors == {-32767, -12345, -2500, -999, -240, -11, -1, 0, 7, 160, 255, 990, 4000, 32767}
MCUnits == {-32767, -12345, -1234, -105, -100, -95, -7, -1, 0, 3, 50, 99, 100, 125, 2505, 32700}
MCArguments ==
  {[type |-> "int", n |-> n] : n \in {-400, -13, -1, 0, 1, 25, 32767}}
    \cup {[type |-> "double", n |-> n, d |-> d] : n \in {-2501, -105, -7, -5, 0, 5, 7, 125}, d \in {1, 2, 8, 32}}
    \cup {[type |-> "text", sign |-> <<Blank, Minus>>, whole |-> <<1>>, point |-> <<Point>>, fraction |-> <<4, 9, 5>>],
           [type |-> "text", sign |-> <<Plus>>, whole |-> <<2, 5>>, point |-> <<>>, fraction |-> <<>>],
           [type |-> "text", sign |-> <<>>, whole |-> <<4, 0, 0, 0, 0>>, point |-> <<>>, fraction |-> <<>>]}
    \cup {[type |-> "decimal", m_value |-> v, P |-> P] : v \in {-2495, -5, 0, 95, 1250}, P \in 0 .. 3}
Facet(point, sep, grouping) == [point |-> point, sep |-> sep, grouping |-> grouping]
MCStreams == {Classic, Facet(Comma, Blank, <<2>>), Facet(Point, Comma, <<3>>), Facet(Comma, Point, <<1, 2>>)}
MCFormats ==
  {basic_decimal_format, OfPoint(Comma), OfSeparator(Comma, Point), OfSeparator(Point, Nul),
   OfThousands(Point, Comma, TRUE), OfThousands(Comma, Blank, FALSE),
   decimal_format(Point, Comma, TRUE, <<1, 2>>), decimal_format(Comma, Comma, TRUE, <<>>),
   format_from_stream({})}
MCWholeParts == {<<>>, <<0>>, <<0, 7>>, <<9>>, <<1, 9>>, <<2, 0, 9>>}
MCFractions == {<<>>, <<0>>, <<5>>, <<0, 4>>, <<9, 5>>, <<4, 9, 9>>, <<0, 0, 5>>, <<9, 9, 9>>}
=============================================================================
