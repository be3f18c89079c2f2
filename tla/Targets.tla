------------------------------ MODULE Targets -------------------------------
(***************************************************************************)
(* The request target: UrlDecode, ParseTarget and UriMatches of            *)
(* src/src/CWebsocketServer.cpp, and what a reader expects of them stated  *)
(* another way.  A string is a sequence of character codes.                *)
(***************************************************************************)
EXTENDS Naturals, Sequences, SequencesExt

Percent == 37
Ampersand == 38
PlusSign == 43
Slash == 47
EqualSign == 61
Question == 63
Space == 32

Digits == 48 .. 57
Upper == 65 .. 70  \* A .. F
Lower == 97 .. 102 \* a .. f

\* std::stoi of one digit, base 16.
HexValue(c) == CASE c \in Digits -> c - 48 [] c \in Upper -> c - 55 [] c \in Lower -> c - 87

\* Fault: an escape that ends the string is not recognised.
EscapeFitsStrictly(in, i) == i + 2 < Len(in)

\* Two characters follow position i.
EscapeFits(in, i) == i + 2 <= Len(in)

\* A percent sign and the two hexadecimal digits after it.
IsEscape(in, i) ==
  /\ in[i] = Percent /\ EscapeFits(in, i)
  /\ {in[i + 1], in[i + 2]} \subseteq Digits \cup Upper \cup Lower

UrlDecode(in) ==
  LET from[i \in 1 .. Len(in) + 1] ==
        IF i > Len(in) THEN <<>>
        ELSE IF IsEscape(in, i)
        THEN <<16 * HexValue(in[i + 1]) + HexValue(in[i + 2])>> \o from[i + 3]
        ELSE <<IF in[i] = PlusSign THEN Space ELSE in[i]>> \o from[i + 1]
  IN from[1]

\* Position of the first c in s at or after start, one past the end if none.
Find(s, c, start) ==
  LET i == SelectInSubSeq(s, start, Len(s), LAMBDA x : x = c)
  IN IF i = 0 THEN Len(s) + 1 ELSE i

\* The non-empty pairs between the ampersands of a query, in order.
Pairs(query) ==
  LET from[start \in 1 .. Len(query) + 2] ==
        IF start > Len(query) + 1 THEN <<>>
        ELSE LET end == Find(query, Ampersand, start)
             IN <<SubSeq(query, start, end - 1)>> \o from[end + 1]
  IN SelectSeq(from[1], LAMBDA p : p # <<>>)

\* Name and value of a pair; without an equal sign the value is empty.
Parameter(pair) ==
  LET eq == Find(pair, EqualSign, 1)
  IN <<UrlDecode(SubSeq(pair, 1, eq - 1)), UrlDecode(SubSeq(pair, eq + 1, Len(pair)))>>

\* The path, not decoded, and the decoded parameters: the last of a name wins.
ParseTarget(target) ==
  LET q == Find(target, Question, 1)
      pairs == Pairs(SubSeq(target, q + 1, Len(target)))
      assigned == [i \in 1 .. Len(pairs) |-> Parameter(pairs[i])]
  IN [path |-> SubSeq(target, 1, q - 1),
      parameters |-> [name \in {assigned[i][1] : i \in DOMAIN assigned} |->
        assigned[SelectLastInSeq(assigned, LAMBDA a : a[1] = name)][2]]]

UriMatches(uri, path) ==
  /\ uri # <<>> /\ IsPrefix(uri, path)
  /\ Len(path) > Len(uri) => path[Len(uri) + 1] = Slash \/ Last(uri) = Slash

\* The longest of uris that path lies within, the empty one if there is none.
LongestUriMatch(uris, path) ==
  LET matching == {u \in uris : UriMatches(u, path)}
  IN IF matching = {} THEN <<>>
     ELSE CHOOSE u \in matching : \A v \in matching : Len(v) <= Len(u)

-----------------------------------------------------------------------------
(***************************************************************************)
(* The reference: what a client encodes, and uris as lists of segments.    *)
(***************************************************************************)
HexDigit(n) == IF n < 10 THEN n + 48 ELSE n + 55

\* Letters and digits stand for themselves, anything else is escaped; a form
\* writes a plus sign for a space.
UrlEncode(s, form) ==
  FlattenSeq([i \in 1 .. Len(s) |->
    IF s[i] \in Digits \cup (65 .. 90) \cup (97 .. 122) THEN <<s[i]>>
    ELSE IF form /\ s[i] = Space THEN <<PlusSign>>
    ELSE <<Percent, HexDigit(s[i] \div 16), HexDigit(s[i] % 16)>>])

\* The target of a request for path with parameters, a list of name and value.
EncodeTarget(path, parameters, form) ==
  LET Pair(p) == UrlEncode(p[1], form) \o <<EqualSign>> \o UrlEncode(p[2], form)
      joined == FlattenSeq([i \in 1 .. Len(parameters) |-> <<Ampersand>> \o Pair(parameters[i])])
  IN IF parameters = <<>> THEN path ELSE path \o <<Question>> \o Tail(joined)

\* The segments of a path: "/a/b" has the segments "a" and "b", "/" has none.
Segments(path) ==
  LET cuts == {i \in 1 .. Len(path) : path[i] = Slash}
      ends == [i \in cuts |-> Find(path, Slash, i + 1) - 1]
      all == SetToSortSeq(cuts, <)
      parts == [k \in 1 .. Len(all) |-> SubSeq(path, all[k] + 1, ends[all[k]])]
  IN IF parts # <<>> /\ Last(parts) = <<>> THEN Front(parts) ELSE parts

\* The deepest of uris whose segments path begins with, the empty one if none.
DeepestAncestor(uris, path) ==
  LET above == {u \in uris : IsPrefix(Segments(u), Segments(path))}
  IN IF above = {} THEN <<>>
     ELSE CHOOSE u \in above : \A v \in above : Len(Segments(v)) <= Len(Segments(u))
=============================================================================
