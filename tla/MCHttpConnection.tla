-------------------------- MODULE MCHttpConnection --------------------------
(***************************************************************************)
(* The instance of HttpConnection for TLC: the uris "/", "/a" and "/a/b",  *)
(* of which "/a/b" has no http handler, and requests with awkward          *)
(* parameters, encoded or not.                                             *)
(***************************************************************************)
EXTENDS HttpConnection

Root == <<47>>
A == <<47, 97>>
AB == <<47, 97, 47, 98>>
MCUris == {Root, A, AB}
MCHttpUris == {Root, A}
MCAllowedUris == {{Root \o <<98>>, A}}

\* "/", "/a", "/ab", "/a/", "/a/b", "/a/bc", "/a/b/c".
Paths == {Root, A, A \o <<98>>, A \o Root, AB, AB \o <<99>>, AB \o <<47, 99>>}

\* A letter, a digit, the characters with a meaning in a query, a byte beyond
\* ASCII; words of up to two of them.
Characters == {97, 50, Percent, Ampersand, PlusSign, EqualSign, Question, Space, 233}
Words == {<<>>} \cup {<<x>> : x \in Characters} \cup {<<Percent, x>> : x \in {50, 97}}
         \cup {<<x, Percent>> : x \in {50, Space}}

\* Percent signs a client wrote as they are: one that ends the word, one cut
\* short by the end, one before a letter that is no digit, two in a row.  They
\* escape nothing and stand for themselves.
BarePercents == {<<Percent>>, <<50, Percent>>, <<Percent, 50>>, <<Percent, 97>>,
                 <<Percent, 50, 103>>, <<Percent, Percent>>}

ToFunction(list) == [n \in {list[i][1] : i \in DOMAIN list} |->
  list[SelectLastInSeq(list, LAMBDA p : p[1] = n)][2]]

Request(path, list, form, up, keep) ==
  [target |-> EncodeTarget(path, list, form), path |-> path, parameters |-> ToFunction(list),
   upgrade |-> up, keepAlive |-> keep]

BareRequest(w) ==
  [target |-> A \o <<Question>> \o w \o <<EqualSign>> \o w, path |-> A,
   parameters |-> ToFunction(<<<<w, w>>>>), upgrade |-> FALSE, keepAlive |-> TRUE]

MCRequests ==
  {Request(p, <<>>, FALSE, up, FALSE) : p \in Paths, up \in BOOLEAN}
  \cup {Request(p, <<>>, FALSE, FALSE, TRUE) : p \in {Root, A}}
  \cup {Request(A, <<<<w, <<97>>>>, <<<<97>>, w>>>>, TRUE, FALSE, TRUE) : w \in Words}
  \cup {Request(A, <<<<<<EqualSign>>, w>>>>, FALSE, FALSE, TRUE) : w \in Words}
  \cup {BareRequest(w) : w \in BarePercents}
=============================================================================
