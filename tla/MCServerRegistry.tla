-------------------------- MODULE MCServerRegistry --------------------------
(***************************************************************************)
(* Instances of ServerRegistry for TLC.                                    *)
(***************************************************************************)
EXTENDS ServerRegistry

CONSTANTS c1, c2, inMain

\* Calls from callbacks: only the worker's, or also those of the callbacks that
\* the owner's Stop() and RemoveClient() run.
NotNested == [b \in {} |-> Main]
InMain == inMain :> Main

\* One uri "/a" and clients that all ask for "/a": they are interchangeable.
OneUri == {<<"a">>}
SamePath == [c \in Conns |-> <<"a">>]
Symmetry == Permutations(Conns)

\* Nested uris "/a/" and "/a/b", a client below both and one below "/a/" only.
NestedUris == {<<"a", "">>, <<"a", "b">>}
NestedPath == (c1 :> <<"a", "b">>) @@ (c2 :> <<"a", "c">>)
=============================================================================
