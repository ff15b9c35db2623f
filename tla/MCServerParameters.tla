------------------------- MODULE MCServerParameters -------------------------
(* Two clients, each sending one of a handful of setParameter commands     *)
(* chosen so that every handler meets an accepted and a rejected element,  *)
(* validation fails in each of its ways, and a command fails part way.     *)
EXTENDS ServerParameters

MCComponents == {"default", "query"}
MCWords == {"find", "count", "foo"}
MCDisableCommands == {"find", "count"}
MCGenericArgs == {"comment"}
MCStartupOnly == {"storageEngine"}

\* "find,count" is accepted; "find, count" splits into an empty token too.
FindCount == StrElem(<<"find", ",", "count">>, 10)
FindSpaceCount == StrElem(<<"find", ",", " ", "count">>, 11)

MCCommands == {
    \* logLevel then readOnly: readOnly rejects an int after logLevel was set
    <<<<"readOnly", IntElem(1)>>, <<"logLevel", IntElem(2)>>>>,
    \* all accepted: the map reorders them
    <<<<"readOnly", BoolElem(TRUE)>>, <<"isImplicitCreateCol", BoolElem(TRUE)>>,
      <<"comment", IntElem(0)>>, <<"allowCommands", FindCount>>>>,
    <<<<"allowCommands", FindSpaceCount>>, <<"logLevel", IntElem(1)>>>>,
    <<<<"logComponentVerbosity", ObjElem(TRUE, <<<<"query", 3>>, <<"default", -1>>, <<"query", -1>>>>)>>,
      <<"automationServiceDescriptor", StrElem(<<"foo">>, 70)>>>>,
    <<<<"logComponentVerbosity", ObjElem(FALSE, <<>>)>>>>,
    <<<<"automationServiceDescriptor", StrElem(<<"foo">>, 3)>>, <<"isImplicitCreateCol", IntElem(0)>>>>,
    \* validation failures: repeated, startup-only, nothing to set
    <<<<"logLevel", IntElem(1)>>, <<"logLevel", IntElem(2)>>>>,
    <<<<"storageEngine", IntElem(1)>>>>,
    <<<<"comment", IntElem(0)>>>>,
    \* the connection limits, the last one rejected for a negative value
    <<<<"maxIncomingConnections", IntElem(5)>>, <<"maxInternalIncomingConnections", IntElem(2)>>>>,
    <<<<"maxIncomingConnections", IntElem(7)>>>>,
    <<<<"maxInternalIncomingConnections", IntElem(-1)>>, <<"logLevel", BoolElem(TRUE)>>>>
}
=============================================================================
