--------------------------- MODULE MCHttpCarrier ---------------------------
EXTENDS HttpCarrier

F(ty, i) == [ty |-> ty, id |-> i]

\* Clients that go on writing, that end the session, that close the stream.
MCPrograms ==
  {<<F("OPEN", 1), F("DATA", 1), F("DATA", 1)>>,
   <<F("OPEN", 1), F("DATA", 1), F("BYE", 0)>>,
   <<F("OPEN", 1), F("DATA", 1), F("CLOSE", 1)>>}
=============================================================================
