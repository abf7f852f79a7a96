--------------------------- MODULE MCIodinStream ---------------------------
(* TLC instance of IodinStream: every command, an empty request, a timeout of *)
(* two bytes; raw bodies that parse or fail at their end or before it.       *)
EXTENDS IodinStream

MCRequests ==
  {<<0, 0, 0, 0, <<>>>>, <<0, 1, 0, 0, <<15, 14>>>>, <<0, 2, 0, 300, <<>>>>,
   <<1, 3, 127, 0, <<0>>>>, <<0, 100, 0, 0, <<>>>>, <<0, 9, 0, 0, <<>>>>}
MCRawBodies ==
  {<<56, 1, 16, 2, 16, 1>>,   \* an unknown field, a repeated one
   <<16>>,                    \* ends within a field
   <<16, 100, 0>>,            \* STOP and no field
   <<42, 9, 16, 1>>}          \* bytes longer than their message
MCAnswers ==
  {<<0, 1, <<>>, <<>>>>, <<0, 1, <<>>, <<0, 255>>>>, <<0, 6, <<116>>, <<>>>>,
   <<0, 6, <<116, 105, 109>>, <<>>>>,     \* too long for Do, by one byte and by two
   <<0, 1, <<>>, <<2, 0, 0, 0>>>>}
=============================================================================
