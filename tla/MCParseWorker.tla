--------------------------- MODULE MCParseWorker ---------------------------
(* Values that exercise each special byte, and JSON texts.  'a', 'b' and    *)
(* '2' are hexadecimal digits: a '%' in front of two of them is an escape   *)
(* unless the client encoded it.                                            *)
EXTENDS ParseWorker

Member1(name, value) == <<LBrace, Quote>> \o name \o <<Quote, 58>> \o value \o <<RBrace>>

\* A number, a string with separators, a name that is a path, one with a NUL,
\* nested to the limit and beyond it.
JsonTexts ==
    { Member1(<<98>>, <<49>>), Member1(<<98>>, <<Quote, 38, 43, Quote>>), Member1(<<98, 46, 98>>, <<49>>),
      Member1(<<92, 117, 48, 48, 48, 48>>, <<49>>), Member1(<<98>>, <<91, 91, 93, 93>>),
      <<91, 91, 91, 49>>, Member1(appId, <<49>>) }

MCValues == JsonTexts \cup
    { <<>>, <<37>>, <<43>>, <<98, 32>>, <<37, 50, 98>>, <<38, 257, 61, 98>>,
      <<true>>, <<true, 38>>, <<98, 61, 37, 38>> }
=============================================================================
