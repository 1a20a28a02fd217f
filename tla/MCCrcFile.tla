------------------------------ MODULE MCCrcFile ------------------------------
(* CrcFile on small files. *)
EXTENDS CrcFile

\* Files that are no multiple of the polynomial, and short ones that are.
SomeDocs  == {<<>>, <<0>>, <<7>>, <<1, 255>>}

ASSUME SomeDocsAssumption == NoMultiples
===============================================================================
