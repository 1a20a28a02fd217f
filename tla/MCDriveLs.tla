------------------------------- MODULE MCDriveLs ------------------------------
(* DriveLs with names of two and extensions of one byte. *)
EXTENDS DriveLs

Boot(sec, clus, fats, root, size) ==
  [BytsPerSec |-> sec, SecPerClus |-> clus, RsvdSecCnt |-> 1, NumFATs |-> fats,
   RootEntCnt |-> root, FATSz16 |-> size, FATSz32 |-> <<1, 0, 0, 0>>]
MCBoots == {Boot(32, 2, 2, 2, 1), Boot(64, 1, 2, 2, 0),
            [Boot(64, 1, 1, 2, 0) EXCEPT !.FATSz32 = <<0, 1, 0, 0>>]}
OneBoot == {Boot(64, 1, 1, 2, 1)}

Entry(base, ext, attr, clus) == [base |-> base, ext |-> <<ext>>, attr |-> attr, clus |-> clus]
MCEntries ==
  {Entry(<<"D", Blank>>, Blank, {"directory"}, 2), Entry(<<"D", Blank>>, "X", {"directory"}, 3),
   Entry(<<".", ".">>, Blank, {"directory"}, 0), Entry(<<"D", Blank>>, Blank, {"archive"}, 5),
   Entry(<<"A", "B">>, Blank, {}, 6), Entry(<<"A", "B">>, "C", {"directory"}, 3),
   Entry(<<"A", Blank>>, Blank, {}, 0), Entry(<<"V", Blank>>, Blank, {"volume"}, 0),
   Entry(<<Deleted, Blank>>, Blank, {"directory"}, 2),
   Entry(<<EndMark, Blank>>, Blank, {}, 0)}
MCJunk ==
  {Entry(<<"D", Blank>>, Blank, {"directory"}, 2), Entry(<<"V", Blank>>, Blank, {"volume"}, 0),
   Entry(<<EndMark, Blank>>, Blank, {}, 0)}
MCPaths == {<<>>, <<<<"D">>>>, <<<<"D", ".", "X">>>>, <<<<"D">>, <<".", ".">>>>,
            <<<<"D">>, <<"D">>>>}
OnePath == {<<<<"D">>>>}
===============================================================================
