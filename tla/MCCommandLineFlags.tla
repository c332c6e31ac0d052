------------------------- MODULE MCCommandLineFlags -------------------------
(***************************************************************************)
(* A bool flag whose name begins another flag's, flags of every type, a    *)
(* hook that refuses a value.  int32 has 3 bits and int64 has 4: "5" fits  *)
(* the second only and "9" neither.                                        *)
(***************************************************************************)
EXTENDS CommandLineFlags

Flag(name, type, refuses) == [name |-> name, type |-> type, refuses |-> refuses]

MCFlagOf ==
  [v |-> Flag(<<"v">>, "bool", {}),
   verbose |-> Flag(<<"v", "erbose">>, "int32", {}),
   n |-> Flag(<<"n">>, "int64", {3}),
   f |-> Flag(<<"f">>, "float", {}),
   s |-> Flag(<<"s">>, "string", {})]

MCLists == {<<"verbose", "n", "f">>, <<"verbose", "v", "s">>, <<"v", "verbose">>}

MCNumeral == [t \in {<<"3">>, <<"5">>, <<"9">>} |->
                CASE t = <<"3">> -> 3 [] t = <<"5">> -> 5 [] t = <<"9">> -> 9]
MCDecimals == {<<"1.5">>}

Set(name, text) == <<"--">> \o name \o <<"=">> \o text

MCArgs ==
  {<<"--">>, <<"--", "help">>, <<"--", "v">>, <<"--", "v", "=", "false">>,
   <<"--", "v", "erbose">>, <<"word">>,
   Set(<<"v", "erbose">>, <<"3">>), Set(<<"v", "erbose">>, <<"5">>),
   Set(<<"n">>, <<"3">>), Set(<<"n">>, <<"5">>), Set(<<"n">>, <<"9">>),
   Set(<<"f">>, <<"1.5">>),
   Set(<<"s">>, <<>>)}
=============================================================================
