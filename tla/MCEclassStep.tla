----------------------------- MODULE MCEclassStep ------------------------------
EXTENDS EclassStep
ThreeFiles == {"f1", "f2", "f3"}
SomeListings == {<<>>, <<"f1">>, <<"f2", "f1">>, <<"f1", "f2", "f3">>}
================================================================================
