------------------------------ MODULE MCServer ------------------------------
(* Server for TLC: requests whose parts differ in one place each, two of them in nothing but *)
(* where a colon stands, and three provinces, of which two may be asked at a time.           *)
EXTENDS Server

MCProvinces == <<"p1", "p2", "p3">>
MCTowns     == [p \in {"p1", "p2", "p3"} |-> IF p = "p1" THEN <<"a", "b">>
                                         ELSE IF p = "p2" THEN <<"a">> ELSE <<"b">>]
MCReplies   == {<<>>, <<"x", "", "x", "y">>}
MCCalls     == {
  Request("GetCountries", <<>>, <<"x">>, <<>>),
  Request("GetCities", Indonesia, <<"a">>, <<>>),
  Request("GetCities", Indonesia, <<"a">>, <<"p1">>),
  Request("GetCities", <<"US">>, <<":">>, <<>>),
  Request("GetCities", <<"US">>, <<>>, <<":">>),
  Request("GetStates", Indonesia, <<"a">>, <<>>),
  Request("GetStates", <<"US">>, <<"x">>, <<>>),
  Request("GetZipCodes", <<"US">>, <<"x">>, <<"y">>)}
=============================================================================
