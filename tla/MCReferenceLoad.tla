--------------------------- MODULE MCReferenceLoad ---------------------------
(* Instances of ReferenceLoad for TLC. *)
EXTENDS ReferenceLoad

Cat(prefix, title) == [kind |-> "category", prefix |-> prefix, title |-> title, code |-> NOWHERE]
Major(prefix, title, code) ==
    [kind |-> "major", prefix |-> prefix, title |-> title, code |-> code]
Inst(id, country, province) == [id |-> id, country |-> country, province |-> province]

(* Two cities of one name; a title twice in a category; a major before its   *)
(* category; an institution without a city, one of a country not loaded.    *)
Published ==
    [countries |-> <<"jo", "sy">>,
     cities |-> << <<"zarqa", "jo">>, <<"zarqa", "sy">>, <<"zarqa", "jo">>, <<"zarqa", "tr">> >>,
     sheet |-> <<Major("02", "Ecology", "02.01"), Cat("01", "Sciences"),
                 Major("01", "Ecology", "01.01"), Major("01", "Ecology", "01.02")>>,
     institutions |-> <<Inst("just", "jo", "zarqa"), Inst("ittihad", "sy", "idlib")>>]

(* A later edition: the title has moved to the other code. *)
Republished ==
    [Published EXCEPT !.cities = Tail(@),
                      !.sheet = <<Cat("01", "Sciences"), Major("01", "Ecology", "01.02")>>]

TwoFeeds == {Published, Republished}
MCFeeds == TwoFeeds   \* evaluated once
RefCountries == {"jo", "sy", "tr"}
RefCityNames == {"zarqa"}
RefMajorCodes == {"01.01", "01.02", "02.01"}
RefInstitutes == {"just", "ittihad"}
RefSample == [countries |-> 1, cities |-> 1, categories |-> 1, majors |-> 1,
              majorsOfCategory |-> 1, institutions |-> 1]
=============================================================================
