----------------------------- MODULE MCCallChain -----------------------------
EXTENDS CallChain

Flights == [fn |-> "Search_Flights", arg |-> "right"]
Seats   == [fn |-> "Get_Seat_Map", arg |-> "right"]
From    == [fn |-> "Search_Flight_Location", arg |-> "right"]
Place   == [fn |-> "Location_to_Lat_Long", arg |-> "right"]
Hotel   == [fn |-> "Search_Hotels", arg |-> "hotel"]
Rooms   == [fn |-> "Get_Room_List", arg |-> "malformed"]
Unfit   == [fn |-> "Search_Car_Location", arg |-> "malformed"]
Lookup  == [fn |-> "Taxi_Search_Location", arg |-> "unsorted"]

(* Lookups first, and required calls after; one lookup in two turns; calls *)
(* that may come in any order, and one required call twice; a search for   *)
(* hotels; optional turns at the end; one lookup in four turns; golden     *)
(* calls that are malformed, and a lookup whose arguments are unsorted.    *)
MCChains == {
  <<<<From>>, <<Flights>>, <<Seats>>>>,
  <<<<Flights, From>>, <<From, Seats>>>>,
  <<<<Flights, Seats>>, <<Flights>>>>,
  <<<<Hotel, Seats>>, <<Flights>>>>,
  <<<<Seats>>, <<Place>>, <<From>>>>,
  <<<<Hotel, From>>, <<From>>, <<From, Seats>>, <<From>>>>,
  <<<<Unfit, Rooms>>, <<Lookup, Flights>>>>}

MCWrong == {[fn |-> "Search_Flights", arg |-> "other"],
            [fn |-> "Get_Seat_Map", arg |-> "malformed"]}

(* Unpopped against remove_called_fc as it is written, on all lists of up  *)
(* to six calls with two of them marked: the places that stay.             *)
Popped(s, C) ==
  LET due == SelectSeq(s, LAMBDA c : c \in C)
      at  == [n \in 1..Len(due) |-> SelectInSeq(s, LAMBDA c : c = due[n])]
  IN FoldLeft(RemoveAt, [i \in 1..Len(s) |-> i], SortSeq(at, >))

ASSUME PopsByValue ==
  \A n \in 0..6 : \A s \in [1..n -> {"a", "b", "x"}] :
    ToSet(Popped(s, {"a", "b"})) = Unpopped(s, {"a", "b"})
==============================================================================
