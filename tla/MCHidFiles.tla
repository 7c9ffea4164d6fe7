------------------------------- MODULE MCHidFiles -------------------------------
(* Up to three devices are listed, one is opened, and sends four reports.  *)
EXTENDS HidFiles

\* A device that every platform lists, and one more for each way in which one of
\* them differs from it.
Good == [path |-> "a", vid |-> 1, pid |-> 1, serial |-> "s", hid |-> TRUE,
         uevent |-> <<"other", "uniq", "id", "name">>, bus |-> "usb", usb |-> TRUE,
         detail |-> TRUE, class |-> "bound", opens |-> TRUE]
Devices == {
    Good,
    [Good EXCEPT !.path = "b", !.pid = 2, !.bus = "bluetooth", !.usb = FALSE],
    [Good EXCEPT !.usb = FALSE, !.class = "unbound"],
    [Good EXCEPT !.vid = 2, !.uevent = <<"id", "name">>, !.detail = FALSE],
    [Good EXCEPT !.hid = FALSE, !.class = "unknown"],
    [Good EXCEPT !.bus = "other", !.serial = "t", !.opens = FALSE, !.path = NoPath]}
MCBuses == UNION {[1..n -> Devices] : n \in 0..3}

MCQueries == {[vid |-> 0, pid |-> 0, serial |-> Null],
              [vid |-> 1, pid |-> 0, serial |-> Null],
              [vid |-> 1, pid |-> 1, serial |-> Null],
              [vid |-> 1, pid |-> 1, serial |-> "s"]}

\* items of each size, with the key of Report ID among their data, and a long one
Items == {[key |-> 133, data |-> <<1>>],
          [key |-> 192, data |-> << >>],
          [key |-> 5,   data |-> <<133>>],
          [key |-> 38,  data |-> <<133, 133>>],
          [key |-> 39,  data |-> <<0, 0, 0, 133>>],
          [key |-> 254, data |-> <<2, 133, 133, 133>>]}
MCDescriptors == UNION {[1..n -> Items] : n \in 0..3}
===============================================================================
