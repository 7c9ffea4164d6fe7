----------------------------- MODULE HidEnumeration -----------------------------
(***************************************************************************)
(* hid_enumerate() and hid_free_enumeration() on the three platforms: the   *)
(* devices that match are chained up in the order the system gives them,    *)
(* by pointers to the last records.  A record is named by the place of its  *)
(* device on the bus.                                                        *)
(* What is known of a device, apart from its ids:                            *)
(*   path     the name to open it by, or NoPath when the system has none     *)
(*   hid      it has a parent in the hid subsystem                (Linux)    *)
(*   uevent   the lines of that parent's uevent                   (Linux)    *)
(*   bus      "usb", "bluetooth" or "other"                       (Linux)    *)
(*   usb      it has a parent that is a USB device                (Linux)    *)
(*   detail   the path of its interface can be had                (Windows)  *)
(*   class    "bound" when it is a HIDClass device with a driver,            *)
(*            "unbound" when not, "unknown" when it cannot be told (Windows) *)
(*   opens    it can be opened to be asked                        (Windows)  *)
(***************************************************************************)
EXTENDS Integers, Sequences, SequencesExt

CONSTANTS Null,    \* no record
          NoPath

ASSUME NullAssumption == Null \notin Nat

Platforms == {"linux", "old linux", "windows", "osx"}

Matches(vid, pid, d) == vid \in {0, d.vid} /\ pid \in {0, d.pid}

(***************************************************************************)
(* The records: which are allocated, the first one, the last one, the one   *)
(* before that, and the next of each.                                       *)
(***************************************************************************)
NoRecords == [alive |-> {}, root |-> Null, cur |-> Null, prev |-> Null, next |-> << >>]

\* a record for the device at place n, after the last one
Link(list, n) ==
    LET next == [i \in DOMAIN list.next \cup {n} |->
                   IF i = n THEN Null ELSE IF i = list.cur THEN n ELSE list.next[i]]
    IN [alive |-> list.alive \cup {n}, next |-> next, prev |-> list.cur, cur |-> n,
        root |-> IF list.cur = Null THEN n ELSE list.root]

\* the last record is freed and taken off the list
UnlinkFreeOnly(list) == [list EXCEPT !.alive = @ \ {list.cur}, !.cur = list.prev] \* variant
Unlink(list) ==
    IF list.prev # Null
    THEN [list EXCEPT !.alive = @ \ {list.cur}, !.next[list.prev] = Null, !.cur = list.prev]
    ELSE [list EXCEPT !.alive = @ \ {list.cur}, !.cur = Null, !.root = Null]

\* parse_uevent_info(): the lines "id", "name" and "uniq" are those of the three
\* keys with a value that can be read; any order, with other lines in between
parse_uevent_info(lines) == {"id", "name", "uniq"} \subseteq ToSet(lines)

VisitLinux(list, d, n, vid, pid) ==
    IF ~ (d.hid /\ parse_uevent_info(d.uevent) /\ d.bus # "other" /\ Matches(vid, pid, d)) THEN list
    ELSE IF d.bus = "usb" /\ ~d.usb THEN Unlink(Link(list, n))
    ELSE Link(list, n)

\* any device of the bus will do for the class, and it is looked for up to the
\* first whose class cannot be told
ClassSeen(bus) == \E i \in DOMAIN bus :
    bus[i].class = "bound" /\ \A j \in 1..i : bus[j].class # "unknown"

VisitWindows(list, d, n, vid, pid, bus) ==
    IF d.detail /\ ClassSeen(bus) /\ d.opens /\ Matches(vid, pid, d) THEN Link(list, n) ELSE list

VisitOsx(list, d, n, vid, pid) == IF Matches(vid, pid, d) THEN Link(list, n) ELSE list

Visit(platform, bus, vid, pid, list, n) ==
    CASE platform = "windows" -> VisitWindows(list, bus[n], n, vid, pid, bus)
      [] platform = "osx" -> VisitOsx(list, bus[n], n, vid, pid)
      [] OTHER -> VisitLinux(list, bus[n], n, vid, pid)

hid_enumerate(platform, bus, vid, pid) ==
    FoldLeftDomain(LAMBDA list, n : Visit(platform, bus, vid, pid, list, n), NoRecords, bus)

\* the records that one gets at from the first, in order
Chain(list) ==
    LET from[i \in DOMAIN list.next \cup {Null}] ==
            IF i = Null THEN << >> ELSE <<i>> \o from[list.next[i]]
    IN from[list.root]

\* hid_open(): the first record with exactly the ids, and the serial number if
\* one is asked for
path_to_open(list, bus, vid, pid, serial) ==
    LET found == SelectSeq(Chain(list), LAMBDA n :
            bus[n].vid = vid /\ bus[n].pid = pid /\ serial \in {Null, bus[n].serial})
    IN IF found = << >> THEN NoPath ELSE bus[found[1]].path
===============================================================================
